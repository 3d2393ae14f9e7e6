-------------------------- MODULE StateMachineProofs --------------------------
(*****************************************************************************)
(* Invariants of the circuit breaker, the plan applier, the replicas of the  *)
(* Raft log and the rollouts, for every set of callers, nodes, replicas and  *)
(* allocations, for plans and logs of any length and for all thresholds.     *)
(*****************************************************************************)
EXTENDS CircuitBreaker, PlanApplier, RaftFSM, Deployment, Integers, Induction,
        FiniteSetTheorems, TLAPS

-----------------------------------------------------------------------------
(* CircuitBreaker.                                                           *)

\* The property is inductive, given the types.
BreakerInv == BreakerTypeOK /\ ClosedBelowThreshold

LEMMA BreakerInitInv == BreakerInit => BreakerInv
BY BreakerAssumption
   DEF BreakerInit, BreakerInv, BreakerTypeOK, ClosedBelowThreshold

LEMMA BreakerNextInv == BreakerInv /\ [BreakerNext]_breakerVars => BreakerInv'
<1> SUFFICES ASSUME BreakerInv, [BreakerNext]_breakerVars PROVE BreakerInv'
  OBVIOUS
<1> USE BreakerAssumption DEF BreakerInv, BreakerTypeOK, ClosedBelowThreshold
<1>1. CASE \E c \in Caller : ExecuteBegins(c)
  BY <1>1 DEF ExecuteBegins, Admit
<1>2. ASSUME NEW c \in Caller, ExecuteFails(c) PROVE BreakerInv'
  <2>1. FailureThreshold \in Nat \ {0} /\ failureCount \in 0..FailureThreshold
    OBVIOUS
  <2>2. failureCount' \in 0..FailureThreshold
        /\ (failureCount < FailureThreshold => failureCount' = failureCount + 1)
        /\ (failureCount = FailureThreshold => failureCount' = FailureThreshold)
    BY <1>2, <2>1 DEF ExecuteFails, Raised
  <2>3. ClosedBelowThreshold'
    BY <1>2, <2>1, <2>2 DEF ExecuteFails
  <2> QED BY <1>2, <2>2, <2>3 DEF ExecuteFails
<1>3. CASE \E c \in Caller : ExecuteSucceeds(c)
  BY <1>3 DEF ExecuteSucceeds, Raised
<1>4. CASE TimeoutPasses \/ DependencyChanges
  BY <1>4 DEF TimeoutPasses, DependencyChanges
<1>5. CASE UNCHANGED breakerVars
  BY <1>5 DEF breakerVars
<1> QED BY <1>1, <1>2, <1>3, <1>4, <1>5 DEF BreakerNext, ExecuteReturns

\* For any number of overlapping calls and all thresholds, the breaker is closed exactly
\* while the count of failures is below its threshold.
THEOREM BreakerCounts == BreakerSpec => []ClosedBelowThreshold
<1>1. BreakerInv => ClosedBelowThreshold
  BY DEF BreakerInv
<1> QED BY <1>1, BreakerInitInv, BreakerNextInv, PTL DEF BreakerSpec

-----------------------------------------------------------------------------
(* PlanApplier.                                                              *)

\* Functions on sets of IDs, as NodeState.Allocations.
Charges == UNION {[E -> Nat] : E \in SUBSET AllocID}

\* A placement whose bookkeeping is sound, between any two steps of a Submit as well.
Placements ==
    [used : [Registered -> Nat], allocs : [Registered -> Charges], reused : SUBSET AllocID]

SoundOn(s, n) ==
    /\ IsFiniteSet(DOMAIN s.allocs[n])
    /\ s.used[n] >= SumFunction(s.allocs[n])
    /\ s.reused = {} => s.used[n] = SumFunction(s.allocs[n])
    /\ n \notin shrunk => s.used[n] <= total[n]

SoundPlacements == {s \in Placements : \A n \in Registered : SoundOn(s, n)}

ApplierInv ==
    /\ Registered \subseteq PlanNode
    /\ total \in [Registered -> Nat]
    /\ Placement \in SoundPlacements

LEMMA ChargesType ==
    ASSUME NEW E \in SUBSET AllocID, NEW f \in [E -> Nat]
    PROVE  f \in Charges
BY DEF Charges

LEMMA ChargesSum ==
    ASSUME NEW f \in Charges, IsFiniteSet(DOMAIN f)
    PROVE  /\ SumFunction(f) \in Nat
           /\ \A id \in DOMAIN f : f[id] \in Nat /\ f[id] <= SumFunction(f)
<1>1. \A id \in DOMAIN f : f[id] \in Nat
  BY DEF Charges
<1>2. SumFunction(f) \in Nat
  BY <1>1, SumType DEF SumFunction
<1>3. ASSUME NEW id \in DOMAIN f PROVE f[id] <= SumFunction(f)
  <2> DEFINE E == DOMAIN f \ {id}
  <2>1. IsFiniteSet(E) /\ \A x \in E : f[x] \in Nat
    BY <1>1, FS_RemoveElement
  <2>2. SumFunctionOnSet(f, E) \in Nat
    BY <2>1, SumType
  <2>3. SumFunction(f) = f[id] + SumFunctionOnSet(f, E)
    BY <1>1, SumSplit DEF SumFunction
  <2> QED BY <1>1, <2>2, <2>3
<1> QED BY <1>1, <1>2, <1>3

\* What taking an allocation away, and putting one there, does to the sum.
LEMMA ChargesWithout ==
    ASSUME NEW f \in Charges, IsFiniteSet(DOMAIN f), NEW id \in DOMAIN f
    PROVE  LET g == [i \in DOMAIN f \ {id} |-> f[i]]
           IN  /\ g \in Charges
               /\ IsFiniteSet(DOMAIN g)
               /\ SumFunction(g) = SumFunction(f) - f[id]
<1> DEFINE E == DOMAIN f \ {id}
           g == [i \in E |-> f[i]]
<1>1. \A i \in DOMAIN f : f[i] \in Nat
  BY DEF Charges
<1>2. IsFiniteSet(E) /\ DOMAIN f \in SUBSET AllocID
  BY FS_RemoveElement DEF Charges
<1>3. g \in [E -> Nat] /\ DOMAIN g = E
  BY <1>1
<1>4. g \in Charges
  BY <1>2, <1>3, ChargesType
<1>5. SumFunctionOnSet(g, E) = SumFunctionOnSet(f, E) /\ SumFunctionOnSet(f, E) \in Nat
  <2>1. \A x \in E : f[x] \in Nat /\ g[x] = f[x]
    BY <1>1
  <2> HIDE DEF E, g
  <2> QED BY <1>2, <2>1, SumSame, SumType
<1>6. SumFunction(f) = f[id] + SumFunctionOnSet(f, E)
  BY <1>1, SumSplit DEF SumFunction
<1>7. SumFunction(g) = SumFunctionOnSet(g, E)
  BY <1>3 DEF SumFunction
<1>8. SumFunction(g) = SumFunction(f) - f[id]
  BY <1>1, <1>5, <1>6, <1>7
<1> QED BY <1>2, <1>3, <1>4, <1>8

LEMMA ChargesWith ==
    ASSUME NEW f \in Charges, IsFiniteSet(DOMAIN f), NEW id \in AllocID, NEW v \in Nat
    PROVE  /\ With(f, id, v) \in Charges
           /\ IsFiniteSet(DOMAIN With(f, id, v))
           /\ SumFunction(With(f, id, v)) <= SumFunction(f) + v
           /\ id \notin DOMAIN f => SumFunction(With(f, id, v)) = SumFunction(f) + v
<1> DEFINE E == DOMAIN f \ {id}
           D == DOMAIN f \cup {id}
           g == With(f, id, v)
<1>1. \A i \in DOMAIN f : f[i] \in Nat
  BY DEF Charges
<1>2. IsFiniteSet(E) /\ IsFiniteSet(D) /\ D \in SUBSET AllocID
  BY FS_RemoveElement, FS_AddElement DEF Charges
<1>3. g \in [D -> Nat] /\ DOMAIN g = D /\ g[id] = v /\ \A i \in E : g[i] = f[i]
  BY <1>1 DEF With
<1>4. g \in Charges
  BY <1>2, <1>3, ChargesType
<1>5. SumFunctionOnSet(g, E) = SumFunctionOnSet(f, E) /\ SumFunctionOnSet(f, E) \in Nat
  <2>1. \A x \in E : f[x] \in Nat /\ g[x] = f[x]
    BY <1>1, <1>3
  <2> HIDE DEF E, g
  <2> QED BY <1>2, <2>1, SumSame, SumType
<1>6. SumFunction(g) = v + SumFunctionOnSet(g, E)
  <2>1. D \ {id} = E /\ id \in D /\ \A x \in D : g[x] \in Nat
    BY <1>3
  <2> HIDE DEF D, E, g
  <2> QED BY <1>2, <1>3, <2>1, SumSplit DEF SumFunction
<1>7. SumFunction(f) \in Nat /\ SumFunctionOnSet(f, E) <= SumFunction(f)
      /\ (id \notin DOMAIN f => SumFunction(f) = SumFunctionOnSet(f, E))
  <2>1. CASE id \in DOMAIN f
    <3>1. SumFunction(f) = f[id] + SumFunctionOnSet(f, E)
      BY <1>1, <2>1, SumSplit DEF SumFunction
    <3> QED BY <1>1, <1>5, <2>1, <3>1
  <2>2. CASE id \notin DOMAIN f
    <3>1. E = DOMAIN f
      BY <2>2
    <3>2. SumFunction(f) = SumFunctionOnSet(f, E)
      BY <3>1 DEF SumFunction
    <3> QED BY <1>5, <2>2, <3>2
  <2> QED BY <2>1, <2>2
<1> HIDE DEF g, E, D
<1>8. SumFunction(g) = v + SumFunctionOnSet(f, E)
  BY <1>5, <1>6
<1>9. SumFunction(g) <= SumFunction(f) + v
  BY <1>5, <1>7, <1>8
<1>10. id \notin DOMAIN f => SumFunction(g) = SumFunction(f) + v
  BY <1>5, <1>7, <1>8
<1>11. g \in Charges /\ IsFiniteSet(DOMAIN g)
  BY <1>2, <1>3, <1>4
<1> QED BY <1>9, <1>10, <1>11 DEF g

\* Each eviction keeps the placement sound, from whichever node it takes the ID.
LEMMA EvictionSound ==
    ASSUME ApplierInv, NEW s \in SoundPlacements, NEW id
    PROVE  Evictions(s, id) \subseteq SoundPlacements
<1> SUFFICES ASSUME NEW n \in Holding(s, id)
             PROVE  Evicted(s, n, id) \in SoundPlacements
  BY DEF Evictions
<1>1. n \in Registered /\ id \in DOMAIN s.allocs[n]
  BY DEF Holding
<1>2. s \in Placements /\ \A m \in Registered : SoundOn(s, m)
  BY DEF SoundPlacements
<1> DEFINE f == s.allocs[n]
           g == [i \in DOMAIN f \ {id} |-> f[i]]
           t == Evicted(s, n, id)
           v == Clamped(s.used[n], f[id])
<1>3. f \in Charges /\ IsFiniteSet(DOMAIN f) /\ s.used[n] \in Nat
  BY <1>1, <1>2 DEF Placements, SoundOn
<1>4. g \in Charges /\ IsFiniteSet(DOMAIN g) /\ SumFunction(g) = SumFunction(f) - f[id]
  BY <1>1, <1>3, ChargesWithout
<1>5. SumFunction(f) \in Nat /\ f[id] \in Nat /\ f[id] <= SumFunction(f)
  BY <1>1, <1>3, ChargesSum
<1>6. v \in Nat /\ v = s.used[n] - f[id]
  <2>1. s.used[n] >= SumFunction(f)
    BY <1>1, <1>2 DEF SoundOn
  <2> HIDE DEF f
  <2> QED BY <1>3, <1>5, <2>1 DEF Clamped
<1>7. t = [s EXCEPT !.used[n] = v, !.allocs[n] = g]
  BY DEF Evicted
<1>8. /\ t.used = [s.used EXCEPT ![n] = v]
      /\ t.allocs = [s.allocs EXCEPT ![n] = g]
      /\ t.reused = s.reused
  <2> HIDE DEF v, g, t
  <2> QED BY <1>2, <1>7 DEF Placements
<1>9. t \in Placements
  <2>1. t = [used |-> t.used, allocs |-> t.allocs, reused |-> t.reused]
    <3> HIDE DEF v, g, t
    <3> QED BY <1>2, <1>7 DEF Placements
  <2>2. t.used \in [Registered -> Nat] /\ t.allocs \in [Registered -> Charges]
        /\ t.reused \in SUBSET AllocID
    <3> HIDE DEF v, g, t
    <3> QED BY <1>2, <1>4, <1>6, <1>8 DEF Placements
  <2> HIDE DEF t
  <2> QED BY <2>1, <2>2 DEF Placements
<1>10. ASSUME NEW m \in Registered PROVE SoundOn(t, m)
  <2>1. CASE m # n
    <3>1. t.used[m] = s.used[m] /\ t.allocs[m] = s.allocs[m]
      <4> HIDE DEF v, g, t
      <4> QED BY <1>2, <1>8, <2>1 DEF Placements
    <3>2. SoundOn(s, m)
      BY <1>2
    <3> HIDE DEF t
    <3> QED BY <1>8, <3>1, <3>2 DEF SoundOn
  <2>2. CASE m = n
    <3>1. t.used[m] = v /\ t.allocs[m] = g
      <4> HIDE DEF v, g, t
      <4> QED BY <1>1, <1>2, <1>8, <2>2 DEF Placements
    <3>2. SoundOn(s, n)
      BY <1>1, <1>2
    <3>3. /\ v >= SumFunction(g)
          /\ s.reused = {} => v = SumFunction(g)
          /\ n \notin shrunk => v <= total[n]
      <4>1. total[n] \in Nat
        BY <1>1 DEF ApplierInv
      <4>2. s.used[n] >= SumFunction(f) /\ (s.reused = {} => s.used[n] = SumFunction(f))
            /\ (n \notin shrunk => s.used[n] <= total[n])
        BY <3>2 DEF SoundOn
      <4> HIDE DEF v, g, f
      <4> QED BY <1>3, <1>4, <1>5, <1>6, <4>1, <4>2
    <3> HIDE DEF t, v, g
    <3> QED BY <1>4, <1>8, <2>2, <3>1, <3>3 DEF SoundOn
  <2> QED BY <2>1, <2>2
<1> QED BY <1>9, <1>10 DEF SoundPlacements

\* So does each placement on a registered node, whether it fits or not.
LEMMA PlacementSound ==
    ASSUME ApplierInv, NEW s \in SoundPlacements, NEW a \in Request, a.node \in Registered
    PROVE  Placed(s, a) \in SoundPlacements
<1> DEFINE n == a.node
           id == a.id
           d == a.demand
           f == s.allocs[n]
           g == With(f, id, d)
           v == s.used[n] + d
           t == Placed(s, a)
<1>1. n \in Registered /\ id \in AllocID /\ d \in Nat
  BY ApplierAssumption DEF Request
<1>2. s \in Placements /\ \A m \in Registered : SoundOn(s, m)
  BY DEF SoundPlacements
<1>3. CASE ~Fits(s, a)
  BY <1>3 DEF Placed
<1>4. CASE Fits(s, a)
  <2>1. f \in Charges /\ IsFiniteSet(DOMAIN f) /\ s.used[n] \in Nat
    BY <1>1, <1>2 DEF Placements, SoundOn
  <2>2. /\ g \in Charges /\ IsFiniteSet(DOMAIN g)
        /\ SumFunction(g) <= SumFunction(f) + d
        /\ id \notin DOMAIN f => SumFunction(g) = SumFunction(f) + d
    <3> HIDE DEF f, id, d
    <3> QED BY <1>1, <2>1, ChargesWith
  <2>3. SumFunction(f) \in Nat /\ SumFunction(g) \in Nat
    <3> HIDE DEF f, g
    <3> QED BY <2>1, <2>2, ChargesSum
  <2> DEFINE r == IF Holding(s, id) = {} THEN s.reused ELSE s.reused \cup {id}
  <2>4. t = [used |-> [s.used EXCEPT ![n] = v], allocs |-> [s.allocs EXCEPT ![n] = g],
             reused |-> r]
    BY <1>4 DEF Placed
  <2>5. /\ t.used = [s.used EXCEPT ![n] = v]
        /\ t.allocs = [s.allocs EXCEPT ![n] = g]
        /\ t.reused = r
    BY <2>4
  <2>6. r \in SUBSET AllocID /\ v \in Nat
    BY <1>1, <1>2, <2>1 DEF Placements
  <2>7. t \in Placements
    <3> HIDE DEF v, g, r, t, n
    <3> QED BY <1>1, <1>2, <2>2, <2>4, <2>6 DEF Placements
  <2>8. ASSUME NEW m \in Registered PROVE SoundOn(t, m)
    <3>1. r = {} => s.reused = {} /\ Holding(s, id) = {}
      OBVIOUS
    <3>2. CASE m # n
      <4>1. t.used[m] = s.used[m] /\ t.allocs[m] = s.allocs[m]
        <5> HIDE DEF v, g, r, t, n
        <5> QED BY <1>2, <2>5, <3>2 DEF Placements
      <4>2. SoundOn(s, m)
        BY <1>2
      <4> HIDE DEF t, r
      <4> QED BY <2>5, <3>1, <4>1, <4>2 DEF SoundOn
    <3>3. CASE m = n
      <4>1. t.used[m] = v /\ t.allocs[m] = g
        <5> HIDE DEF v, g, r, t, n
        <5> QED BY <1>1, <1>2, <2>5, <3>3 DEF Placements
      <4>2. /\ s.used[n] >= SumFunction(f)
            /\ s.reused = {} => s.used[n] = SumFunction(f)
            /\ n \notin shrunk => s.used[n] <= total[n]
        BY <1>1, <1>2 DEF SoundOn
      <4>3. r = {} => id \notin DOMAIN f
        BY <1>1, <3>1 DEF Holding
      <4>4. /\ v >= SumFunction(g)
            /\ r = {} => v = SumFunction(g)
        <5> HIDE DEF f, g, r, d
        <5> QED BY <1>1, <2>1, <2>2, <2>3, <3>1, <4>2, <4>3
      <4>5. n \notin shrunk => v <= total[n]
        <5>1. total[n] \in Nat
          BY <1>1 DEF ApplierInv
        <5> QED BY <1>1, <1>4, <2>1, <4>2, <5>1 DEF Fits, Clamped
      <4> HIDE DEF t, v, g, r, n
      <4> QED BY <2>2, <2>5, <3>3, <4>1, <4>4, <4>5 DEF SoundOn
    <3> QED BY <3>2, <3>3
  <2> QED BY <2>7, <2>8 DEF SoundPlacements
<1> QED BY <1>3, <1>4

\* The recursive functions of Submit exist, and stay within the sound placements.
LEMMA AfterEvictionsSound ==
    ASSUME ApplierInv, NEW evict, Len(evict) \in Nat
    PROVE  AfterEvictions(evict) \subseteq SoundPlacements
<1> DEFINE n == Len(evict)
           S == SUBSET SoundPlacements
           Step(i, T) == UNION {Evictions(s, evict[i]) : s \in T}
           F == [i \in 1..n |-> [T \in S |-> Step(i, T)]]
           Unrolls(after) ==
               after = [i \in 0..n |-> IF i = 0 THEN {Placement} ELSE Step(i, after[i - 1])]
           after == CHOOSE g : Unrolls(g)
<1>0. n \in Nat
  OBVIOUS
<1>1. {Placement} \in S
  BY DEF ApplierInv
<1>2. ASSUME NEW i, NEW T \in S PROVE Step(i, T) \in S
  BY EvictionSound
<1>3. StepsOn(F, n, S)
  <2> HIDE DEF S, Step, n
  <2> QED BY <1>2 DEF StepsOn
<1>4. PICK h : RunOf(h, n, S, {Placement}, F)
  <2> HIDE DEF S, F, n
  <2> QED BY <1>0, <1>1, <1>3, FiniteRecursion
<1>5. Unrolls(h)
  <2>1. ASSUME NEW i \in 1..n PROVE h[i] = Step(i, h[i - 1])
    <3>1. h[i - 1] \in S /\ h[i] = F[i][h[i - 1]]
      <4>1. i - 1 \in 0..n
        OBVIOUS
      <4> HIDE DEF S, F, n
      <4> QED BY <1>4, <4>1 DEF RunOf
    <3> HIDE DEF S, Step, n
    <3> QED BY <3>1
  <2>2. h = [i \in 0..n |-> h[i]] /\ h[0] = {Placement}
    <3> HIDE DEF S, F, n
    <3> QED BY <1>4 DEF RunOf
  <2>3. ASSUME NEW i \in 0..n
        PROVE  h[i] = IF i = 0 THEN {Placement} ELSE Step(i, h[i - 1])
    <3>1. i # 0 => i \in 1..n
      OBVIOUS
    <3> HIDE DEF Step, n
    <3> QED BY <2>1, <2>2, <3>1
  <2> HIDE DEF Step, n
  <2> QED BY <2>2, <2>3
<1>6. Unrolls(after)
  <2> HIDE DEF Unrolls
  <2> QED BY <1>5
<1>7. after[n] \in S
  <2> DEFINE Good == {i \in 0..n : after[i] \in S}
  <2>1. after[0] = {Placement} /\ \A i \in 1..n : after[i] = Step(i, after[i - 1])
    <3>1. 0 \in 0..n /\ \A i \in 1..n : i \in 0..n /\ i # 0
      OBVIOUS
    <3> HIDE DEF after, Step, n
    <3> QED BY <1>6, <3>1
  <2>2. 0 \in Good /\ \A i \in 1..n : i - 1 \in Good => i \in Good
    <3>1. 0 \in 0..n /\ \A i \in 1..n : i \in 0..n
      OBVIOUS
    <3> HIDE DEF after, Step, S, n
    <3>2. after[0] \in S
      BY <1>1, <2>1
    <3>3. ASSUME NEW i \in 1..n, after[i - 1] \in S PROVE after[i] \in S
      <4>1. Step(i, after[i - 1]) \in S
        BY <1>2, <3>3
      <4> QED BY <2>1, <4>1
    <3> QED BY <3>1, <3>2, <3>3
  <2>3. 0..n \subseteq Good
    <3> HIDE DEF Good, n
    <3> QED BY <1>0, <2>2, BoundedInduction
  <2> HIDE DEF after, S
  <2> QED BY <2>3
<1>8. AfterEvictions(evict) = after[n]
  BY DEF AfterEvictions
<1> HIDE DEF after
<1> QED BY <1>7, <1>8

LEMMA AfterPlacementsSound ==
    ASSUME ApplierInv, NEW start \in SoundPlacements, NEW add, Len(add) \in Nat,
           \A i \in 1..Len(add) : add[i] \in Request /\ add[i].node \in Registered
    PROVE  AfterPlacements(start, add) \in SoundPlacements
<1> DEFINE n == Len(add)
           S == SoundPlacements
           F == [i \in 1..n |-> [s \in S |-> Placed(s, add[i])]]
           Unrolls(after) ==
               after = [i \in 0..n |-> IF i = 0 THEN start ELSE Placed(after[i - 1], add[i])]
           after == CHOOSE g : Unrolls(g)
<1>0. n \in Nat
  OBVIOUS
<1>1. ASSUME NEW i \in 1..n, NEW s \in S PROVE Placed(s, add[i]) \in S
  BY PlacementSound
<1>2. StepsOn(F, n, S)
  <2> HIDE DEF S, n
  <2> QED BY <1>1 DEF StepsOn
<1>3. PICK h : RunOf(h, n, S, start, F)
  <2>1. start \in S
    OBVIOUS
  <2> HIDE DEF F, n, S
  <2> QED BY <1>0, <1>2, <2>1, FiniteRecursion
<1>4. Unrolls(h)
  <2>1. ASSUME NEW i \in 1..n PROVE h[i] = Placed(h[i - 1], add[i])
    <3>1. h[i - 1] \in S /\ h[i] = F[i][h[i - 1]]
      <4>1. i - 1 \in 0..n
        OBVIOUS
      <4> HIDE DEF S, F, n
      <4> QED BY <1>3, <4>1 DEF RunOf
    <3> HIDE DEF S, n
    <3> QED BY <3>1
  <2>2. h = [i \in 0..n |-> h[i]] /\ h[0] = start
    <3> HIDE DEF S, F, n
    <3> QED BY <1>3 DEF RunOf
  <2>3. ASSUME NEW i \in 0..n
        PROVE  h[i] = IF i = 0 THEN start ELSE Placed(h[i - 1], add[i])
    <3>1. i # 0 => i \in 1..n
      OBVIOUS
    <3> HIDE DEF n
    <3> QED BY <2>1, <2>2, <3>1
  <2> HIDE DEF n
  <2> QED BY <2>2, <2>3
<1>5. Unrolls(after)
  <2> HIDE DEF Unrolls
  <2> QED BY <1>4
<1>6. after[n] \in S
  <2> DEFINE Good == {i \in 0..n : after[i] \in S}
  <2>1. after[0] = start /\ \A i \in 1..n : after[i] = Placed(after[i - 1], add[i])
    <3>1. 0 \in 0..n /\ \A i \in 1..n : i \in 0..n /\ i # 0
      OBVIOUS
    <3> HIDE DEF after, n
    <3> QED BY <1>5, <3>1
  <2>2. 0 \in Good /\ \A i \in 1..n : i - 1 \in Good => i \in Good
    <3>1. start \in S /\ 0 \in 0..n /\ \A i \in 1..n : i \in 0..n
      OBVIOUS
    <3> HIDE DEF after, S, n
    <3> QED BY <1>1, <2>1, <3>1
  <2>3. 0..n \subseteq Good
    <3> HIDE DEF Good, n
    <3> QED BY <1>0, <2>2, BoundedInduction
  <2> HIDE DEF after, S
  <2> QED BY <2>3
<1>7. AfterPlacements(start, add) = after[n]
  BY DEF AfterPlacements
<1> HIDE DEF after
<1> QED BY <1>6, <1>7

LEMMA ApplierInvInit == ApplierInit => ApplierInv
<1> SUFFICES ASSUME ApplierInit PROVE ApplierInv
  OBVIOUS
<1>1. total = <<>> /\ used = <<>> /\ allocs = <<>> /\ reused = {}
  BY DEF ApplierInit
<1>2. DOMAIN <<>> = {}
  OBVIOUS
<1>3. Registered = {}
  BY <1>1, <1>2 DEF Registered
<1>4. total \in [Registered -> Nat] /\ used \in [Registered -> Nat]
      /\ allocs \in [Registered -> Charges]
  BY <1>1, <1>3
<1> QED BY <1>1, <1>3, <1>4 DEF ApplierInv, SoundPlacements, Placements, Placement

LEMMA ApplierInvStep == ApplierInv /\ [ApplierNext]_applierVars => ApplierInv'
<1> SUFFICES ASSUME ApplierInv, [ApplierNext]_applierVars PROVE ApplierInv'
  OBVIOUS
<1>0. /\ Registered \subseteq PlanNode
      /\ total \in [Registered -> Nat]
      /\ used \in [Registered -> Nat]
      /\ allocs \in [Registered -> Charges]
      /\ reused \in SUBSET AllocID
      /\ \A n \in Registered : SoundOn(Placement, n)
  BY DEF ApplierInv, SoundPlacements, Placements, Placement
<1>a. /\ Placement.used = used /\ Placement.allocs = allocs /\ Placement.reused = reused
      /\ Placement'.used = used' /\ Placement'.allocs = allocs' /\ Placement'.reused = reused'
  BY DEF Placement
<1>1. ASSUME NEW n \in PlanNode, NEW size \in Capacity, UpsertNode(n, size)
      PROVE  ApplierInv'
  <2>1. size \in Nat /\ total' = With(total, n, size) /\ reused' = reused
    BY <1>1, ApplierAssumption DEF UpsertNode
  <2>2. /\ Registered' = Registered \cup {n}
        /\ total' \in [Registered' -> Nat]
        /\ total'[n] = size
        /\ \A m \in Registered \ {n} : total'[m] = total[m]
    BY <1>0, <2>1 DEF Registered, With
  <2>3. CASE n \in Registered
    <3>1. /\ Registered' = Registered /\ used' = used /\ allocs' = allocs
          /\ shrunk' = IF size < used[n] THEN shrunk \cup {n} ELSE shrunk \ {n}
      BY <1>1, <2>2, <2>3 DEF UpsertNode
    <3>2. Placement' = Placement /\ Placement' \in Placements'
      BY <1>0, <2>1, <3>1 DEF Placement, Placements
    <3>3. ASSUME NEW m \in Registered PROVE SoundOn(Placement, m)'
      <4>1. used[m] \in Nat /\ total[m] \in Nat
        BY <1>0
      <4>2. m \notin shrunk' => used[m] <= total'[m]
        <5>1. CASE m = n
          BY <2>1, <2>2, <3>1, <4>1, <5>1
        <5>2. CASE m # n
          <6>1. m \notin shrunk => used[m] <= total[m]
            BY <1>0, <1>a DEF SoundOn
          <6> QED BY <2>2, <3>1, <5>2, <6>1
        <5> QED BY <5>1, <5>2
      <4> QED BY <1>0, <1>a, <2>1, <3>1, <4>2 DEF SoundOn
    <3> QED BY <1>0, <2>2, <3>1, <3>2, <3>3 DEF ApplierInv, SoundPlacements
  <2>4. CASE n \notin Registered
    <3>1. /\ used' = With(used, n, 0) /\ allocs' = With(allocs, n, <<>>)
          /\ shrunk' = shrunk
      BY <1>1, <2>4 DEF UpsertNode
    <3>2. DOMAIN <<>> = {} /\ <<>> \in [{} -> Nat]
      OBVIOUS
    <3>3. <<>> \in Charges /\ IsFiniteSet(DOMAIN <<>>) /\ SumFunction(<<>>) = 0
      <4>1. <<>> \in Charges
        <5>1. {} \in SUBSET AllocID
          OBVIOUS
        <5> QED BY <3>2, <5>1, ChargesType
      <4>2. IsFiniteSet(DOMAIN <<>>)
        BY <3>2, FS_EmptySet
      <4>3. SumFunctionOnSet(<<>>, {}) = 0
        BY FS_EmptySet, SumType
      <4> QED BY <3>2, <4>1, <4>2, <4>3 DEF SumFunction
    <3>4. /\ used' \in [Registered' -> Nat] /\ used'[n] = 0
          /\ \A m \in Registered : used'[m] = used[m]
      BY <1>0, <2>2, <2>4, <3>1 DEF With
    <3>5. /\ allocs' \in [Registered' -> Charges] /\ allocs'[n] = <<>>
          /\ \A m \in Registered : allocs'[m] = allocs[m]
      BY <1>0, <2>2, <2>4, <3>1, <3>3 DEF With
    <3>6. Placement' \in Placements'
      BY <1>0, <2>1, <3>4, <3>5 DEF Placement, Placements, Charges
    <3>7. ASSUME NEW m \in Registered' PROVE SoundOn(Placement, m)'
      <4>1. CASE m = n
        BY <1>a, <2>1, <2>2, <3>3, <3>4, <3>5, <4>1 DEF SoundOn
      <4>2. CASE m # n
        <5>1. m \in Registered /\ SoundOn(Placement, m)
          BY <1>0, <2>2, <4>2
        <5> QED BY <1>a, <2>1, <2>2, <3>1, <3>4, <3>5, <4>2, <5>1 DEF SoundOn
      <4> QED BY <4>1, <4>2
    <3> QED BY <1>0, <2>2, <3>6, <3>7 DEF ApplierInv, SoundPlacements
  <2> QED BY <2>3, <2>4
<1>2. ASSUME NEW evict \in ListsOf(AllocID, MaxEvictions),
             NEW add \in ListsOf(Request, MaxPlacements), Submit(evict, add)
      PROVE  ApplierInv'
  <2>1. /\ Len(evict) \in Nat
        /\ Len(add) \in Nat /\ DOMAIN add = 1..Len(add)
        /\ \A i \in 1..Len(add) : add[i] \in Request
    <3>1. PICK k \in 0..MaxEvictions : evict \in [1..k -> AllocID]
      BY DEF ListsOf
    <3>2. PICK l \in 0..MaxPlacements : add \in [1..l -> Request]
      BY DEF ListsOf
    <3>3. k \in Nat /\ l \in Nat
      BY ApplierAssumption
    <3>4. Len(evict) = k /\ Len(add) = l
      BY <3>1, <3>2, <3>3
    <3> QED BY <3>1, <3>2, <3>3, <3>4
  <2>2. PICK s \in AfterEvictions(evict) :
          /\ used' = AfterPlacements(s, add).used
          /\ allocs' = AfterPlacements(s, add).allocs
          /\ reused' = AfterPlacements(s, add).reused
    BY <1>2 DEF Submit
  <2> DEFINE done == AfterPlacements(s, add)
  <2>3. done \in SoundPlacements
    <3>1. s \in SoundPlacements
      BY <2>1, AfterEvictionsSound
    <3>2. \A i \in 1..Len(add) : add[i].node \in Registered
      BY <1>2, <2>1 DEF Submit
    <3> QED BY <2>1, <3>1, <3>2, AfterPlacementsSound
  <2>4. Placement' = done
    <3> HIDE DEF done
    <3> QED BY <2>2, <2>3 DEF Placement, SoundPlacements, Placements, done
  <2>5. total' = total /\ shrunk' = shrunk /\ Registered' = Registered
    BY <1>2 DEF Submit, Registered
  <2>6. SoundPlacements' = SoundPlacements
    BY <2>5 DEF SoundPlacements, SoundOn, Placements, Charges
  <2> HIDE DEF done
  <2> QED BY <1>0, <2>3, <2>4, <2>5, <2>6 DEF ApplierInv
<1>3. CASE UNCHANGED applierVars
  BY <1>3 DEF applierVars, ApplierInv, SoundPlacements, SoundOn, Placements, Placement,
              Registered, Charges
<1> QED BY <1>1, <1>2, <1>3 DEF ApplierNext

\* For any number of nodes, IDs and plans of any length: what a node is charged with is
\* covered by Used, and is what Used says unless an ID was placed twice.
THEOREM UsedIsTheSum == ApplierSpec => []UsedCoversAllocations
<1>1. ApplierInv => UsedCoversAllocations
  BY DEF ApplierInv, SoundPlacements, SoundOn, Placement, UsedCoversAllocations, Charged
<1> QED BY <1>1, ApplierInvInit, ApplierInvStep, PTL DEF ApplierSpec

\* No plan, from whatever snapshot, overcommits a node that was not shrunk.
THEOREM NothingIsOvercommitted == ApplierSpec => []NotOvercommitted
<1>1. ASSUME ApplierInv, NEW n \in Registered \ shrunk PROVE Charged(n) <= total[n]
  <2>1. SoundOn(Placement, n) /\ Placement.used = used /\ Placement.allocs = allocs
        /\ total[n] \in Nat /\ used[n] \in Nat /\ allocs[n] \in Charges
    BY <1>1 DEF ApplierInv, SoundPlacements, Placements, Placement
  <2>2. used[n] >= Charged(n) /\ used[n] <= total[n] /\ Charged(n) \in Nat
    BY <2>1, ChargesSum DEF SoundOn, Charged
  <2> QED BY <2>1, <2>2
<1>2. ApplierInv => NotOvercommitted
  BY <1>1 DEF NotOvercommitted
<1> QED BY <1>2, ApplierInvInit, ApplierInvStep, PTL DEF ApplierSpec

-----------------------------------------------------------------------------
(* RaftFSM.                                                                  *)

Command == [type : CommandType, key : RowKey]

FSMTypes ==
    /\ log \in Seq(Command)
    /\ rows \in [Replica -> [RowKey -> Nat]]
    /\ applied \in [Replica -> 0..Len(log)]
    /\ snap \in [Replica -> [index : 0..Len(log), rows : [RowKey -> Nat],
                             deviates : SUBSET RowKey]]
    /\ hasTTL \in [Replica -> SUBSET RowKey]
    /\ setTTL \subseteq [replica : Replica, key : RowKey, index : Nat]
    /\ deviates \in [Replica -> SUBSET RowKey]

\* What FollowsLog says of a replica holds of each snapshot at its index.
SnapshotsFollow ==
    \A r \in Replica, k \in RowKey :
        k \notin snap[r].deviates => snap[r].rows[k] = RowAt(k, snap[r].index)

FSMInv == FSMTypes /\ FollowsLog /\ SnapshotsFollow

-----------------------------------------------------------------------------
(* RowAt is what applying the commands one by one gives.                   *)

Deletes(k, n) == {0} \cup Commands(k, "delete", 1, n)
LastDelete(k, n) == CHOOSE i \in Deletes(k, n) : \A j \in Deletes(k, n) : j <= i
Updates(k, n) == Commands(k, "update", LastDelete(k, n) + 1, n)
Creates(k, n) == Commands(k, "create", LastDelete(k, n) + 1, n)

\* The three cases of RowAt, each with the index it finds.
LEMMA LastDeleteType ==
    ASSUME NEW k, NEW n \in Nat
    PROVE  LastDelete(k, n) \in 0..n
<1>1. /\ Deletes(k, n) \in SUBSET Nat /\ Deletes(k, n) # {}
      /\ \A j \in Deletes(k, n) : j <= n
  BY DEF Deletes, Commands
<1>2. \E m \in Deletes(k, n) : \A j \in Deletes(k, n) : j <= m
  BY <1>1, GreatestNatural
<1>3. LastDelete(k, n) \in Deletes(k, n)
  BY <1>2 DEF LastDelete
<1> QED BY <1>1, <1>3

LEMMA RowAtCases ==
    ASSUME NEW k, NEW n \in Nat
    PROVE  /\ Updates(k, n) \in SUBSET (1..n) /\ Creates(k, n) \in SUBSET (1..n)
           /\ \A x \in Updates(k, n) : (\A j \in Updates(k, n) : j <= x) => RowAt(k, n) = x
           /\ Updates(k, n) = {} =>
                \A x \in Creates(k, n) : (\A j \in Creates(k, n) : x <= j) => RowAt(k, n) = x
           /\ Updates(k, n) = {} /\ Creates(k, n) = {} => RowAt(k, n) = Absent
           /\ Updates(k, n) # {} => RowAt(k, n) \in Updates(k, n)
           /\ Updates(k, n) = {} /\ Creates(k, n) # {} => RowAt(k, n) \in Creates(k, n)
<1> DEFINE U == Updates(k, n)
           C == Creates(k, n)
<1>1. U \in SUBSET (1..n) /\ C \in SUBSET (1..n)
  BY LastDeleteType DEF Updates, Creates, Commands
<1>2. U \in SUBSET Nat /\ C \in SUBSET Nat
  BY <1>1
<1>3. RowAt(k, n) = CASE U # {} -> CHOOSE i \in U : \A j \in U : j <= i
                      [] U = {} /\ C # {} -> CHOOSE i \in C : \A j \in C : i <= j
                      [] U = {} /\ C = {} -> Absent
  BY DEF RowAt, Updates, Creates, LastDelete, Deletes
<1> HIDE DEF U, C
<1>4. ASSUME NEW x \in U, \A j \in U : j <= x PROVE RowAt(k, n) = x
  <2>1. (CHOOSE i \in U : \A j \in U : j <= i) = x
    BY <1>2, <1>4, GreatestIs
  <2> QED BY <1>3, <1>4, <2>1
<1>5. ASSUME U = {}, NEW x \in C, \A j \in C : x <= j PROVE RowAt(k, n) = x
  <2>1. (CHOOSE i \in C : \A j \in C : i <= j) = x
    BY <1>2, <1>5, LeastIs
  <2> QED BY <1>3, <1>5, <2>1
<1>6. ASSUME U # {} PROVE RowAt(k, n) \in U
  <2>1. \A j \in U : j <= n
    BY <1>1
  <2>2. PICK x \in U : \A j \in U : j <= x
    BY <1>2, <1>6, <2>1, GreatestNatural
  <2> QED BY <1>4, <2>2
<1>7. ASSUME U = {}, C # {} PROVE RowAt(k, n) \in C
  <2>1. PICK x \in C : \A j \in C : x <= j
    BY <1>2, <1>7, LeastNatural
  <2> QED BY <1>5, <1>7, <2>1
<1>8. U = {} /\ C = {} => RowAt(k, n) = Absent
  BY <1>3
<1> QED BY <1>1, <1>4, <1>5, <1>6, <1>7, <1>8 DEF U, C

LEMMA RowAtStart ==
    ASSUME NEW k
    PROVE  RowAt(k, 0) = Absent
<1>1. Updates(k, 0) = {} /\ Creates(k, 0) = {}
  BY RowAtCases
<1> QED BY <1>1, RowAtCases

\* One more command.
LEMMA RowAtStep ==
    ASSUME log \in Seq(Command), NEW n \in 1..Len(log), NEW k \in RowKey
    PROVE  RowAt(k, n) = IF log[n].key = k THEN Applied(log[n], n, RowAt(k, n - 1))
                                           ELSE RowAt(k, n - 1)
<1> DEFINE m == n - 1
           cmd == log[n]
<1>1. cmd \in Command /\ n \in Nat /\ m \in Nat /\ n = m + 1 /\ Len(log) \in Nat
  OBVIOUS
<1>2. /\ cmd.type \in CommandType
      /\ cmd = [type |-> cmd.type, key |-> cmd.key]
  BY <1>1 DEF Command
<1>3. ASSUME NEW type, NEW a \in 1..n, cmd # [type |-> type, key |-> k]
      PROVE  Commands(k, type, a, n) = Commands(k, type, a, m)
  BY <1>1, <1>3 DEF Commands
<1>4. ASSUME NEW type, NEW a \in 1..n, cmd = [type |-> type, key |-> k]
      PROVE  Commands(k, type, a, n) = Commands(k, type, a, m) \cup {n}
  BY <1>1, <1>4 DEF Commands
<1>5. ASSUME cmd # [type |-> "delete", key |-> k]
      PROVE  LastDelete(k, n) = LastDelete(k, m) /\ LastDelete(k, m) + 1 \in 1..n
  <2>1. 1 \in 1..n
    OBVIOUS
  <2>2. Deletes(k, n) = Deletes(k, m)
    BY <1>3, <1>5, <2>1 DEF Deletes
  <2>3. LastDelete(k, m) \in 0..m
    BY <1>1, LastDeleteType
  <2> QED BY <1>1, <2>2, <2>3 DEF LastDelete
<1> HIDE DEF m, cmd
<1>6. CASE cmd.key # k
  <2>1. \A type : cmd # [type |-> type, key |-> k]
    BY <1>6
  <2>2. Updates(k, n) = Updates(k, m) /\ Creates(k, n) = Creates(k, m)
    BY <1>3, <1>5, <2>1 DEF Updates, Creates
  <2>3. RowAt(k, n) = RowAt(k, m)
    <3>1. LastDelete(k, n) = LastDelete(k, m)
      BY <1>5, <2>1
    <3> QED BY <2>2, <3>1 DEF RowAt, Updates, Creates, LastDelete, Deletes
  <2> QED BY <1>6, <2>3 DEF m, cmd
<1>7. CASE cmd.key = k /\ cmd.type = "delete"
  <2>1. cmd = [type |-> "delete", key |-> k]
    BY <1>2, <1>7
  <2>2. LastDelete(k, n) = n
    <3>1. n \in Deletes(k, n) /\ Deletes(k, n) \in SUBSET Nat /\ \A j \in Deletes(k, n) : j <= n
      BY <1>1, <2>1 DEF Deletes, Commands, cmd
    <3> QED BY <3>1, GreatestIs DEF LastDelete
  <2>3. Updates(k, n) = {} /\ Creates(k, n) = {}
    BY <1>1, <2>2 DEF Updates, Creates, Commands
  <2>4. RowAt(k, n) = Absent
    BY <1>1, <2>3, RowAtCases
  <2> QED BY <1>7, <2>4 DEF Applied, cmd
<1>8. CASE cmd.key = k /\ cmd.type = "update"
  <2>1. cmd = [type |-> "update", key |-> k] /\ cmd # [type |-> "delete", key |-> k]
    BY <1>2, <1>8
  <2>2. n \in Updates(k, n) /\ \A j \in Updates(k, n) : j <= n
    <3>1. Updates(k, n) = Commands(k, "update", LastDelete(k, m) + 1, m) \cup {n}
      BY <1>4, <1>5, <2>1 DEF Updates
    <3>2. Updates(k, n) \in SUBSET (1..n)
      BY <1>1, RowAtCases
    <3> QED BY <1>1, <3>1, <3>2
  <2>3. RowAt(k, n) = n
    BY <1>1, <2>2, RowAtCases
  <2> QED BY <1>8, <2>3 DEF Applied, cmd
<1>9. CASE cmd.key = k /\ cmd.type = "create"
  <2>1. /\ cmd = [type |-> "create", key |-> k]
        /\ cmd # [type |-> "delete", key |-> k]
        /\ cmd # [type |-> "update", key |-> k]
    BY <1>2, <1>9
  <2>2. Updates(k, n) = Updates(k, m) /\ Creates(k, n) = Creates(k, m) \cup {n}
    BY <1>3, <1>4, <1>5, <2>1 DEF Updates, Creates
  <2>3. Updates(k, m) \in SUBSET (1..m) /\ Creates(k, m) \in SUBSET (1..m)
    BY <1>1, RowAtCases
  <2>4. CASE Updates(k, m) # {}
    <3>1. RowAt(k, m) \in Updates(k, m)
      BY <1>1, <2>4, RowAtCases
    <3>2. \A j \in Updates(k, m) : j <= RowAt(k, m)
      <4>1. PICK x \in Updates(k, m) : \A j \in Updates(k, m) : j <= x
        <5>1. Updates(k, m) \in SUBSET Nat /\ \A j \in Updates(k, m) : j <= m
          BY <1>1, <2>3
        <5> QED BY <1>1, <2>4, <5>1, GreatestNatural
      <4>2. RowAt(k, m) = x
        BY <1>1, <4>1, RowAtCases
      <4> QED BY <4>1, <4>2
    <3>3. RowAt(k, n) = RowAt(k, m)
      BY <1>1, <2>2, <3>1, <3>2, RowAtCases
    <3>4. RowAt(k, m) # Absent
      BY <1>1, <2>3, <3>1 DEF Absent
    <3> QED BY <1>9, <3>3, <3>4 DEF Applied, cmd, m
  <2>5. CASE Updates(k, m) = {} /\ Creates(k, m) # {}
    <3>1. PICK x \in Creates(k, m) : \A j \in Creates(k, m) : x <= j
      <4>1. Creates(k, m) \in SUBSET Nat
        BY <1>1, <2>3
      <4> QED BY <2>5, <4>1, LeastNatural
    <3>2. RowAt(k, m) = x
      BY <1>1, <2>5, <3>1, RowAtCases
    <3>3. x \in 1..m
      BY <2>3
    <3>4. x \in Creates(k, n) /\ \A j \in Creates(k, n) : x <= j
      BY <1>1, <2>2, <3>1, <3>3
    <3>5. RowAt(k, n) = x
      BY <1>1, <2>2, <2>5, <3>4, RowAtCases
    <3> QED BY <1>1, <1>9, <3>2, <3>3, <3>5 DEF Applied, Absent, cmd, m
  <2>6. CASE Updates(k, m) = {} /\ Creates(k, m) = {}
    <3>1. RowAt(k, m) = Absent
      BY <1>1, <2>6, RowAtCases
    <3>2. RowAt(k, n) = n
      <4>1. Creates(k, n) = {n} /\ n <= n
        BY <1>1, <2>2, <2>6
      <4> QED BY <1>1, <2>2, <2>6, <4>1, RowAtCases
    <3> QED BY <1>9, <3>1, <3>2 DEF Applied, cmd, m
  <2> QED BY <2>4, <2>5, <2>6
<1> QED BY <1>2, <1>6, <1>7, <1>8, <1>9 DEF CommandType

\* The rows that a log gives grow by its commands.
RowsGrow ==
    log \in Seq(Command) =>
        \A n \in 1..Len(log), k \in RowKey :
            RowAt(k, n) = IF log[n].key = k THEN Applied(log[n], n, RowAt(k, n - 1))
                                            ELSE RowAt(k, n - 1)

LEMMA RowsAlwaysGrow == RowsGrow
BY RowAtStep DEF RowsGrow

\* A command that is appended changes no prefix.
LEMMA RowAtPrefix ==
    ASSUME log \in Seq(Command), NEW c \in Command, log' = Append(log, c),
           NEW k \in RowKey, NEW n \in 0..Len(log)
    PROVE  RowAt(k, n)' = RowAt(k, n)
<1> DEFINE Same == {i \in 0..n : RowAt(k, i)' = RowAt(k, i)}
<1>1. /\ log' \in Seq(Command) /\ n \in Nat /\ Len(log) \in Nat
      /\ \A i \in 1..n : i \in 1..Len(log) /\ i \in 1..Len(log)' /\ log'[i] = log[i]
  OBVIOUS
<1>2. 0 \in Same
  <2>1. RowAt(k, 0) = Absent
    BY RowAtStart
  <2>2. (RowAt(k, 0) = Absent)'
    BY RowAtStart, PTL
  <2> QED BY <2>1, <2>2 DEF Absent
<1>3. ASSUME NEW i \in 1..n, i - 1 \in Same PROVE i \in Same
  <2>1. RowAt(k, i) = IF log[i].key = k THEN Applied(log[i], i, RowAt(k, i - 1))
                                        ELSE RowAt(k, i - 1)
    BY <1>1, RowAtStep
  <2>2. RowAt(k, i)' = IF log'[i].key = k THEN Applied(log'[i], i, RowAt(k, i - 1)')
                                          ELSE RowAt(k, i - 1)'
    <3>1. log' \in Seq(Command) /\ i \in 1..Len(log')
      BY <1>1
    <3>2. RowsGrow'
      BY RowsAlwaysGrow, PTL
    <3> QED BY <3>1, <3>2 DEF RowsGrow, Applied
  <2>3. log'[i] = log[i] /\ RowAt(k, i - 1)' = RowAt(k, i - 1)
    BY <1>1, <1>3
  <2> HIDE DEF Same
  <2>4. RowAt(k, i)' = RowAt(k, i)
    BY <2>1, <2>2, <2>3
  <2> QED BY <2>4 DEF Same
<1>4. 0..n \subseteq Same
  <2> HIDE DEF Same
  <2> QED BY <1>1, <1>2, <1>3, BoundedInduction
<1> QED BY <1>1, <1>4

LEMMA FSMInvInit == FSMInit => FSMInv
<1> SUFFICES ASSUME FSMInit PROVE FSMInv
  OBVIOUS
<1>1. /\ log = <<>> /\ Len(log) = 0 /\ log \in Seq(Command)
      /\ Empty \in [RowKey -> Nat] /\ \A k \in RowKey : Empty[k] = Absent
  BY DEF FSMInit, Empty, Absent
<1>2. FSMTypes
  BY <1>1 DEF FSMInit, FSMTypes
<1>3. \A k : RowAt(k, 0) = Absent
  BY RowAtStart
<1>4. FollowsLog /\ SnapshotsFollow
  BY <1>1, <1>3 DEF FSMInit, FollowsLog, SnapshotsFollow
<1> QED BY <1>2, <1>4 DEF FSMInv

\* A longer log, with the replicas as they are.
LEMMA CommitKeeps ==
    ASSUME FSMInv, NEW c \in Command, log' = Append(log, c),
           UNCHANGED <<rows, applied, snap, hasTTL, deviates>>,
           setTTL' \subseteq [replica : Replica, key : RowKey, index : Nat]
    PROVE  FSMInv'
<1>1. log \in Seq(Command) /\ log' \in Seq(Command) /\ Len(log') = Len(log) + 1
      /\ Len(log) \in Nat
  BY DEF FSMInv, FSMTypes
<1>2. FSMTypes'
  <2>1. 0..Len(log) \subseteq 0..Len(log')
    BY <1>1
  <2> QED BY <1>1, <2>1 DEF FSMInv, FSMTypes
<1>4. FollowsLog'
  <2> SUFFICES ASSUME NEW r \in Replica, NEW k \in RowKey, k \notin deviates[r]
               PROVE  rows[r][k] = RowAt(k, applied[r])'
    BY DEF FollowsLog
  <2>1. applied[r] \in 0..Len(log) /\ applied'[r] = applied[r]
    BY DEF FSMInv, FSMTypes
  <2>2. RowAt(k, applied[r])' = RowAt(k, applied[r])
    <3> DEFINE n == applied[r]
    <3>1. RowAt(k, n)' = RowAt(k, n)
      BY <1>1, <2>1, RowAtPrefix
    <3> QED BY <3>1
  <2> QED BY <2>2 DEF FSMInv, FollowsLog
<1>5. SnapshotsFollow'
  <2> SUFFICES ASSUME NEW r \in Replica, NEW k \in RowKey, k \notin snap[r].deviates
               PROVE  snap[r].rows[k] = RowAt(k, snap[r].index)'
    BY DEF SnapshotsFollow
  <2>1. snap[r].index \in 0..Len(log)
    BY DEF FSMInv, FSMTypes
  <2>2. RowAt(k, snap[r].index)' = RowAt(k, snap[r].index)
    BY <1>1, <2>1, RowAtPrefix
  <2> QED BY <2>2 DEF FSMInv, SnapshotsFollow
<1> QED BY <1>2, <1>4, <1>5 DEF FSMInv

\* With the log as it is, the invariant is a matter of the rows.
LEMMA SameLog ==
    ASSUME log' = log, NEW k, NEW n
    PROVE  RowAt(k, n)' = RowAt(k, n)
BY DEF RowAt, Commands

LEMMA SameLogMoves ==
    ASSUME log' = log
    PROVE  /\ \A q, j : RowAt(j, applied[q])' = RowAt(j, applied'[q])
           /\ \A q, j : RowAt(j, snap[q].index)' = RowAt(j, snap'[q].index)
<1>1. \A q, j : RowAt(j, applied[q])' = RowAt(j, applied'[q])
  BY DEF RowAt, Commands
<1>2. \A q, j : RowAt(j, snap[q].index)' = RowAt(j, snap'[q].index)
  BY DEF RowAt, Commands
<1> QED BY <1>1, <1>2

LEMMA ApplyKeeps == ASSUME FSMInv, NEW r \in Replica, Apply(r) PROVE FSMInv'
<1> DEFINE i == applied[r] + 1
           cmd == log[i]
           k == cmd.key
           row == Applied(cmd, i, rows[r][k])
<1>1. /\ log \in Seq(Command) /\ Len(log) \in Nat
      /\ applied \in [Replica -> 0..Len(log)]
      /\ rows \in [Replica -> [RowKey -> Nat]]
      /\ deviates \in [Replica -> SUBSET RowKey]
  BY DEF FSMInv, FSMTypes
<1>2. i \in 1..Len(log) /\ i - 1 = applied[r]
  BY <1>1 DEF Apply
<1>3. cmd \in Command /\ k \in RowKey /\ cmd.type \in {"create", "update", "delete"}
  <2>1. cmd \in Command
    <3> HIDE DEF i
    <3> QED BY <1>1, <1>2
  <2> HIDE DEF cmd
  <2> QED BY <2>1 DEF Command, CommandType
<1>4. row \in Nat
  <2> HIDE DEF cmd, i
  <2>1. i \in Nat /\ rows[r][k] \in Nat
    BY <1>1, <1>2, <1>3
  <2> QED BY <1>3, <2>1 DEF Applied, Absent
<1>5. /\ log' = log /\ snap' = snap /\ setTTL' = setTTL
      /\ rows' = [rows EXCEPT ![r] = [@ EXCEPT ![k] = row]]
      /\ applied' = [applied EXCEPT ![r] = i]
      /\ deviates' = [deviates EXCEPT ![r] = IF cmd.type = "create" THEN @ ELSE @ \ {k}]
      /\ hasTTL' \in [Replica -> SUBSET RowKey]
  BY DEF Apply, FSMInv, FSMTypes
<1> HIDE DEF row, k, cmd, i
<1>6. FSMTypes'
  <2>1. rows' \in [Replica -> [RowKey -> Nat]]
    BY <1>1, <1>3, <1>4, <1>5
  <2>2. applied' \in [Replica -> 0..Len(log)]
    BY <1>1, <1>2, <1>5
  <2>3. deviates' \in [Replica -> SUBSET RowKey]
    BY <1>1, <1>5
  <2> QED BY <1>1, <1>5, <2>1, <2>2, <2>3 DEF FSMInv, FSMTypes
<1>7. FollowsLog'
  <2> SUFFICES ASSUME NEW q \in Replica, NEW j \in RowKey, j \notin deviates'[q]
               PROVE  rows'[q][j] = RowAt(j, applied'[q])
    <3>1. \A q, j : RowAt(j, applied[q])' = RowAt(j, applied'[q])
      BY <1>5, SameLogMoves
    <3> QED BY <3>1 DEF FollowsLog
  <2>1. CASE q # r
    <3>1. rows'[q] = rows[q] /\ applied'[q] = applied[q] /\ deviates'[q] = deviates[q]
      BY <1>1, <1>5, <2>1
    <3> QED BY <3>1 DEF FSMInv, FollowsLog
  <2>2. CASE q = r
    <3>1. /\ applied'[r] = i
          /\ rows'[r] = [rows[r] EXCEPT ![k] = row]
          /\ deviates'[r] = IF cmd.type = "create" THEN deviates[r] ELSE deviates[r] \ {k}
      BY <1>1, <1>5
    <3>2. RowAt(j, i) = IF k = j THEN Applied(cmd, i, RowAt(j, i - 1)) ELSE RowAt(j, i - 1)
      BY <1>1, <1>2, RowAtStep DEF k, cmd
    <3>3. j \notin deviates[r] => rows[r][j] = RowAt(j, i - 1)
      BY <1>2 DEF FSMInv, FollowsLog
    <3>4. CASE j # k
      <4>1. rows'[r][j] = rows[r][j] /\ j \notin deviates[r]
        BY <1>1, <1>3, <2>2, <3>1, <3>4
      <4> QED BY <2>2, <3>1, <3>2, <3>3, <3>4, <4>1
    <3>5. CASE j = k
      <4>1. rows'[r][j] = row
        BY <1>1, <1>3, <3>1, <3>5
      <4>2. CASE cmd.type = "create"
        <5>1. rows[r][k] = RowAt(k, i - 1)
          BY <2>2, <3>1, <3>3, <3>5, <4>2
        <5> QED BY <2>2, <3>1, <3>2, <3>5, <4>1, <5>1 DEF row
      <4>3. CASE cmd.type # "create"
        <5>1. Applied(cmd, i, RowAt(j, i - 1)) = row
          BY <1>3, <4>3 DEF Applied, row
        <5> QED BY <2>2, <3>1, <3>2, <3>5, <4>1, <5>1
      <4> QED BY <4>2, <4>3
    <3> QED BY <3>4, <3>5
  <2> QED BY <2>1, <2>2
<1>8. SnapshotsFollow'
  BY <1>5, SameLog DEF FSMInv, SnapshotsFollow
<1> QED BY <1>6, <1>7, <1>8 DEF FSMInv

\* What the primed invariants say when the log is as it was.
LEMMA FollowsNext ==
    ASSUME log' = log,
           \A q \in Replica, j \in RowKey :
               j \notin deviates'[q] => rows'[q][j] = RowAt(j, applied'[q])
    PROVE  FollowsLog'
<1>1. \A q, j : RowAt(j, applied[q])' = RowAt(j, applied'[q])
  BY SameLogMoves
<1> QED BY <1>1 DEF FollowsLog

LEMMA SnapshotsFollowNext ==
    ASSUME log' = log,
           \A q \in Replica, j \in RowKey :
               j \notin snap'[q].deviates => snap'[q].rows[j] = RowAt(j, snap'[q].index)
    PROVE  SnapshotsFollow'
<1>1. \A q, j : RowAt(j, snap[q].index)' = RowAt(j, snap'[q].index)
  BY SameLogMoves
<1> QED BY <1>1 DEF SnapshotsFollow

\* A step that leaves the log and the snapshots of the others alone keeps the invariant
\* when the rows and the snapshot that r is left with follow the log.
LEMMA ReplicaStep ==
    ASSUME FSMInv, log' = log, NEW r \in Replica,
           FSMTypes',
           \A q \in Replica \ {r} :
               /\ rows'[q] = rows[q] /\ applied'[q] = applied[q]
               /\ deviates'[q] = deviates[q] /\ snap'[q] = snap[q],
           \A k \in RowKey : k \notin deviates'[r] => rows'[r][k] = RowAt(k, applied'[r]),
           \A k \in RowKey :
               k \notin snap'[r].deviates => snap'[r].rows[k] = RowAt(k, snap'[r].index)
    PROVE  FSMInv'
<1>1. FollowsLog'
  <2> SUFFICES ASSUME NEW q \in Replica, NEW j \in RowKey, j \notin deviates'[q]
               PROVE  rows'[q][j] = RowAt(j, applied'[q])
    BY FollowsNext
  <2>1. CASE q = r
    BY <2>1
  <2>2. CASE q # r
    <3>1. rows'[q] = rows[q] /\ applied'[q] = applied[q] /\ deviates'[q] = deviates[q]
      BY <2>2
    <3>2. rows[q][j] = RowAt(j, applied[q])
      BY <3>1 DEF FSMInv, FollowsLog
    <3> QED BY <3>1, <3>2
  <2> QED BY <2>1, <2>2
<1>2. SnapshotsFollow'
  <2> SUFFICES ASSUME NEW q \in Replica, NEW j \in RowKey, j \notin snap'[q].deviates
               PROVE  snap'[q].rows[j] = RowAt(j, snap'[q].index)
    BY SnapshotsFollowNext
  <2>1. CASE q = r
    BY <2>1
  <2>2. CASE q # r
    <3>1. snap'[q] = snap[q]
      BY <2>2
    <3>2. snap[q].rows[j] = RowAt(j, snap[q].index)
      BY <3>1 DEF FSMInv, SnapshotsFollow
    <3> QED BY <3>1, <3>2
  <2> QED BY <2>1, <2>2
<1> QED BY <1>1, <1>2 DEF FSMInv

LEMMA SnapshotKeeps == ASSUME FSMInv, NEW r \in Replica, Snapshot(r) PROVE FSMInv'
<1> DEFINE L == LocalEntries(r)
           kept == [k \in RowKey |-> IF k \in L THEN Garbled ELSE rows[r][k]]
           new == [index |-> applied[r], rows |-> kept, deviates |-> deviates[r] \cup L]
<1>1. /\ log' = log /\ rows' = rows /\ applied' = applied
      /\ hasTTL' = hasTTL /\ setTTL' = setTTL /\ deviates' = deviates
      /\ snap' = [snap EXCEPT ![r] = new]
  BY DEF Snapshot
<1>2. FSMTypes
  BY DEF FSMInv
<1>3. L \in SUBSET RowKey
  BY <1>2 DEF LocalEntries, FSMTypes, RowKey
<1>4. kept \in [RowKey -> Nat]
  BY <1>2, RaftFSMAssumption DEF FSMTypes, Garbled
<1>5. FSMTypes'
  <2>1. new \in [index : 0..Len(log), rows : [RowKey -> Nat], deviates : SUBSET RowKey]
    <3> HIDE DEF L, kept
    <3> QED BY <1>2, <1>3, <1>4 DEF FSMTypes
  <2> HIDE DEF new
  <2> QED BY <1>1, <1>2, <2>1 DEF FSMTypes
<1>6. ASSUME NEW k \in RowKey, k \notin snap'[r].deviates
      PROVE  snap'[r].rows[k] = RowAt(k, snap'[r].index)
  <2>1. snap'[r] = new
    <3> HIDE DEF new
    <3> QED BY <1>1, <1>2 DEF FSMTypes
  <2>2. k \notin L /\ k \notin deviates[r]
    <3> HIDE DEF L
    <3> QED BY <1>6, <2>1
  <2>3. snap'[r].rows[k] = rows[r][k] /\ snap'[r].index = applied[r]
    <3> HIDE DEF L
    <3> QED BY <2>1, <2>2
  <2> HIDE DEF L, kept, new
  <2> QED BY <2>2, <2>3 DEF FSMInv, FollowsLog
<1>7. \A q \in Replica \ {r} : snap'[q] = snap[q]
  <2> HIDE DEF new
  <2> QED BY <1>1, <1>2 DEF FSMTypes
<1>8. \A k \in RowKey : k \notin deviates'[r] => rows'[r][k] = RowAt(k, applied'[r])
  BY <1>1 DEF FSMInv, FollowsLog
<1> QED BY <1>1, <1>5, <1>6, <1>7, <1>8, ReplicaStep

LEMMA InstallKeeps ==
    ASSUME FSMInv, NEW r \in Replica, NEW l \in Replica, InstallSnapshot(l, r)
    PROVE  FSMInv'
<1> DEFINE L == LeftOver(r, snap[l])
           new == Restored(rows[r], snap[l].rows)
<1>1. FSMTypes
  BY DEF FSMInv
<1>2. /\ snap[l] \in [index : 0..Len(log), rows : [RowKey -> Nat], deviates : SUBSET RowKey]
      /\ L \in SUBSET RowKey /\ new \in [RowKey -> Nat]
  BY <1>1 DEF FSMTypes, LeftOver, Restored
<1>3. /\ log' = log /\ setTTL' = setTTL
      /\ rows' = [rows EXCEPT ![r] = new]
      /\ applied' = [applied EXCEPT ![r] = snap[l].index]
      /\ snap' = [snap EXCEPT ![r] = snap[l]]
      /\ hasTTL' = [hasTTL EXCEPT ![r] = @ \cap L]
      /\ deviates' = [deviates EXCEPT ![r] = snap[l].deviates \cup L]
  BY DEF InstallSnapshot
<1>4. ASSUME NEW k \in RowKey, k \notin snap[l].deviates, k \notin L
      PROVE  new[k] = RowAt(k, snap[l].index)
  <2>1. snap[l].rows[k] = RowAt(k, snap[l].index)
    BY <1>4 DEF FSMInv, SnapshotsFollow
  <2>2. new[k] = snap[l].rows[k]
    BY <1>4 DEF LeftOver, Restored
  <2> QED BY <2>1, <2>2
<1> HIDE DEF L, new
<1>5. FSMTypes'
  BY <1>1, <1>2, <1>3 DEF FSMTypes
<1>6. ASSUME NEW k \in RowKey, k \notin deviates'[r]
      PROVE  rows'[r][k] = RowAt(k, applied'[r])
  BY <1>1, <1>3, <1>4, <1>6 DEF FSMTypes
<1>7. ASSUME NEW k \in RowKey, k \notin snap'[r].deviates
      PROVE  snap'[r].rows[k] = RowAt(k, snap'[r].index)
  <2>1. snap'[r] = snap[l]
    BY <1>1, <1>3 DEF FSMTypes
  <2> QED BY <1>7, <2>1 DEF FSMInv, SnapshotsFollow
<1>8. \A q \in Replica \ {r} :
         /\ rows'[q] = rows[q] /\ applied'[q] = applied[q]
         /\ deviates'[q] = deviates[q] /\ snap'[q] = snap[q]
  BY <1>1, <1>3 DEF FSMTypes
<1> QED BY <1>3, <1>5, <1>6, <1>7, <1>8, ReplicaStep

LEMMA RestartKeeps == ASSUME FSMInv, NEW r \in Replica, Restarts(r) PROVE FSMInv'
<1> DEFINE new == Restored(Empty, snap[r].rows)
<1>1. FSMTypes
  BY DEF FSMInv
<1>2. /\ snap[r] \in [index : 0..Len(log), rows : [RowKey -> Nat], deviates : SUBSET RowKey]
      /\ new \in [RowKey -> Nat]
      /\ \A k \in RowKey : new[k] = snap[r].rows[k]
  BY <1>1 DEF FSMTypes, Restored, Empty, Absent
<1>3. /\ log' = log /\ snap' = snap
      /\ rows' = [rows EXCEPT ![r] = new]
      /\ applied' = [applied EXCEPT ![r] = snap[r].index]
      /\ hasTTL' = [hasTTL EXCEPT ![r] = {}]
      /\ setTTL' \subseteq setTTL
      /\ deviates' = [deviates EXCEPT ![r] = snap[r].deviates]
  BY DEF Restarts
<1> HIDE DEF new
<1>4. FSMTypes'
  BY <1>1, <1>2, <1>3 DEF FSMTypes
<1>5. ASSUME NEW k \in RowKey, k \notin deviates'[r]
      PROVE  rows'[r][k] = RowAt(k, applied'[r])
  <2>1. k \notin snap[r].deviates /\ rows'[r][k] = snap[r].rows[k] /\ applied'[r] = snap[r].index
    BY <1>1, <1>2, <1>3, <1>5 DEF FSMTypes
  <2> QED BY <2>1 DEF FSMInv, SnapshotsFollow
<1>6. \A k \in RowKey : k \notin snap'[r].deviates => snap'[r].rows[k] = RowAt(k, snap'[r].index)
  BY <1>3 DEF FSMInv, SnapshotsFollow
<1>7. \A q \in Replica \ {r} :
         /\ rows'[q] = rows[q] /\ applied'[q] = applied[q]
         /\ deviates'[q] = deviates[q] /\ snap'[q] = snap[q]
  BY <1>1, <1>3 DEF FSMTypes
<1> QED BY <1>3, <1>4, <1>5, <1>6, <1>7, ReplicaStep

LEMMA LocalWriteKeeps ==
    ASSUME FSMInv, NEW r \in Replica,
           ReapExpired(r) \/ \E k \in KVKey : CAS(r, k)
    PROVE  FSMInv'
<1>1. FSMTypes
  BY DEF FSMInv
<1>2. PICK K \in SUBSET RowKey :
        /\ log' = log /\ snap' = snap /\ applied' = applied /\ setTTL' = setTTL
        /\ \E new \in [RowKey -> Nat] :
              /\ rows' = [rows EXCEPT ![r] = new]
              /\ \A k \in RowKey \ K : new[k] = rows[r][k]
        /\ hasTTL' \in [Replica -> SUBSET RowKey]
        /\ deviates' = [deviates EXCEPT ![r] = @ \cup K]
  <2>1. CASE ReapExpired(r)
    <3>1. PICK K \in SUBSET hasTTL[r] :
            /\ rows' = [rows EXCEPT ![r] = [k \in RowKey |-> IF k \in K THEN Absent ELSE @[k]]]
            /\ hasTTL' = [hasTTL EXCEPT ![r] = @ \ K]
            /\ deviates' = [deviates EXCEPT ![r] = @ \cup K]
      BY <2>1 DEF ReapExpired
    <3> DEFINE new == [k \in RowKey |-> IF k \in K THEN Absent ELSE rows[r][k]]
    <3>2. K \in SUBSET RowKey /\ hasTTL' \in [Replica -> SUBSET RowKey]
      BY <1>1, <3>1 DEF FSMTypes
    <3>3. /\ new \in [RowKey -> Nat] /\ \A k \in RowKey \ K : new[k] = rows[r][k]
          /\ rows' = [rows EXCEPT ![r] = new]
      BY <1>1, <3>1 DEF FSMTypes, Absent
    <3> HIDE DEF new
    <3> QED BY <2>1, <3>1, <3>2, <3>3 DEF ReapExpired
  <2>2. ASSUME NEW j \in KVKey, CAS(r, j)
        PROVE  \E K \in SUBSET RowKey :
                 /\ log' = log /\ snap' = snap /\ applied' = applied /\ setTTL' = setTTL
                 /\ \E new \in [RowKey -> Nat] :
                       /\ rows' = [rows EXCEPT ![r] = new]
                       /\ \A k \in RowKey \ K : new[k] = rows[r][k]
                 /\ hasTTL' \in [Replica -> SUBSET RowKey]
                 /\ deviates' = [deviates EXCEPT ![r] = @ \cup K]
    <3> DEFINE new == [rows[r] EXCEPT ![j] = LocalRow]
    <3>1. {j} \in SUBSET RowKey /\ hasTTL' \in [Replica -> SUBSET RowKey]
      BY <1>1, <2>2 DEF RowKey, CAS, FSMTypes
    <3>2. /\ new \in [RowKey -> Nat] /\ \A k \in RowKey \ {j} : new[k] = rows[r][k]
          /\ rows' = [rows EXCEPT ![r] = new]
      <4>1. LocalRow \in Nat /\ rows[r] \in [RowKey -> Nat] /\ j \in RowKey
        <5>1. LocalRow \in Nat
          BY RaftFSMAssumption DEF LocalRow
        <5>2. rows[r] \in [RowKey -> Nat]
          BY <1>1 DEF FSMTypes
        <5> QED BY <5>1, <5>2 DEF RowKey
      <4>2. rows' = [rows EXCEPT ![r] = new]
        BY <2>2 DEF CAS
      <4> QED BY <4>1, <4>2
    <3> HIDE DEF new
    <3> QED BY <2>2, <3>1, <3>2 DEF CAS
  <2> QED BY <2>1, <2>2
<1>3. PICK new \in [RowKey -> Nat] :
        /\ rows' = [rows EXCEPT ![r] = new]
        /\ \A k \in RowKey \ K : new[k] = rows[r][k]
  BY <1>2
<1>4. FSMTypes'
  BY <1>1, <1>2, <1>3 DEF FSMTypes
<1>5. ASSUME NEW k \in RowKey, k \notin deviates'[r]
      PROVE  rows'[r][k] = RowAt(k, applied'[r])
  <2>1. k \notin K /\ k \notin deviates[r] /\ rows'[r][k] = rows[r][k]
    BY <1>1, <1>2, <1>3, <1>5 DEF FSMTypes
  <2> QED BY <1>2, <2>1 DEF FSMInv, FollowsLog
<1>6. \A k \in RowKey : k \notin snap'[r].deviates => snap'[r].rows[k] = RowAt(k, snap'[r].index)
  BY <1>2 DEF FSMInv, SnapshotsFollow
<1>7. \A q \in Replica \ {r} :
         /\ rows'[q] = rows[q] /\ applied'[q] = applied[q]
         /\ deviates'[q] = deviates[q] /\ snap'[q] = snap[q]
  BY <1>1, <1>2, <1>3 DEF FSMTypes
<1> QED BY <1>2, <1>4, <1>5, <1>6, <1>7, ReplicaStep

LEMMA FSMInvStep == FSMInv /\ [FSMNext]_fsmVars => FSMInv'
<1> SUFFICES ASSUME FSMInv, [FSMNext]_fsmVars PROVE FSMInv'
  OBVIOUS
<1>1. ASSUME NEW type \in CommandType, NEW k \in RowKey, Commit(type, k) PROVE FSMInv'
  <2>1. [type |-> type, key |-> k] \in Command
    BY DEF Command
  <2> QED BY <1>1, <2>1, CommitKeeps DEF Commit, FSMInv, FSMTypes
<1>2. ASSUME NEW r \in Replica, NEW k \in KVKey, PutWithTTL(r, k) PROVE FSMInv'
  <2>1. [type |-> "update", key |-> k] \in Command /\ k \in RowKey
    BY DEF Command, CommandType, RowKey
  <2>2. setTTL' \subseteq [replica : Replica, key : RowKey, index : Nat]
    <3>1. Len(log) + 1 \in Nat
      BY DEF FSMInv, FSMTypes
    <3>2. [replica |-> r, key |-> k, index |-> Len(log) + 1]
            \in [replica : Replica, key : RowKey, index : Nat]
      BY <2>1, <3>1
    <3> QED BY <1>2, <3>2 DEF PutWithTTL, FSMInv, FSMTypes
  <2> QED BY <1>2, <2>1, <2>2, CommitKeeps DEF PutWithTTL
<1>3. ASSUME NEW c \in setTTL, SetTTL(c) PROVE FSMInv'
  <2>1. /\ log' = log /\ rows' = rows /\ applied' = applied /\ snap' = snap
        /\ deviates' = deviates /\ setTTL' \subseteq setTTL
        /\ hasTTL' \in [Replica -> SUBSET RowKey]
    BY <1>3 DEF SetTTL, FSMInv, FSMTypes
  <2>2. FSMTypes'
    BY <2>1 DEF FSMInv, FSMTypes
  <2>3. c.replica \in Replica
    BY DEF FSMInv, FSMTypes
  <2> DEFINE r == c.replica
  <2>4. /\ \A k \in RowKey : k \notin deviates'[r] => rows'[r][k] = RowAt(k, applied'[r])
        /\ \A k \in RowKey :
              k \notin snap'[r].deviates => snap'[r].rows[k] = RowAt(k, snap'[r].index)
    BY <2>1, <2>3 DEF FSMInv, FollowsLog, SnapshotsFollow
  <2> HIDE DEF r
  <2> QED BY <2>1, <2>2, <2>3, <2>4, ReplicaStep DEF r
<1>4. CASE UNCHANGED fsmVars
  <2>1. FSMTypes'
    BY <1>4 DEF fsmVars, FSMInv, FSMTypes
  <2>2. log' = log /\ rows' = rows /\ applied' = applied /\ deviates' = deviates /\ snap' = snap
    BY <1>4 DEF fsmVars
  <2>3. FollowsLog' /\ SnapshotsFollow'
    BY <2>2, SameLog DEF FSMInv, FollowsLog, SnapshotsFollow
  <2> QED BY <2>1, <2>3 DEF FSMInv
<1> QED BY <1>1, <1>2, <1>3, <1>4, ApplyKeeps, SnapshotKeeps, InstallKeeps, RestartKeeps,
           LocalWriteKeeps DEF FSMNext

\* For any number of replicas, keys and commands: what a replica has is what its prefix
\* of the log gives, through every crash, snapshot and restart, the named keys excepted.
THEOREM ReplicasFollowTheLog == FSMSpec => []FollowsLog
<1>1. FSMInv => FollowsLog
  BY DEF FSMInv
<1> QED BY <1>1, FSMInvInit, FSMInvStep, PTL DEF FSMSpec

-----------------------------------------------------------------------------
(* Deployment.                                                               *)

RolloutTypes ==
    /\ DOMAIN fleet \subseteq Alloc
    /\ fleet \in [DOMAIN fleet -> AllocState]
    /\ calm \in [Alloc -> Age]

\* HealthySince is never earlier than the last unhealthy report; an allocation nobody has
\* reported has had none.
SinceIsCalm ==
    \A a \in Alloc :
        IF a \in DOMAIN fleet THEN fleet[a].healthy => fleet[a].age <= calm[a]
        ELSE calm[a] = MinHealthyTime

RolloutInv == RolloutTypes /\ SinceIsCalm

LEMMA RolloutInvInit == RolloutInit => RolloutInv
BY DeploymentAssumption DEF RolloutInit, RolloutInv, RolloutTypes, SinceIsCalm, Age

LEMMA OverlayType ==
    ASSUME RolloutTypes, NEW report \in Report
    PROVE  /\ DOMAIN report \subseteq Alloc
           /\ report \in [DOMAIN report -> AllocState]
           /\ DOMAIN Overlay(report) = DOMAIN fleet \cup DOMAIN report
           /\ Overlay(report) \in [DOMAIN Overlay(report) -> AllocState]
<1>1. DOMAIN report \subseteq Alloc /\ report \in [DOMAIN report -> AllocState]
  BY DEF Report
<1>2. DOMAIN Overlay(report) = DOMAIN fleet \cup DOMAIN report
  BY DEF Overlay
<1>3. ASSUME NEW a \in DOMAIN fleet \cup DOMAIN report
      PROVE  Overlay(report)[a] \in AllocState
  <2>1. 0 \in Age
    BY DeploymentAssumption DEF Age
  <2> QED BY <1>1, <2>1 DEF Overlay, RolloutTypes, AllocState
<1>4. Overlay(report) = [a \in DOMAIN Overlay(report) |-> Overlay(report)[a]]
  BY DEF Overlay
<1> QED BY <1>1, <1>2, <1>3, <1>4

LEMMA UpdateKeeps ==
    ASSUME RolloutInv, NEW report \in Report, UpdateAllocs(report)
    PROVE  RolloutInv'
<1>1. /\ DOMAIN report \subseteq Alloc /\ report \in [DOMAIN report -> AllocState]
      /\ DOMAIN Overlay(report) = DOMAIN fleet \cup DOMAIN report
      /\ Overlay(report) \in [DOMAIN Overlay(report) -> AllocState]
  BY OverlayType DEF RolloutInv
<1>2. /\ fleet' = Overlay(report)
      /\ calm' = [a \in Alloc |-> IF a \in DOMAIN report /\ ~report[a].healthy
                                  THEN 0 ELSE calm[a]]
  BY DEF UpdateAllocs
<1>3. MinHealthyTime \in Nat
  BY DeploymentAssumption
<1>4. RolloutTypes'
  <2>1. calm' \in [Alloc -> Age]
    BY <1>2, <1>3 DEF RolloutInv, RolloutTypes, Age
  <2>2. DOMAIN fleet' \subseteq Alloc
    BY <1>1, <1>2 DEF RolloutInv, RolloutTypes
  <2> QED BY <1>1, <1>2, <2>1, <2>2 DEF RolloutTypes
<1>5. ASSUME NEW a \in Alloc
      PROVE  IF a \in DOMAIN fleet' THEN fleet'[a].healthy => fleet'[a].age <= calm'[a]
             ELSE calm'[a] = MinHealthyTime
  <2>1. a \in DOMAIN fleet => fleet[a] \in AllocState /\ (fleet[a].healthy => fleet[a].age <= calm[a])
    BY DEF RolloutInv, RolloutTypes, SinceIsCalm
  <2>2. a \notin DOMAIN fleet => calm[a] = MinHealthyTime
    BY DEF RolloutInv, SinceIsCalm
  <2>3. calm[a] \in 0..MinHealthyTime
    BY DEF RolloutInv, RolloutTypes, Age
  <2>4. CASE a \notin DOMAIN report
    BY <1>1, <1>2, <2>1, <2>2, <2>4 DEF Overlay
  <2>5. CASE a \in DOMAIN report /\ a \notin DOMAIN fleet
    <3>1. report[a] \in AllocState /\ fleet'[a] = report[a] /\ a \in DOMAIN fleet'
      BY <1>1, <1>2, <2>5 DEF Overlay
    <3>2. report[a].healthy => calm'[a] = MinHealthyTime
      BY <1>2, <2>2, <2>5
    <3> QED BY <1>3, <3>1, <3>2 DEF AllocState, Age
  <2>6. CASE a \in DOMAIN report /\ a \in DOMAIN fleet
    <3>1. /\ report[a] \in AllocState /\ a \in DOMAIN fleet'
          /\ fleet'[a] = [report[a] EXCEPT !.age = IF report[a].healthy /\ ~fleet[a].healthy
                                                    THEN 0 ELSE fleet[a].age]
      BY <1>1, <1>2, <2>6 DEF Overlay
    <3>2. fleet'[a].healthy = report[a].healthy
          /\ fleet'[a].age = IF report[a].healthy /\ ~fleet[a].healthy THEN 0 ELSE fleet[a].age
      BY <3>1 DEF AllocState
    <3>3. report[a].healthy => calm'[a] = calm[a]
      BY <1>2
    <3> QED BY <2>1, <2>3, <2>6, <3>1, <3>2, <3>3
  <2> QED BY <2>4, <2>5, <2>6
<1>6. SinceIsCalm'
  BY <1>5 DEF SinceIsCalm
<1> QED BY <1>4, <1>6 DEF RolloutInv

LEMMA ClockKeeps == ASSUME RolloutInv, ClockAdvances PROVE RolloutInv'
<1>1. /\ fleet' = [a \in DOMAIN fleet |-> [fleet[a] EXCEPT !.age = Older(@)]]
      /\ calm' = [a \in Alloc |-> Older(calm[a])]
      /\ MinHealthyTime \in Nat
  BY DeploymentAssumption DEF ClockAdvances
<1>2. \A n \in Age : Older(n) \in Age /\ (n = MinHealthyTime => Older(n) = n)
  BY <1>1 DEF Older, Age
<1>3. \A m, n \in Age : m <= n => Older(m) <= Older(n)
  BY <1>1 DEF Older, Age
<1>4. ASSUME NEW a \in DOMAIN fleet
      PROVE  /\ fleet[a] \in AllocState /\ fleet'[a] \in AllocState
             /\ fleet'[a].healthy = fleet[a].healthy
             /\ fleet'[a].age = Older(fleet[a].age)
  BY <1>1, <1>2 DEF RolloutInv, RolloutTypes, AllocState
<1>5. DOMAIN fleet' = DOMAIN fleet
  BY <1>1
<1>6. RolloutTypes'
  BY <1>1, <1>2, <1>4, <1>5 DEF RolloutInv, RolloutTypes
<1>7. SinceIsCalm'
  <2> SUFFICES ASSUME NEW a \in Alloc
               PROVE  IF a \in DOMAIN fleet' THEN fleet'[a].healthy => fleet'[a].age <= calm'[a]
                      ELSE calm'[a] = MinHealthyTime
    BY DEF SinceIsCalm
  <2>1. calm[a] \in Age /\ calm'[a] = Older(calm[a])
    BY <1>1 DEF RolloutInv, RolloutTypes
  <2>2. CASE a \in DOMAIN fleet
    BY <1>3, <1>4, <1>5, <2>1, <2>2 DEF RolloutInv, SinceIsCalm, AllocState
  <2>3. CASE a \notin DOMAIN fleet
    BY <1>2, <1>5, <2>1, <2>3 DEF RolloutInv, SinceIsCalm
  <2> QED BY <2>2, <2>3
<1> QED BY <1>6, <1>7 DEF RolloutInv

LEMMA RolloutInvStep == RolloutInv /\ [RolloutNext]_rolloutVars => RolloutInv'
<1> SUFFICES ASSUME RolloutInv, [RolloutNext]_rolloutVars PROVE RolloutInv'
  OBVIOUS
<1>1. CASE ReportArrives
  BY <1>1, UpdateKeeps DEF ReportArrives
<1>2. CASE ClockAdvances
  BY <1>2, ClockKeeps
<1>3. CASE Promote \/ Fail \/ DeadlineElapses \/ UNCHANGED rolloutVars
  <2>1. fleet' = fleet /\ calm' = calm
    BY <1>3 DEF Promote, Fail, DeadlineElapses, rolloutVars
  <2> QED BY <2>1 DEF RolloutInv, RolloutTypes, SinceIsCalm
<1> QED BY <1>1, <1>2, <1>3 DEF RolloutNext

\* For any number of allocations, any report and any times: whoever counts towards a
\* success has gone MinHealthyTime without an unhealthy report.
THEOREM OnlyTheCalmCount == RolloutSpec => FlappingDoesNotCount
<1> DEFINE Calm == {a \in DOMAIN fleet : fleet[a].healthy /\ calm[a] >= MinHealthyTime}
<1>1. ASSUME RolloutInv, RolloutInv', [RolloutNext]_rolloutVars,
             phase # "succeeded", phase' = "succeeded"
      PROVE  Cardinality(Calm') >= TotalAllocations
  <2>1. PICK report \in Report : UpdateAllocs(report)
    BY <1>1 DEF RolloutNext, ReportArrives, Promote, Fail, ClockAdvances, DeadlineElapses,
                rolloutVars
  <2>2. Cardinality(HealthyIn(fleet')) >= TotalAllocations
    BY <1>1, <2>1 DEF UpdateAllocs, Decide
  <2>3. HealthyIn(fleet') \subseteq Calm'
    <3>1. ASSUME NEW a \in DOMAIN fleet', fleet'[a].healthy, fleet'[a].age >= MinHealthyTime
          PROVE  calm'[a] >= MinHealthyTime
      <4>1. a \in Alloc /\ fleet'[a].age <= calm'[a] /\ fleet'[a].age \in Nat /\ calm'[a] \in Nat
        BY <1>1, <3>1, DeploymentAssumption
           DEF RolloutInv, RolloutTypes, SinceIsCalm, AllocState, Age
      <4> QED BY <3>1, <4>1, DeploymentAssumption
    <3> QED BY <3>1 DEF HealthyIn
  <2>4. IsFiniteSet(Calm') /\ IsFiniteSet(HealthyIn(fleet'))
    <3>1. Calm' \subseteq Alloc
      BY <1>1 DEF RolloutInv, RolloutTypes
    <3>2. IsFiniteSet(Calm')
      <4> HIDE DEF Calm
      <4> QED BY <3>1, FS_Subset, DeploymentAssumption
    <3> QED BY <2>3, <3>2, FS_Subset
  <2>5. /\ Cardinality(HealthyIn(fleet')) <= Cardinality(Calm')
        /\ Cardinality(HealthyIn(fleet')) \in Nat /\ Cardinality(Calm') \in Nat
    <3> HIDE DEF Calm
    <3> QED BY <2>3, <2>4, FS_Subset, FS_CardinalityType
  <2> QED BY <2>2, <2>5, DeploymentAssumption
<1>2. RolloutInv /\ RolloutInv' /\ [RolloutNext]_rolloutVars =>
        [phase # "succeeded" /\ phase' = "succeeded" =>
            Cardinality({a \in DOMAIN fleet' : fleet'[a].healthy /\ calm'[a] >= MinHealthyTime})
                >= TotalAllocations]_rolloutVars
  BY <1>1
<1> QED BY <1>2, RolloutInvInit, RolloutInvStep, PTL DEF RolloutSpec, FlappingDoesNotCount
===============================================================================
