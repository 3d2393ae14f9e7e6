---------------------------- MODULE CleanupProofs -----------------------------
(*****************************************************************************)
(* What the collector, the drainer and the heartbeat tracker promise of what *)
(* they take away, for every set of keys, nodes and entities and any number  *)
(* of objects, drains, beats, failures and crashes.                          *)
(*****************************************************************************)
EXTENDS GarbageCollector, Drainer, Heartbeat, Integers, TLAPS

-----------------------------------------------------------------------------
(* GarbageCollector: the cascade forgets no child.                           *)

\* What a client, the store and the collector keep of an object.
Object == [key : ObjectKey, uid : Nat, owner : Nat, deleted : BOOLEAN, fin : BOOLEAN]

\* An object, unlike what stands for none, has a UID.
IsObject(o) == o \in Object /\ o.uid # 0

GCTypes ==
    /\ objects \in [ObjectKey -> Object \cup {Gone}]
    /\ \A k \in ObjectKey : Present(k) => IsObject(objects[k]) /\ objects[k].key = k
    /\ draft # Gone => IsObject(draft)
    /\ uids \in Nat
    /\ \A o \in pending : IsObject(o)
    /\ children \subseteq ObjectKey
    /\ gpc = "write" => IsObject(child) /\ child.deleted

\* The owner whose children are to follow is known during its cascade only; 0, which
\* stands for no owner, is never collected.
CascadeOnly ==
    /\ gpc \in {"list", "each"} => owner = 0
    /\ 0 \notin collected

GCInv == GCTypes /\ CascadeOnly /\ NoOrphans

LEMMA GCInvInit == GCInit => GCInv
BY DEF GCInit, GCInv, GCTypes, CascadeOnly, NoOrphans, Present

\* What a client stores keeps the types, and orphans no one: if its owner is gone by
\* then, that is noted.
LEMMA StoreKeeps ==
    ASSUME GCInv, NEW o, IsObject(o), Store(o), UNCHANGED collectorVars,
           draft' # Gone => IsObject(draft'), uids' \in Nat
    PROVE  GCInv'
<1>1. objects' = [objects EXCEPT ![o.key] = o] /\ o.key \in ObjectKey /\ o # Gone
  BY DEF Store, IsObject, Object, Gone
<1>2. GCTypes'
  <2>1. objects' \in [ObjectKey -> Object \cup {Gone}]
    BY <1>1 DEF GCInv, GCTypes, IsObject
  <2>2. ASSUME NEW k \in ObjectKey, Present(k)'
        PROVE  IsObject(objects'[k]) /\ objects'[k].key = k
    BY <1>1, <2>2 DEF GCInv, GCTypes, Present
  <2> QED BY <2>1, <2>2 DEF GCInv, GCTypes, collectorVars
<1>3. NoOrphans'
  <2> SUFFICES ASSUME NEW k \in ObjectKey, Present(k)', objects'[k].owner \in collected'
               PROVE  \/ objects'[k].deleted
                      \/ objects'[k].uid \in missed'
                      \/ owner' = objects'[k].owner /\ (gpc' = "cascade" \/ k \in children')
    BY DEF NoOrphans
  <2>1. CASE k = o.key
    BY <1>1, <2>1 DEF GCInv, GCTypes, Store, collectorVars
  <2>2. CASE k # o.key
    BY <1>1, <2>2 DEF GCInv, GCTypes, NoOrphans, Present, Store, collectorVars
  <2> QED BY <2>1, <2>2
<1> QED BY <1>2, <1>3 DEF GCInv, CascadeOnly, collectorVars

LEMMA ClientKeeps ==
    ASSUME GCInv,
           \/ ClientWrites
           \/ \E k \in ObjectKey : ClientCreates(k) \/ ClientReads(k) \/ ClientDeletes(k)
    PROVE  GCInv'
<1>1. ASSUME NEW k \in ObjectKey, ClientCreates(k) PROVE GCInv'
  <2>1. uids \in Nat
    BY DEF GCInv, GCTypes
  <2>2. PICK o \in 0..uids, f \in BOOLEAN :
          Store([key |-> k, uid |-> uids + 1, owner |-> o, deleted |-> FALSE, fin |-> f])
    BY <1>1 DEF ClientCreates
  <2>3. IsObject([key |-> k, uid |-> uids + 1, owner |-> o, deleted |-> FALSE, fin |-> f])
    BY <2>1 DEF IsObject, Object
  <2>4. uids' \in Nat /\ draft' = draft /\ UNCHANGED collectorVars
    BY <1>1, <2>1 DEF ClientCreates
  <2> QED BY <2>2, <2>3, <2>4, StoreKeeps DEF GCInv, GCTypes
<1>2. ASSUME NEW k \in ObjectKey, ClientReads(k) PROVE GCInv'
  BY <1>2 DEF ClientReads, collectorVars, GCInv, GCTypes, CascadeOnly, NoOrphans, Present
<1>3. CASE ClientWrites
  <2>1. PICK d \in {draft.deleted, TRUE}, f \in {draft.fin, FALSE} :
          Store([draft EXCEPT !.deleted = d, !.fin = f])
    BY <1>3 DEF ClientWrites
  <2>2. IsObject(draft)
    BY <1>3 DEF ClientWrites, GCInv, GCTypes
  <2>3. IsObject([draft EXCEPT !.deleted = d, !.fin = f])
    BY <2>2 DEF IsObject, Object
  <2>4. uids' = uids /\ draft' = Gone /\ UNCHANGED collectorVars
    BY <1>3 DEF ClientWrites
  <2> QED BY <2>1, <2>3, <2>4, StoreKeeps DEF GCInv, GCTypes
<1>4. ASSUME NEW k \in ObjectKey, ClientDeletes(k) PROVE GCInv'
  BY <1>4 DEF ClientDeletes, collectorVars, GCInv, GCTypes, CascadeOnly, NoOrphans, Present
<1> QED BY <1>1, <1>2, <1>3, <1>4

\* The steps of a pass that change no object and list no child.
LEMMA PassKeeps ==
    ASSUME GCInv,
           \/ ListPendingDeletion \/ PassEnds \/ CascadeEnds
           \/ \E o \in pending : Skips(o)
    PROVE  GCInv'
<1> USE DEF GCInv, clientVars
<1>1. CASE ListPendingDeletion
  <2>1. \A k \in ObjectKey : objects[k].deleted => Present(k)
    BY DEF Present, Gone
  <2>2. \A o \in pending' : IsObject(o)
    BY <1>1, <2>1 DEF ListPendingDeletion, GCTypes
  <2> QED BY <1>1, <2>2 DEF ListPendingDeletion, GCTypes, CascadeOnly, NoOrphans, Present
<1>2. CASE PassEnds
  BY <1>2 DEF PassEnds, GCTypes, CascadeOnly, NoOrphans, Present
<1>3. CASE CascadeEnds
  BY <1>3 DEF CascadeEnds, GCTypes, CascadeOnly, NoOrphans, Present
<1>4. ASSUME NEW o \in pending, Skips(o) PROVE GCInv'
  BY <1>4 DEF Skips, GCTypes, CascadeOnly, NoOrphans, Present
<1> QED BY <1>1, <1>2, <1>3, <1>4

\* The owner goes, and its cascade begins: no other owner's was left.
LEMMA DeleteKeeps ==
    ASSUME GCInv, NEW o \in pending, HardDeletes(o)
    PROVE  GCInv'
<1>1. IsObject(o) /\ gpc = "each" /\ owner = 0
  BY DEF GCInv, GCTypes, CascadeOnly, HardDeletes
<1>2. /\ objects' = [objects EXCEPT ![o.key] = Gone]
      /\ pending' \subseteq pending /\ owner' = o.uid /\ gpc' = "cascade"
      /\ collected' = collected \cup {o.uid}
      /\ UNCHANGED <<uids, draft, children, child, missed>>
  BY DEF HardDeletes, clientVars
<1>3. GCTypes'
  <2>1. objects' \in [ObjectKey -> Object \cup {Gone}]
    BY <1>2 DEF GCInv, GCTypes
  <2>2. ASSUME NEW k \in ObjectKey, Present(k)'
        PROVE  IsObject(objects'[k]) /\ objects'[k].key = k
    BY <1>2, <2>2 DEF GCInv, GCTypes, Present
  <2> QED BY <1>2, <2>1, <2>2 DEF GCInv, GCTypes
<1>4. CascadeOnly'
  BY <1>1, <1>2 DEF GCInv, CascadeOnly, IsObject
<1>5. NoOrphans'
  <2> SUFFICES ASSUME NEW k \in ObjectKey, Present(k)', objects'[k].owner \in collected'
               PROVE  \/ objects'[k].deleted
                      \/ objects'[k].uid \in missed'
                      \/ owner' = objects'[k].owner /\ gpc' = "cascade"
    BY DEF NoOrphans
  <2>1. objects'[k] = objects[k] /\ Present(k)
    BY <1>2 DEF GCInv, GCTypes, Present
  <2>2. CASE objects[k].owner = o.uid
    BY <1>2, <2>1, <2>2
  <2>3. CASE objects[k].owner \in collected
    BY <1>1, <1>2, <2>1, <2>3 DEF GCInv, CascadeOnly, NoOrphans
  <2> QED BY <1>2, <2>1, <2>2, <2>3
<1> QED BY <1>3, <1>4, <1>5 DEF GCInv

\* The cascade hands each child on: from the owner's deletion to the list, from the
\* list to the write that marks it.
LEMMA CascadeKeeps ==
    ASSUME GCInv,
           \/ ListByOwnerUID \/ MarkWrites
           \/ \E k \in children : MarkReads(k)
    PROVE  GCInv'
<1> USE DEF GCInv, clientVars
<1>1. CASE ListByOwnerUID
  BY <1>1 DEF ListByOwnerUID, ChildrenOf, GCTypes, CascadeOnly, NoOrphans, Present
<1>2. ASSUME NEW k \in children, MarkReads(k) PROVE GCInv'
  <2>1. GCTypes'
    <3>1. CASE Present(k)
      <4>1. IsObject([objects[k] EXCEPT !.deleted = TRUE])
        BY <1>2, <3>1 DEF GCTypes, IsObject, Object
      <4> QED BY <1>2, <3>1, <4>1 DEF MarkReads, GCTypes, Present, IsObject, Object
    <3>2. CASE ~Present(k)
      BY <1>2, <3>2 DEF MarkReads, GCTypes, Present
    <3> QED BY <3>1, <3>2
  <2>2. CascadeOnly' /\ NoOrphans'
    BY <1>2 DEF MarkReads, CascadeOnly, NoOrphans, Present
  <2> QED BY <2>1, <2>2
<1>3. CASE MarkWrites
  <2>1. IsObject(child) /\ child.deleted /\ child.key \in ObjectKey /\ child # Gone
    BY <1>3 DEF MarkWrites, GCTypes, IsObject, Object, Gone
  <2>2. GCTypes'
    BY <1>3, <2>1 DEF MarkWrites, GCTypes, Present, IsObject
  <2>3. CascadeOnly'
    BY <1>3 DEF MarkWrites, CascadeOnly
  <2>4. NoOrphans'
    BY <1>3, <2>1 DEF MarkWrites, GCTypes, NoOrphans, Present
  <2> QED BY <2>2, <2>3, <2>4
<1> QED BY <1>1, <1>2, <1>3

\* What a failed call or a crash gives up on is noted.
LEMMA FaultKeeps ==
    ASSUME GCInv, CallFails \/ Crashes
    PROVE  GCInv'
<1> USE DEF GCInv, clientVars, Uids
<1>1. CASE Crashes
  <2>1. GCTypes' /\ CascadeOnly'
    BY <1>1 DEF Crashes, GCTypes, CascadeOnly, Present
  <2>2. NoOrphans'
    BY <1>1 DEF Crashes, ChildrenOf, NoOrphans, Present
  <2> QED BY <2>1, <2>2
<1>2. CASE CallFails
  <2>1. GCTypes'
    BY <1>2 DEF CallFails, GCTypes, Present
  <2>2. CascadeOnly'
    BY <1>2 DEF CallFails, CascadeOnly
  <2>3. NoOrphans'
    BY <1>2 DEF CallFails, ChildrenOf, CascadeOnly, NoOrphans, Present
  <2> QED BY <2>1, <2>2, <2>3
<1> QED BY <1>1, <1>2

LEMMA GCInvStep == GCInv /\ [GCNext]_gcVars => GCInv'
<1> SUFFICES ASSUME GCInv, [GCNext]_gcVars PROVE GCInv'
  OBVIOUS
<1>1. CASE UNCHANGED gcVars
  BY <1>1 DEF gcVars, GCInv, GCTypes, CascadeOnly, NoOrphans, Present
<1> QED
  BY <1>1, ClientKeeps, PassKeeps, DeleteKeeps, CascadeKeeps, FaultKeeps
     DEF GCNext, CollectorStep

\* Every child of an owner the collector has deleted is marked or about to be, unless
\* it is one the code gives up on (gc.go processStore, cascadeDeletion).
THEOREM CascadesAreComplete == GCSpec => []NoOrphans
<1>1. GCInv => NoOrphans
  BY DEF GCInv
<1> QED BY GCInvInit, GCInvStep, <1>1, PTL DEF GCSpec

-----------------------------------------------------------------------------
(* Drainer: a drain that runs can be cancelled.                              *)

Drain ==
    [node : DrainedNode, pc : {"batch", "emit", "delay", "return", "done"}, left : Int,
     batch : Int, forced : BOOLEAN, cancelled : BOOLEAN]

DrainerTypes ==
    /\ drains \in [Begun -> Drain]
    /\ \E n \in 0..MaxDrains : Begun = 1..n
    /\ active \in [DrainedNode -> Begun \cup {0}]

\* An entry is of a drain of that node which was not cancelled.
EntryIsLive ==
    \A n \in DrainedNode :
        active[n] # 0 => drains[active[n]].node = n /\ ~drains[active[n]].cancelled

CancelledUpTo(d) ==
    \E e \in Begun : e <= d /\ drains[e].node = drains[d].node /\ drains[e].cancelled

\* A node's drains overlap only once one of them was cancelled.
OverlapNeedsCancel ==
    \A c, d \in Begun :
        c < d /\ drains[c].node = drains[d].node /\ Running(c) => CancelledUpTo(c)

DrainerInv == DrainerTypes /\ EntryIsLive /\ OverlapNeedsCancel /\ RunningIsRegistered

LEMMA DrainerInvInit == DrainerInit => DrainerInv
<1> SUFFICES ASSUME DrainerInit PROVE DrainerInv
  OBVIOUS
<1>1. Begun = 1..0 /\ Begun = {}
  BY DEF DrainerInit, Begun
<1>2. DrainerTypes
  <2>1. 0 \in 0..MaxDrains
    BY DrainerAssumption
  <2> QED BY <1>1, <2>1 DEF DrainerInit, DrainerTypes, Begun
<1> QED
  BY <1>1, <1>2 DEF DrainerInit, DrainerInv, EntryIsLive, OverlapNeedsCancel,
                    RunningIsRegistered

\* The number a new drain gets is the next one.
LEMMA NextNumber ==
    ASSUME DrainerTypes, Begun # 1..MaxDrains
    PROVE  LET next == CHOOSE i \in 1..MaxDrains : i \notin Begun /\ \A j \in 1..i - 1 : j \in Begun
           IN  next \in 1..MaxDrains /\ next \notin Begun /\ Begun = 1..next - 1
<1>1. PICK n \in 0..MaxDrains : Begun = 1..n
  BY DEF DrainerTypes
<1> DEFINE P(i) == i \notin Begun /\ \A j \in 1..i - 1 : j \in Begun
           next == CHOOSE i \in 1..MaxDrains : P(i)
<1>2. MaxDrains \in Nat
  BY DrainerAssumption
<1>3. n + 1 \in 1..MaxDrains /\ P(n + 1)
  BY <1>1, <1>2
<1>4. next \in 1..MaxDrains /\ P(next)
  <2> HIDE DEF P
  <2> QED BY <1>3
<1>5. next = n + 1
  BY <1>1, <1>2, <1>4
<1> QED BY <1>1, <1>4, <1>5

LEMMA BeginKeeps ==
    ASSUME DrainerInv, NEW n \in DrainedNode, NEW allocs \in AllocCount,
           NEW force \in BOOLEAN, Begin(n, allocs, force)
    PROVE  DrainerInv'
<1> DEFINE next == CHOOSE i \in 1..MaxDrains : i \notin Begun /\ \A j \in 1..i - 1 : j \in Begun
           new == [node |-> n, pc |-> "batch", left |-> allocs, batch |-> 0,
                   forced |-> force, cancelled |-> FALSE]
<1>1. /\ active[n] = 0
      /\ drains' = [i \in Begun \cup {next} |-> IF i = next THEN new ELSE drains[i]]
      /\ active' = [active EXCEPT ![n] = next]
  BY DEF Begin
<1>2. next \in 1..MaxDrains /\ next \notin Begun /\ Begun = 1..next - 1
  BY NextNumber DEF DrainerInv, Begin
<1> HIDE DEF next
<1>3. new \in Drain
  BY DrainerAssumption DEF Drain
<1> HIDE DEF new
<1>4. /\ Begun' = Begun \cup {next} /\ drains'[next] = new
      /\ \A d \in Begun : drains'[d] = drains[d] /\ d < next
  BY <1>1, <1>2 DEF Begun
<1>5. new.node = n /\ new.cancelled = FALSE
  BY DEF new
<1>6. DrainerTypes'
  <2>1. Begun' = 1..next
    BY <1>2, <1>4, DrainerAssumption
  <2>2. drains' \in [Begun' -> Drain]
    BY <1>1, <1>3, <1>4 DEF DrainerInv, DrainerTypes
  <2>3. active' \in [DrainedNode -> Begun' \cup {0}]
    <3>1. active \in [DrainedNode -> Begun \cup {0}]
      BY DEF DrainerInv, DrainerTypes
    <3>2. next \in Begun' /\ Begun \subseteq Begun'
      BY <1>4
    <3> QED BY <1>1, <3>1, <3>2
  <2>4. next \in 0..MaxDrains
    BY <1>2, DrainerAssumption
  <2> QED BY <2>1, <2>2, <2>3, <2>4 DEF DrainerTypes
<1>7. EntryIsLive'
  <2> SUFFICES ASSUME NEW m \in DrainedNode, active'[m] # 0
               PROVE  drains'[active'[m]].node = m /\ ~drains'[active'[m]].cancelled
    BY DEF EntryIsLive
  <2>1. CASE m = n
    BY <1>1, <1>4, <1>5, <2>1 DEF DrainerInv, DrainerTypes
  <2>2. CASE m # n
    <3>1. active'[m] = active[m] /\ active[m] \in Begun
      BY <1>1, <2>2 DEF DrainerInv, DrainerTypes
    <3> QED BY <1>4, <3>1 DEF DrainerInv, EntryIsLive
  <2> QED BY <2>1, <2>2
\* The entry was free: the node's drains that still run are cancelled, or have lost
\* their entry to one that was.
<1>8. \A c \in Begun : drains[c].node = n /\ Running(c) => CancelledUpTo(c)
  BY <1>1, <1>2 DEF DrainerInv, RunningIsRegistered, CancelledUpTo, Running, At
<1>9. \A c \in Begun : CancelledUpTo(c) => CancelledUpTo(c)'
  BY <1>4 DEF CancelledUpTo
<1>10. OverlapNeedsCancel'
  <2> SUFFICES ASSUME NEW c \in Begun', NEW d \in Begun', c < d,
                      drains'[c].node = drains'[d].node, Running(c)'
               PROVE  CancelledUpTo(c)'
    BY DEF OverlapNeedsCancel
  <2>1. c \in Begun /\ Running(c)
    BY <1>2, <1>4 DEF Running, At
  <2>2. CASE d = next
    BY <1>4, <1>5, <1>8, <1>9, <2>1, <2>2
  <2>3. CASE d \in Begun
    BY <1>4, <1>9, <2>1, <2>3 DEF DrainerInv, OverlapNeedsCancel
  <2> QED BY <1>4, <2>2, <2>3
<1>11. RunningIsRegistered'
  <2> SUFFICES ASSUME NEW d \in Begun', Running(d)', ~drains'[d].cancelled,
                      active'[drains'[d].node] # d
               PROVE  \E e \in Begun' : /\ e < d /\ drains'[e].node = drains'[d].node
                                        /\ drains'[e].cancelled
    BY DEF RunningIsRegistered
  <2>1. d \in Begun
    BY <1>1, <1>4, <1>5 DEF DrainerInv, DrainerTypes
  <2>2. CASE drains[d].node = n
    <3>1. drains'[d] = drains[d] /\ Running(d) /\ ~drains[d].cancelled
      BY <1>4, <2>1 DEF Running, At
    <3>2. PICK e \in Begun : /\ e <= d /\ drains[e].node = drains[d].node
                             /\ drains[e].cancelled
      BY <1>8, <2>1, <2>2, <3>1 DEF CancelledUpTo
    <3>3. e # d /\ e \in Nat /\ d \in Nat
      BY <1>2, <2>1, <3>1, <3>2
    <3>4. drains'[e] = drains[e] /\ e \in Begun' /\ e < d
      BY <1>4, <3>2, <3>3
    <3> QED BY <3>1, <3>2, <3>4
  <2>3. CASE drains[d].node # n
    BY <1>1, <1>4, <2>1, <2>3
       DEF DrainerInv, DrainerTypes, Drain, RunningIsRegistered, Running, At
  <2> QED BY <2>2, <2>3
<1> QED BY <1>6, <1>7, <1>10, <1>11 DEF DrainerInv

\* A step that begins no drain, and whose drains keep their nodes, their cancellations
\* and, once done, their end.
Onward ==
    /\ Begun' = Begun
    /\ \A d \in Begun :
        /\ drains'[d].node = drains[d].node
        /\ drains[d].cancelled => drains'[d].cancelled
        /\ Running(d)' => Running(d)

LEMMA OnwardKeepsOverlap ==
    ASSUME DrainerInv, Onward
    PROVE  OverlapNeedsCancel'
BY DEF DrainerInv, Onward, OverlapNeedsCancel, CancelledUpTo

LEMMA CancelKeeps ==
    ASSUME DrainerInv, NEW n \in DrainedNode, Cancel(n)
    PROVE  DrainerInv'
<1>1. /\ active[n] \in Begun /\ drains[active[n]].node = n
      /\ drains' = [drains EXCEPT ![active[n]].cancelled = TRUE]
      /\ active' = [active EXCEPT ![n] = 0]
  BY DEF Cancel, DrainerInv, DrainerTypes, EntryIsLive
<1>2. Begun' = Begun
  BY <1>1 DEF DrainerInv, DrainerTypes, Begun
<1>3. DrainerTypes'
  BY <1>1, <1>2 DEF DrainerInv, DrainerTypes, Drain
<1>4. Onward
  BY <1>1, <1>2 DEF DrainerInv, DrainerTypes, Drain, Onward, Running, At
<1>5. \A d \in Begun \ {active[n]} : drains'[d] = drains[d]
  BY <1>1 DEF DrainerInv, DrainerTypes
<1>6. EntryIsLive'
  BY <1>1, <1>5 DEF DrainerInv, DrainerTypes, EntryIsLive
<1>7. RunningIsRegistered'
  <2> SUFFICES ASSUME NEW d \in Begun', Running(d)', ~drains'[d].cancelled,
                      active'[drains'[d].node] # d
               PROVE  \E e \in Begun' : /\ e < d /\ drains'[e].node = drains'[d].node
                                        /\ drains'[e].cancelled
    BY DEF RunningIsRegistered
  <2>1. d # active[n]
    BY <1>1 DEF DrainerInv, DrainerTypes, Drain
  <2>2. active[drains[d].node] # d
    BY <1>1, <1>2, <1>4, <2>1 DEF DrainerInv, DrainerTypes, Drain, Onward
  <2>3. PICK e \in Begun : e < d /\ drains[e].node = drains[d].node /\ drains[e].cancelled
    BY <1>2, <1>5, <2>1, <2>2 DEF DrainerInv, RunningIsRegistered, Running, At
  <2> QED BY <1>2, <1>4, <2>3 DEF Onward
<1> QED BY <1>3, <1>4, <1>6, <1>7, OnwardKeepsOverlap DEF DrainerInv

\* The steps of a drain that leave the entries alone.
LEMMA WorkKeeps ==
    ASSUME DrainerInv, NEW d \in Begun,
           TakeBatch(d) \/ Emit(d) \/ DelayEnds(d) \/ SeesCancel(d)
    PROVE  DrainerInv'
<1>1. PICK r \in Drain :
        /\ drains' = [drains EXCEPT ![d] = r]
        /\ r.node = drains[d].node /\ r.cancelled = drains[d].cancelled
  <2>1. drains[d] \in Drain /\ drains \in [Begun -> Drain]
    BY DEF DrainerInv, DrainerTypes
  <2>2. CASE TakeBatch(d)
    <3> DEFINE b == IF Size(d) < BatchSize THEN Size(d) ELSE BatchSize
    <3>1. b \in Int /\ Size(d) - b \in Int
      BY <2>1, DrainerAssumption DEF Size, Drain
    <3>2. PICK deadline \in BOOLEAN :
            drains' = [drains EXCEPT ![d].pc = IF b = 0 THEN "return" ELSE "emit",
                                     ![d].batch = b, ![d].left = @ - b,
                                     ![d].forced = @ \/ (deadline /\ b > 0)]
      BY <2>2 DEF TakeBatch
    <3> HIDE DEF b
    <3> DEFINE r == [drains[d] EXCEPT !.pc = IF b = 0 THEN "return" ELSE "emit",
                                      !.batch = b, !.left = @ - b,
                                      !.forced = @ \/ (deadline /\ b > 0)]
    <3>3. r \in Drain /\ r.node = drains[d].node /\ r.cancelled = drains[d].cancelled
      BY <2>1, <3>1 DEF Drain, Size
    <3>4. drains' = [drains EXCEPT ![d] = r]
      BY <2>1, <3>2
    <3> QED BY <3>3, <3>4
  <2>3. CASE Emit(d)
    <3> DEFINE pc == IF drains[d].batch > 1 THEN "emit"
                     ELSE IF Size(d) = 0 THEN "return"
                     ELSE IF drains[d].forced THEN "batch" ELSE "delay"
               s == [drains[d] EXCEPT !.batch = @ - 1]
               r == [s EXCEPT !.pc = pc]
    <3>1. pc \in {"batch", "emit", "delay", "return", "done"}
      OBVIOUS
    <3>2. drains' = [drains EXCEPT ![d].batch = @ - 1, ![d].pc = pc]
      BY <2>3 DEF Emit
    <3> HIDE DEF pc
    <3>3. drains' = [drains EXCEPT ![d] = r]
      BY <2>1, <3>2
    <3>4. s \in Drain /\ s.node = drains[d].node /\ s.cancelled = drains[d].cancelled
      BY <2>1 DEF Drain
    <3> HIDE DEF s
    <3>5. r \in Drain /\ r.node = s.node /\ r.cancelled = s.cancelled
      BY <3>1, <3>4 DEF Drain
    <3> QED BY <3>3, <3>4, <3>5
  <2>4. CASE DelayEnds(d)
    <3> DEFINE r == [drains[d] EXCEPT !.pc = "batch"]
    <3>1. r \in Drain /\ r.node = drains[d].node /\ r.cancelled = drains[d].cancelled
      BY <2>1 DEF Drain
    <3>2. drains' = [drains EXCEPT ![d] = r]
      BY <2>1, <2>4 DEF DelayEnds
    <3> QED BY <3>1, <3>2
  <2>5. CASE SeesCancel(d)
    <3> DEFINE r == [drains[d] EXCEPT !.pc = "return"]
    <3>1. r \in Drain /\ r.node = drains[d].node /\ r.cancelled = drains[d].cancelled
      BY <2>1 DEF Drain
    <3>2. drains' = [drains EXCEPT ![d] = r]
      BY <2>1, <2>5 DEF SeesCancel
    <3> QED BY <3>1, <3>2
  <2> QED BY <2>2, <2>3, <2>4, <2>5
<1>2. Running(d) /\ active' = active
  BY DEF TakeBatch, Emit, DelayEnds, SeesCancel, Running, At
<1>3. Begun' = Begun
  BY <1>1 DEF DrainerInv, DrainerTypes, Begun
<1>4. DrainerTypes'
  BY <1>1, <1>2, <1>3 DEF DrainerInv, DrainerTypes
<1>5. /\ Onward
      /\ \A c \in Begun : drains'[c].cancelled = drains[c].cancelled
  BY <1>1, <1>2, <1>3 DEF DrainerInv, DrainerTypes, Onward, Running, At
<1>6. EntryIsLive'
  <2> SUFFICES ASSUME NEW n \in DrainedNode, active[n] # 0
               PROVE  drains'[active[n]].node = n /\ ~drains'[active[n]].cancelled
    BY <1>2 DEF EntryIsLive
  <2>1. active[n] \in Begun
    BY DEF DrainerInv, DrainerTypes
  <2> QED BY <1>5, <2>1 DEF DrainerInv, EntryIsLive, Onward
<1>7. RunningIsRegistered'
  BY <1>2, <1>5 DEF DrainerInv, RunningIsRegistered, Onward
<1> QED BY <1>4, <1>5, <1>6, <1>7, OnwardKeepsOverlap DEF DrainerInv

\* A drain that returns takes another's entry away only if they overlap, and that needs
\* a cancellation before the other.
LEMMA ReturnKeeps ==
    ASSUME DrainerInv, NEW d \in Begun, Return(d)
    PROVE  DrainerInv'
<1>1. drains[d] \in Drain /\ drains \in [Begun -> Drain]
  BY DEF DrainerInv, DrainerTypes
<1> DEFINE r == [drains[d] EXCEPT !.pc = "done", !.left = 0, !.batch = 0, !.forced = FALSE]
<1>2. /\ drains' = [drains EXCEPT ![d] = r]
      /\ active' = [active EXCEPT ![drains[d].node] = 0]
      /\ Running(d)
  BY <1>1 DEF Return, Running, At
<1>3. /\ r \in Drain /\ r.pc = "done"
      /\ r.node = drains[d].node /\ r.cancelled = drains[d].cancelled
  <2> DEFINE s == [drains[d] EXCEPT !.pc = "done"]
             t == [s EXCEPT !.left = 0]
             u == [t EXCEPT !.batch = 0]
  <2>1. r = [u EXCEPT !.forced = FALSE]
    OBVIOUS
  <2>2. /\ s \in Drain /\ s.pc = "done"
        /\ s.node = drains[d].node /\ s.cancelled = drains[d].cancelled
    BY <1>1 DEF Drain
  <2> HIDE DEF r, s
  <2>3. t \in Drain /\ t.pc = s.pc /\ t.node = s.node /\ t.cancelled = s.cancelled
    BY <2>2 DEF Drain
  <2> HIDE DEF t
  <2>4. u \in Drain /\ u.pc = t.pc /\ u.node = t.node /\ u.cancelled = t.cancelled
    BY <2>3 DEF Drain
  <2> HIDE DEF u
  <2> QED BY <2>1, <2>2, <2>3, <2>4 DEF Drain
<1> HIDE DEF r
<1>4. Begun' = Begun
  BY <1>1, <1>2 DEF Begun
<1>5. DrainerTypes'
  <2>1. /\ drains \in [Begun -> Drain] /\ active \in [DrainedNode -> Begun \cup {0}]
        /\ \E m \in 0..MaxDrains : Begun = 1..m
    BY DEF DrainerInv, DrainerTypes
  <2>2. drains' \in [Begun -> Drain]
    BY <1>1, <1>2, <1>3, <2>1
  <2>3. active' \in [DrainedNode -> Begun \cup {0}]
    BY <1>1, <1>2, <1>3, <2>1
  <2> QED BY <1>4, <2>1, <2>2, <2>3 DEF DrainerTypes
<1>6. /\ Onward /\ ~Running(d)'
      /\ \A c \in Begun : drains'[c].cancelled = drains[c].cancelled
  BY <1>1, <1>2, <1>3, <1>4 DEF Onward, Running, At
<1>7. EntryIsLive'
  <2> SUFFICES ASSUME NEW n \in DrainedNode, active'[n] # 0
               PROVE  drains'[active'[n]].node = n /\ ~drains'[active'[n]].cancelled
    BY DEF EntryIsLive
  <2>1. active'[n] = active[n] /\ active[n] \in Begun
    BY <1>2 DEF DrainerInv, DrainerTypes
  <2> QED BY <1>6, <2>1 DEF DrainerInv, EntryIsLive, Onward
<1>8. RunningIsRegistered'
  <2> SUFFICES ASSUME NEW c \in Begun, Running(c), c # d, ~drains[c].cancelled,
                      active'[drains[c].node] # c
               PROVE  \E e \in Begun : e < c /\ drains[e].node = drains[c].node /\ drains[e].cancelled
    BY <1>4, <1>6 DEF RunningIsRegistered, Onward
  <2>1. CASE active[drains[c].node] # c
    BY <2>1 DEF DrainerInv, RunningIsRegistered
  <2>2. CASE active[drains[c].node] = c
    <3>1. drains[c].node = drains[d].node
      BY <1>1, <1>2, <2>2 DEF DrainerInv, DrainerTypes, Drain
    <3>2. d < c \/ c < d
      BY DEF DrainerInv, DrainerTypes
    <3>3. CASE d < c
      BY <1>2, <3>1, <3>3 DEF DrainerInv, DrainerTypes, OverlapNeedsCancel, CancelledUpTo
    <3>4. CASE c < d
      BY <3>1, <3>4 DEF DrainerInv, DrainerTypes, OverlapNeedsCancel, CancelledUpTo
    <3> QED BY <3>2, <3>3, <3>4
  <2> QED BY <2>1, <2>2
<1> QED BY <1>5, <1>6, <1>7, <1>8, OnwardKeepsOverlap DEF DrainerInv

LEMMA DrainerInvStep == DrainerInv /\ [DrainerNext]_drainerVars => DrainerInv'
<1> SUFFICES ASSUME DrainerInv, [DrainerNext]_drainerVars PROVE DrainerInv'
  OBVIOUS
<1>1. CASE Consume \/ UNCHANGED drainerVars
  <2>1. drains' = drains /\ active' = active
    BY <1>1 DEF Consume, drainerVars
  <2> QED BY <2>1 DEF DrainerInv, DrainerTypes, EntryIsLive, OverlapNeedsCancel,
                      CancelledUpTo, RunningIsRegistered, Running, At, Begun
<1> QED
  BY <1>1, BeginKeeps, CancelKeeps, WorkKeeps, ReturnKeeps DEF DrainerNext, DrainStep

\* A drain that runs can be found and cancelled, unless an earlier drain of its node
\* was cancelled (drainer.go Begin, Cancel and the deferred delete of run).
THEOREM DrainsAreRegistered == DrainerSpec => []RunningIsRegistered
<1>1. DrainerInv => RunningIsRegistered
  BY DEF DrainerInv
<1> QED BY DrainerInvInit, DrainerInvStep, <1>1, PTL DEF DrainerSpec

-----------------------------------------------------------------------------
(* Heartbeat: registrations and reports balance.                             *)

Counts == [Entity -> Nat]

TrackerTypes ==
    /\ deadlines \in [Entity -> {"none", "ahead", "passed"}]
    /\ registered \in Counts /\ told \in Counts /\ dropped \in Counts
    /\ untold \subseteq Entity

\* A pass of the reaper takes up deadlines only when the last one's calls are made.
CallsThenTicks == trackerpc # "call" => untold = {}

TrackerInv == TrackerTypes /\ CallsThenTicks /\ OneReportPerRegistration

LEMMA TrackerInvInit == TrackerInit => TrackerInv
BY DEF TrackerInit, TrackerInv, TrackerTypes, Counts, CallsThenTicks, OneReportPerRegistration

LEMMA TrackerInvStep == TrackerInv /\ [TrackerNext]_trackerVars => TrackerInv'
<1> SUFFICES ASSUME TrackerInv, [TrackerNext]_trackerVars PROVE TrackerInv'
  OBVIOUS
<1> USE DEF TrackerInv, TrackerTypes, Counts, CallsThenTicks
\* The steps of the tracker's life, which leave the balance alone.
<1>1. CASE StartTracker \/ StopTracker \/ Expired \/ LoopReturns \/ UNCHANGED trackerVars
  BY <1>1 DEF StartTracker, StopTracker, Expired, LoopReturns, trackerVars,
              OneReportPerRegistration
<1>2. ASSUME NEW i \in Entity, Beat(i) PROVE TrackerInv'
  <2>1. TrackerTypes' /\ CallsThenTicks'
    BY <1>2 DEF Beat
  <2>2. OneReportPerRegistration'
    BY <1>2 DEF Beat, OneReportPerRegistration
  <2> QED BY <2>1, <2>2
<1>3. ASSUME NEW i \in Entity, Delete(i) PROVE TrackerInv'
  <2>1. TrackerTypes' /\ CallsThenTicks'
    BY <1>3 DEF Delete
  <2>2. OneReportPerRegistration'
    BY <1>3 DEF Delete, OneReportPerRegistration
  <2> QED BY <2>1, <2>2
<1>4. ASSUME NEW i \in Entity, TTLPasses(i) PROVE TrackerInv'
  <2>1. TrackerTypes' /\ CallsThenTicks'
    BY <1>4 DEF TTLPasses
  <2>2. OneReportPerRegistration'
    BY <1>4 DEF TTLPasses, OneReportPerRegistration
  <2> QED BY <2>1, <2>2
\* Each deadline that is reaped becomes a call to make.
<1>5. CASE Reap
  <2> DEFINE passed == {j \in Entity : deadlines[j] = "passed"}
  <2>1. /\ untold = {} /\ untold' = passed /\ trackerpc' = "call"
        /\ deadlines' = [j \in Entity |-> IF j \in passed THEN "none" ELSE deadlines[j]]
        /\ UNCHANGED <<registered, told, dropped>>
    BY <1>5 DEF Reap, ReapOverdue
  <2>2. TrackerTypes' /\ CallsThenTicks'
    BY <2>1
  <2>3. OneReportPerRegistration'
    BY <2>1 DEF OneReportPerRegistration
  <2> QED BY <2>2, <2>3
<1>6. CASE OnExpire
  <2>1. PICK i \in untold : told' = [told EXCEPT ![i] = @ + 1] /\ untold' = untold \ {i}
    BY <1>6 DEF OnExpire
  <2>2. UNCHANGED <<deadlines, registered, dropped>>
    BY <1>6 DEF OnExpire
  <2>3. TrackerTypes' /\ CallsThenTicks'
    BY <1>6, <2>1, <2>2 DEF OnExpire
  <2>4. OneReportPerRegistration'
    BY <2>1, <2>2 DEF OneReportPerRegistration
  <2> QED BY <2>3, <2>4
<1> QED BY <1>1, <1>2, <1>3, <1>4, <1>5, <1>6 DEF TrackerNext, ReaperStep

\* Every registration is reported once or deregistered once, or is still to be: none
\* twice, none lost (tracker.go reap, Set, Beat, Delete).
THEOREM ReportsBalance == TrackerSpec => []OneReportPerRegistration
<1>1. TrackerInv => OneReportPerRegistration
  BY DEF TrackerInv
<1> QED BY TrackerInvInit, TrackerInvStep, <1>1, PTL DEF TrackerSpec
===============================================================================
