--------------------------- MODULE GarbageCollector ---------------------------
(***************************************************************************)
(* gc.GarbageCollector over the adapter of one resource store              *)
(* (src/internal/platform/gc/gc.go, adapter.go), while clients create,     *)
(* rewrite and delete the objects.  Each call of the store is a step; a    *)
(* client's Update puts the whole object it has read, as the store has no  *)
(* compare-and-set.  Of an object the model keeps its identity, its owner, *)
(* whether DeletedAt is set and whether finalizers remain.                 *)
(***************************************************************************)
EXTENDS Naturals, FiniteSets

CONSTANTS
    ObjectKey,
    MaxUID,         \* bound: objects created in a behaviour
    MaxGCFaults     \* bound: crashes of the process and failed calls

VARIABLES
    objects,    \* the object stored under each key
    uids,       \* objects created so far; an object's UID is its number
    draft,      \* a client's copy of an object, from its Get to its Update
    gpc,        \* what the collector is at
    pending,    \* the objects ListPendingDeletion returned that are to be looked at
    owner,      \* UID of the object just deleted, whose children are marked
    children,   \* keys ListByOwnerUID returned
    child,      \* the copy SetDeletedAt is about to put back
    collected,  \* history: UIDs the collector has deleted
    missed,     \* history: UIDs of children that it cannot be asked to mark
    gcFaults

gcVars ==
    <<objects, uids, draft, gpc, pending, owner, children, child, collected, missed, gcFaults>>

Gone == [key |-> "none", uid |-> 0, owner |-> 0, deleted |-> FALSE, fin |-> FALSE]
Present(k) == objects[k] # Gone

GCInit ==
    /\ objects = [k \in ObjectKey |-> Gone]
    /\ uids = 0
    /\ draft = Gone
    /\ gpc = "list" /\ pending = {} /\ owner = 0 /\ children = {} /\ child = Gone
    /\ collected = {} /\ missed = {}
    /\ gcFaults = 0

-----------------------------------------------------------------------------
(* The clients.                                                            *)

collectorVars == <<gpc, pending, owner, children, child, collected, gcFaults>>

\* A client stores o.  If its owner has been collected by then, its mark is the
\* client's own affair.
Store(o) ==
    /\ objects' = [objects EXCEPT ![o.key] = o]
    /\ missed' = IF o.owner \in collected THEN missed \cup {o.uid} ELSE missed

ClientCreates(k) ==
    /\ ~Present(k)
    /\ uids < MaxUID
    /\ uids' = uids + 1
    /\ \E o \in 0..uids, f \in BOOLEAN :
        Store([key |-> k, uid |-> uids + 1, owner |-> o, deleted |-> FALSE, fin |-> f])
    /\ UNCHANGED <<draft, collectorVars>>

ClientReads(k) ==
    /\ Present(k)
    /\ draft' = objects[k]
    /\ UNCHANGED <<objects, uids, missed, collectorVars>>

\* A status write, the removal of a finalizer, or a request to delete.
ClientWrites ==
    /\ draft # Gone
    /\ \E d \in {draft.deleted, TRUE}, f \in {draft.fin, FALSE} :
        Store([draft EXCEPT !.deleted = d, !.fin = f])
    /\ draft' = Gone
    /\ UNCHANGED <<uids, collectorVars>>

ClientDeletes(k) ==
    /\ Present(k)
    /\ objects' = [objects EXCEPT ![k] = Gone]
    /\ UNCHANGED <<uids, draft, missed, collectorVars>>

-----------------------------------------------------------------------------
(* The collector.                                                          *)

clientVars == <<uids, draft>>

ListPendingDeletion ==
    /\ gpc = "list"
    /\ pending' = {objects[k] : k \in {j \in ObjectKey : objects[j].deleted}}
    /\ gpc' = "each"
    /\ UNCHANGED <<objects, clientVars, owner, children, child, collected, missed, gcFaults>>

PassEnds ==
    /\ gpc = "each" /\ pending = {}
    /\ gpc' = "list"
    /\ UNCHANGED <<objects, clientVars, pending, owner, children, child, collected, missed,
                   gcFaults>>

\* Mutant: an object with finalizers ends the pass.
SkipsRest(o) ==
    /\ gpc = "each" /\ o \in pending /\ o.fin
    /\ pending' = {}
    /\ UNCHANGED <<objects, clientVars, gpc, owner, children, child, collected, missed, gcFaults>>

Skips(o) ==
    /\ gpc = "each" /\ o \in pending /\ o.fin
    /\ pending' = pending \ {o}
    /\ UNCHANGED <<objects, clientVars, gpc, owner, children, child, collected, missed, gcFaults>>

\* The finalizers are those of the list; the Delete is of whatever is under the key.
HardDeletes(o) ==
    /\ gpc = "each" /\ o \in pending /\ ~o.fin
    /\ pending' = pending \ {o}
    /\ objects' = [objects EXCEPT ![o.key] = Gone]
    /\ owner' = o.uid
    /\ collected' = collected \cup {o.uid}
    /\ gpc' = "cascade"
    /\ UNCHANGED <<clientVars, children, child, missed, gcFaults>>

ChildrenOf(u) == {k \in ObjectKey : Present(k) /\ objects[k].owner = u /\ ~objects[k].deleted}

\* Mutant: children with finalizers are left out.
ListByOwnerUIDUnprotected ==
    /\ gpc = "cascade"
    /\ children' = {k \in ChildrenOf(owner) : ~objects[k].fin}
    /\ gpc' = "mark"
    /\ UNCHANGED <<objects, clientVars, pending, owner, child, collected, missed, gcFaults>>

ListByOwnerUID ==
    /\ gpc = "cascade"
    /\ children' = ChildrenOf(owner)
    /\ gpc' = "mark"
    /\ UNCHANGED <<objects, clientVars, pending, owner, child, collected, missed, gcFaults>>

\* SetDeletedAt is a Get, which may find the child gone, and an Update.
MarkReads(k) ==
    /\ gpc = "mark" /\ k \in children
    /\ children' = IF Present(k) THEN children ELSE children \ {k}
    /\ child' = IF Present(k) THEN [objects[k] EXCEPT !.deleted = TRUE] ELSE Gone
    /\ gpc' = IF Present(k) THEN "write" ELSE "mark"
    /\ UNCHANGED <<objects, clientVars, pending, owner, collected, missed, gcFaults>>

MarkWrites ==
    /\ gpc = "write"
    /\ objects' = [objects EXCEPT ![child.key] = child]
    /\ children' = children \ {child.key}
    /\ child' = Gone
    /\ gpc' = "mark"
    /\ UNCHANGED <<clientVars, pending, owner, collected, missed, gcFaults>>

CascadeEnds ==
    /\ gpc = "mark" /\ children = {}
    /\ owner' = 0
    /\ gpc' = "each"
    /\ UNCHANGED <<objects, clientVars, pending, children, child, collected, missed, gcFaults>>

Uids(K) == {objects[k].uid : k \in K}

\* A call fails: of the Delete, the list of children, or a SetDeletedAt.
CallFails ==
    /\ gcFaults < MaxGCFaults
    /\ gcFaults' = gcFaults + 1
    /\ \/ /\ gpc = "each"
          /\ \E o \in pending : pending' = pending \ {o}
          /\ UNCHANGED <<gpc, owner, children, child, missed>>
       \/ /\ gpc = "cascade"
          /\ missed' = missed \cup Uids(ChildrenOf(owner))
          /\ gpc' = "each" /\ owner' = 0
          /\ UNCHANGED <<pending, children, child>>
       \/ /\ gpc \in {"mark", "write"}
          /\ \E k \in children :
              /\ gpc = "write" => k = child.key
              /\ children' = children \ {k}
              /\ missed' = missed \cup Uids({k})
          /\ gpc' = "mark" /\ child' = Gone
          /\ UNCHANGED <<pending, owner>>
    /\ UNCHANGED <<objects, clientVars, collected>>

\* The process crashes, or is stopped: nothing remembers whose children were to follow.
Crashes ==
    /\ gcFaults < MaxGCFaults
    /\ gcFaults' = gcFaults + 1
    /\ missed' = missed \cup Uids(IF gpc = "cascade" THEN ChildrenOf(owner) ELSE children)
    /\ gpc' = "list" /\ pending' = {} /\ owner' = 0 /\ children' = {} /\ child' = Gone
    /\ UNCHANGED <<objects, clientVars, collected>>

-----------------------------------------------------------------------------

CollectorStep ==
    \/ ListPendingDeletion \/ PassEnds \/ ListByOwnerUID \/ MarkWrites \/ CascadeEnds
    \/ \E o \in pending : Skips(o) \/ HardDeletes(o)
    \/ \E k \in children : MarkReads(k)

GCNext ==
    \/ CollectorStep \/ CallFails \/ Crashes
    \/ ClientWrites
    \/ \E k \in ObjectKey : ClientCreates(k) \/ ClientReads(k) \/ ClientDeletes(k)

\* The ticker starts pass after pass.
GCFairness == WF_gcVars(CollectorStep)

GCSpec == GCInit /\ [][GCNext]_gcVars /\ GCFairness

-----------------------------------------------------------------------------
(* What the collector promises.                                            *)

\* A cascade forgets no child: an object whose owner the collector has deleted is
\* marked, or about to be.  The exceptions are what the code gives up on: a crash or a
\* failed call between the owner's deletion and the mark, and an object a client
\* stores after its owner is gone.
NoOrphans ==
    \A k \in ObjectKey :
        LET o == objects[k]
        IN  Present(k) /\ o.owner \in collected =>
                \/ o.deleted
                \/ o.uid \in missed
                \/ owner = o.owner /\ (gpc = "cascade" \/ k \in children)

\* What is marked and has no finalizers is collected: it does not stay for ever,
\* whatever else is pending, whatever failed and whenever the process crashed.
MarkedIsCollected ==
    \A k \in ObjectKey : []<>~(objects[k].deleted /\ ~objects[k].fin)
==============================================================================
