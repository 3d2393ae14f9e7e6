------------------------------- MODULE Informer -------------------------------
(***************************************************************************)
(* informer.SharedInformer with its Indexer (src/internal/informer/        *)
(* shared.go, indexer.go): the goroutine of Run, which lists, tells the    *)
(* handlers and then dispatches events, and callers of AddEventHandler at  *)
(* any time.  An object is the number of the event that brought it, 1 for  *)
(* the initial list; what a handler makes of its callbacks is the object   *)
(* it believes to be current under each key.                               *)
(***************************************************************************)
EXTENDS Naturals

CONSTANTS
    ObjKey,         \* what the KeyFunc tells apart
    Handler,
    MaxEvents       \* bound: events of the watch

ASSUME InformerAssumption == MaxEvents \in Nat

VARIABLES
    indexed,    \* indexer.items, 0 for no object
    handlers,   \* s.handlers
    synced,     \* s.synced
    infpc,      \* where Run is
    event,      \* the event dispatch is at
    toCall,     \* the callbacks of the initial list or of the event that are still to be made
    replay,     \* the objects each AddEventHandler has still to call OnAdd for
    view,       \* what each handler has been told
    events,     \* events received
    behind      \* history: the keys each handler was told less of than the cache has

informerVars ==
    <<indexed, handlers, synced, infpc, event, toCall, replay, view, events, behind>>

NoObject == 0
Initial == 1
NothingKnown == [k \in ObjKey |-> NoObject]
NoEvent == [type |-> "none", key |-> "none", obj |-> NoObject, old |-> NoObject]

InformerInit ==
    /\ indexed = NothingKnown
    /\ handlers = {}
    /\ synced = FALSE
    /\ infpc = "new"
    /\ event = NoEvent
    /\ toCall = {}
    /\ replay = [h \in Handler |-> NothingKnown]
    /\ view = [h \in Handler |-> NothingKnown]
    /\ events = 0
    /\ behind = {}

-----------------------------------------------------------------------------
(* AddEventHandler.                                                        *)

\* Under s.mu the handler joins and the cache is read.
AddEventHandler(h) ==
    /\ h \notin handlers
    /\ handlers' = handlers \cup {h}
    /\ replay' = [replay EXCEPT ![h] = IF synced THEN indexed ELSE NothingKnown]
    /\ behind' = IF infpc # "initial" THEN behind
                 ELSE behind \cup ({k \in ObjKey : indexed[k] # NoObject} \X {h})
    /\ UNCHANGED <<indexed, synced, infpc, event, toCall, view, events>>

\* One OnAdd of the replay, with s.mu released.
Replays(h, k) ==
    /\ replay[h][k] # NoObject
    /\ view' = [view EXCEPT ![h][k] = replay[h][k]]
    /\ replay' = [replay EXCEPT ![h][k] = NoObject]
    /\ UNCHANGED <<indexed, handlers, synced, infpc, event, toCall, events, behind>>

-----------------------------------------------------------------------------
(* Run.                                                                    *)

\* List, the objects it returns indexed, and the copy of s.handlers.
Lists ==
    /\ infpc = "new"
    /\ \E K \in SUBSET ObjKey :
        /\ indexed' = [k \in ObjKey |-> IF k \in K THEN Initial ELSE NoObject]
        /\ toCall' = K \X handlers
    /\ infpc' = "initial"
    /\ UNCHANGED <<handlers, synced, event, replay, view, events, behind>>

TellsInitial(k, h) ==
    /\ infpc = "initial" /\ <<k, h>> \in toCall
    /\ view' = [view EXCEPT ![h][k] = Initial]
    /\ toCall' = toCall \ {<<k, h>>}
    /\ UNCHANGED <<indexed, handlers, synced, infpc, event, replay, events, behind>>

\* The cache is synced, and the Watch begins.
Syncs ==
    /\ infpc = "initial" /\ toCall = {}
    /\ synced' = TRUE
    /\ infpc' = "watch"
    /\ UNCHANGED <<indexed, handlers, event, toCall, replay, view, events, behind>>

\* The first half of dispatch: an event reaches the cache.  What changed between List
\* and Watch is not in the cache, so an event need not fit what is there.
Receives(type, k) ==
    /\ infpc = "watch"
    /\ events < MaxEvents
    /\ events' = events + 1
    /\ LET new == IF type = "Delete" THEN NoObject ELSE Initial + events'
       IN  /\ event' = [type |-> type, key |-> k, obj |-> new, old |-> indexed[k]]
           /\ indexed' = [indexed EXCEPT ![k] = new]
    /\ infpc' = "received"
    /\ UNCHANGED <<handlers, synced, toCall, replay, view, behind>>

\* Then the copy of s.handlers.
CopiesHandlers ==
    /\ infpc = "received"
    /\ toCall' = {event.key} \X handlers
    /\ infpc' = "dispatch"
    /\ UNCHANGED <<indexed, handlers, synced, event, replay, view, events, behind>>

\* Mutant: an update of an object the cache did not have calls nobody.
TellsTransition(h) ==
    /\ infpc = "dispatch" /\ <<event.key, h>> \in toCall
    /\ view' = IF event.type = "Update" /\ event.old = NoObject THEN view
               ELSE [view EXCEPT ![h][event.key] = event.obj]
    /\ behind' = IF replay[h][event.key] \notin {NoObject, event.obj}
                 THEN behind \cup {<<event.key, h>>} ELSE behind \ {<<event.key, h>>}
    /\ toCall' = toCall \ {<<event.key, h>>}
    /\ UNCHANGED <<indexed, handlers, synced, infpc, event, replay, events>>

\* OnAdd, OnUpdate or OnDelete of one handler.
Tells(h) ==
    /\ infpc = "dispatch" /\ <<event.key, h>> \in toCall
    /\ view' = [view EXCEPT ![h][event.key] = event.obj]
    /\ behind' = IF replay[h][event.key] \notin {NoObject, event.obj}
                 THEN behind \cup {<<event.key, h>>} ELSE behind \ {<<event.key, h>>}
    /\ toCall' = toCall \ {<<event.key, h>>}
    /\ UNCHANGED <<indexed, handlers, synced, infpc, event, replay, events>>

Dispatched ==
    /\ infpc = "dispatch" /\ toCall = {}
    /\ infpc' = "watch"
    /\ event' = NoEvent
    /\ UNCHANGED <<indexed, handlers, synced, toCall, replay, view, events, behind>>

\* The List or the Watch fails, the context is done or the channel closes.
RunReturns ==
    /\ infpc \in {"new", "watch"}
    /\ infpc' = "off"
    /\ UNCHANGED <<indexed, handlers, synced, event, toCall, replay, view, events, behind>>

InformerNext ==
    \/ \E h \in Handler :
        AddEventHandler(h) \/ Tells(h) \/ \E k \in ObjKey : Replays(h, k) \/ TellsInitial(k, h)
    \/ Lists \/ Syncs \/ CopiesHandlers \/ Dispatched \/ RunReturns
    \/ \E type \in {"Add", "Update", "Delete"}, k \in ObjKey : Receives(type, k)

InformerSpec == InformerInit /\ [][InformerNext]_informerVars

-----------------------------------------------------------------------------
(* What the informer promises.                                             *)

\* Between events a handler that has been replayed to knows the cache, whenever it was
\* added.  The exceptions are the objects of the initial list for a handler that was
\* added while the others were told of them, as it is neither told nor replayed to, and
\* a key whose event overtook the handler's replay of an older object; both until the
\* key's next event.
HandlersKnowTheCache ==
    synced /\ infpc \in {"watch", "off"} =>
        \A h \in handlers, k \in ObjKey :
            replay[h][k] = NoObject /\ <<k, h>> \notin behind => view[h][k] = indexed[k]
==============================================================================
