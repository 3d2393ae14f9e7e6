---------------------------- MODULE ResourceStore ----------------------------
(***************************************************************************)
(* store.ResourceStore[T] as EtcdStore implements it                       *)
(* (src/internal/platform/store/resource_store.go), with the one watch     *)
(* channel of the controller of that Kind.                                 *)
(*                                                                         *)
(* An object is the version of its spec: 0 is an absent object.  A write   *)
(* of the store and the emission of its watch event are two steps, between *)
(* which any other goroutine may run: the caller keeps a program counter   *)
(* between them.                                                           *)
(***************************************************************************)
EXTENDS Naturals, Sequences

CONSTANTS
    Key,            \* the resource keys
    ChanCap         \* capacity of a watch channel (64 in the code)

VARIABLES
    desired,        \* the spec version stored under each key, 0 if absent
    watching,       \* the controller's channel is in s.watchers
    events          \* the watch channel: the keys of the buffered events

storeVars == <<desired, watching, events>>

StoreTypeOK ==
    /\ desired \in [Key -> Nat]
    /\ watching \in BOOLEAN
    /\ events \in Seq(Key)
    /\ Len(events) <= ChanCap

Present(k) == desired[k] # 0

\* Put makes v the object stored under k: the etcd transaction of a Create
\* that found no object, and every Update, which neither compares versions
\* nor asks for the object to exist.
Put(k, v) ==
    /\ desired' = [desired EXCEPT ![k] = v]
    /\ UNCHANGED <<watching, events>>

Erase(k) ==
    /\ desired' = [desired EXCEPT ![k] = 0]
    /\ UNCHANGED <<watching, events>>

\* Mutant: an off-by-one in the capacity of the channel.
DeliversOneMore == watching /\ Len(events) <= ChanCap

\* A send on the watch channel would find room.
Delivers == watching /\ Len(events) < ChanCap

\* emit sends without blocking: no watcher, or a full buffer, loses the event.
Emit(k) ==
    /\ events' = IF Delivers THEN Append(events, k) ELSE events
    /\ UNCHANGED <<desired, watching>>

\* Watch registers the channel with the store.
Subscribe ==
    /\ watching' = TRUE
    /\ UNCHANGED <<desired, events>>

\* The goroutine Watch starts removes the channel once the context is done.
Unsubscribe ==
    /\ watching
    /\ watching' = FALSE
    /\ UNCHANGED <<desired, events>>

\* The watcher takes the oldest event.
Receive(k) ==
    /\ events # <<>>
    /\ k = Head(events)
    /\ events' = Tail(events)
    /\ UNCHANGED <<desired, watching>>
==============================================================================
