------------------------------- MODULE RaftFSM -------------------------------
(***************************************************************************)
(* The state machine each replica of the Raft-backed store runs            *)
(* (src/internal/platform/raft/fsm.go), with the writes that the key-value *)
(* store makes beside it (src/internal/platform/store/kvstore.go).         *)
(*                                                                         *)
(* The log is external: commands are committed in one order, and each      *)
(* replica applies a prefix of it.  A row is known by the index of the     *)
(* command that wrote it.                                                  *)
(***************************************************************************)
EXTENDS Naturals, Sequences, FiniteSets

CONSTANTS
    Replica,
    ResourceKey,    \* keys of the resource tables
    KVKey,          \* keys of the _kv table
    MaxLog          \* bound: commands committed

ASSUME RaftFSMAssumption == ResourceKey \cap KVKey = {} /\ MaxLog \in Nat

RowKey == ResourceKey \cup KVKey

VARIABLES
    log,            \* committed commands
    rows,           \* the go-memdb tables of each replica
    applied,        \* the index each replica has applied
    snap,           \* the latest snapshot each replica has stored
    hasTTL,         \* keys whose row has ExpiresAt set on a replica
    setTTL,         \* calls of PutWithTTL that have yet to set it
    deviates        \* history: keys a replica has by other means than its log

fsmVars == <<log, rows, applied, snap, hasTTL, setTTL, deviates>>

Absent == 0
LocalRow == MaxLog + 1      \* a row written by CAS
Garbled == MaxLog + 2       \* a row whose value is not the one that was stored

Empty == [k \in RowKey |-> Absent]

FSMInit ==
    /\ log = <<>>
    /\ rows = [r \in Replica |-> Empty]
    /\ applied = [r \in Replica |-> 0]
    /\ snap = [r \in Replica |-> [index |-> 0, rows |-> Empty, deviates |-> {}]]
    /\ hasTTL = [r \in Replica |-> {}]
    /\ setTTL = {}
    /\ deviates = [r \in Replica |-> {}]

-----------------------------------------------------------------------------
(* Commands.                                                               *)

CommandType == {"create", "update", "delete"}

\* server.Apply: the command is committed.  It may be applied anywhere later.
Commit(type, k) ==
    /\ Len(log) < MaxLog
    /\ k \in KVKey => type # "create"
    /\ log' = Append(log, [type |-> type, key |-> k])
    /\ UNCHANGED <<rows, applied, snap, hasTTL, setTTL, deviates>>

\* putInternal with an expiry: when its Apply has returned, the leader sets it.
PutWithTTL(r, k) ==
    /\ Len(log) < MaxLog
    /\ log' = Append(log, [type |-> "update", key |-> k])
    /\ setTTL' = setTTL \cup {[replica |-> r, key |-> k, index |-> Len(log) + 1]}
    /\ UNCHANGED <<rows, applied, snap, hasTTL, deviates>>

\* Mutant: a create replaces the row that is there.
AppliedOverwrites(cmd, i, row) == IF cmd.type = "delete" THEN Absent ELSE i

\* The row of cmd's key after the command at index i: a create of a row that is there
\* conflicts, a delete of one that is not is none.
Applied(cmd, i, row) ==
    CASE cmd.type = "create" -> IF row = Absent THEN i ELSE row
      [] cmd.type = "update" -> i
      [] cmd.type = "delete" -> Absent

Apply(r) ==
    LET i == applied[r] + 1
        cmd == log[i]
        row == Applied(cmd, i, rows[r][cmd.key])
    IN  /\ applied[r] < Len(log)
        /\ rows' = [rows EXCEPT ![r][cmd.key] = row]
        /\ applied' = [applied EXCEPT ![r] = i]
        /\ hasTTL' = [hasTTL EXCEPT ![r] = IF row = i \/ row = Absent THEN @ \ {cmd.key} ELSE @]
        /\ deviates' = [deviates EXCEPT ![r] =
                          IF cmd.type = "create" THEN @ ELSE @ \ {cmd.key}]
        /\ UNCHANGED <<log, snap, setTTL>>

-----------------------------------------------------------------------------
(* Snapshots.                                                              *)

\* The rows that are *kvEntry and not *kvFSMEntry.
LocalEntries(r) == hasTTL[r] \cup {k \in KVKey : rows[r][k] = LocalRow}

\* A *kvEntry goes through JSON, and the base64 of its Data is stored for its Data.
\* Values are JSON here: with another one among them Persist fails, and the snapshot
\* stays the old one.
Snapshot(r) ==
    /\ snap' = [snap EXCEPT ![r] =
                  [index |-> applied[r],
                   rows |-> [k \in RowKey |-> IF k \in LocalEntries(r) THEN Garbled ELSE rows[r][k]],
                   deviates |-> deviates[r] \cup LocalEntries(r)]]
    /\ UNCHANGED <<log, rows, applied, hasTTL, setTTL, deviates>>

\* Restore inserts the rows of the snapshot into the tables as they are.
Restored(old, new) == [k \in RowKey |-> IF new[k] = Absent THEN old[k] ELSE new[k]]

\* A row the snapshot does not replace stays.
LeftOver(r, s) == {k \in RowKey : s.rows[k] = Absent /\ rows[r][k] # Absent}

\* A follower that is behind what the leader's log still holds is sent its snapshot.
InstallSnapshot(l, r) ==
    /\ snap[l].index > applied[r]
    /\ rows' = [rows EXCEPT ![r] = Restored(@, snap[l].rows)]
    /\ applied' = [applied EXCEPT ![r] = snap[l].index]
    /\ snap' = [snap EXCEPT ![r] = snap[l]]
    /\ hasTTL' = [hasTTL EXCEPT ![r] = @ \cap LeftOver(r, snap[l])]
    /\ deviates' = [deviates EXCEPT ![r] = snap[l].deviates \cup LeftOver(r, snap[l])]
    /\ UNCHANGED <<log, setTTL>>

\* Mutant: a restart takes the log to be applied as far as it was.
RestartsAhead(r) ==
    /\ rows' = [rows EXCEPT ![r] = Restored(Empty, snap[r].rows)]
    /\ hasTTL' = [hasTTL EXCEPT ![r] = {}]
    /\ setTTL' = {c \in setTTL : c.replica # r}
    /\ deviates' = [deviates EXCEPT ![r] = snap[r].deviates]
    /\ UNCHANGED <<log, applied, snap>>

\* A crash, and the start over new tables: the snapshot, then the log after it.
Restarts(r) ==
    /\ rows' = [rows EXCEPT ![r] = Restored(Empty, snap[r].rows)]
    /\ applied' = [applied EXCEPT ![r] = snap[r].index]
    /\ hasTTL' = [hasTTL EXCEPT ![r] = {}]
    /\ setTTL' = {c \in setTTL : c.replica # r}
    /\ deviates' = [deviates EXCEPT ![r] = snap[r].deviates]
    /\ UNCHANGED <<log, snap>>

-----------------------------------------------------------------------------
(* Writes to the _kv table of one replica that are not in the log.         *)

SetTTL(c) ==
    /\ applied[c.replica] >= c.index
    /\ setTTL' = setTTL \ {c}
    /\ hasTTL' = [hasTTL EXCEPT ![c.replica] =
                    IF rows[c.replica][c.key] = Absent THEN @ ELSE @ \cup {c.key}]
    /\ UNCHANGED <<log, rows, applied, snap, deviates>>

ReapExpired(r) ==
    /\ \E K \in (SUBSET hasTTL[r]) \ {{}} :
        /\ rows' = [rows EXCEPT ![r] = [k \in RowKey |-> IF k \in K THEN Absent ELSE @[k]]]
        /\ hasTTL' = [hasTTL EXCEPT ![r] = @ \ K]
        /\ deviates' = [deviates EXCEPT ![r] = @ \cup K]
    /\ UNCHANGED <<log, applied, snap, setTTL>>

\* An expired row counts as absent.
CAS(r, k) ==
    /\ rows[r][k] = Absent \/ k \in hasTTL[r]
    /\ rows' = [rows EXCEPT ![r][k] = LocalRow]
    /\ hasTTL' = [hasTTL EXCEPT ![r] = @ \ {k}]
    /\ deviates' = [deviates EXCEPT ![r] = @ \cup {k}]
    /\ UNCHANGED <<log, applied, snap, setTTL>>

-----------------------------------------------------------------------------

FSMNext ==
    \/ \E type \in CommandType, k \in RowKey : Commit(type, k)
    \/ \E r \in Replica :
        \/ Apply(r) \/ Snapshot(r) \/ Restarts(r) \/ ReapExpired(r)
        \/ \E l \in Replica \ {r} : InstallSnapshot(l, r)
        \/ \E k \in KVKey : PutWithTTL(r, k) \/ CAS(r, k)
    \/ \E c \in setTTL : SetTTL(c)

FSMSpec == FSMInit /\ [][FSMNext]_fsmVars

-----------------------------------------------------------------------------
(* What the replicated store promises.                                     *)

Commands(k, type, from, to) == {i \in from..to : log[i] = [type |-> type, key |-> k]}

\* The row of k after the first n commands, from the log alone: the last update, or the
\* first create after the last delete, unless an update came in between.
RowAt(k, n) ==
    LET del == {0} \cup Commands(k, "delete", 1, n)
        last == CHOOSE i \in del : \A j \in del : j <= i
        upd == Commands(k, "update", last + 1, n)
        new == Commands(k, "create", last + 1, n)
    IN  CASE upd # {} -> CHOOSE i \in upd : \A j \in upd : j <= i
          [] upd = {} /\ new # {} -> CHOOSE i \in new : \A j \in new : i <= j
          [] upd = {} /\ new = {} -> Absent

\* A replica has the rows that its prefix of the log gives it, through every crash,
\* snapshot, restart and replay; except the keys it has written by itself, those that a
\* snapshot installed on a running replica did not clear, and values with a TTL that
\* came out of a snapshot.
FollowsLog ==
    \A r \in Replica, k \in RowKey :
        k \notin deviates[r] => rows[r][k] = RowAt(k, applied[r])

\* Replicas that have applied the same commands have the same resources.
ReplicasAgree ==
    \A q, r \in Replica, k \in ResourceKey :
        applied[q] = applied[r] => rows[q][k] = rows[r][k]
==============================================================================
