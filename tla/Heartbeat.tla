------------------------------ MODULE Heartbeat ------------------------------
(***************************************************************************)
(* heartbeat.Tracker (src/internal/heartbeat/tracker.go): a deadline per   *)
(* entity, and a goroutine that reaps the deadlines that have passed.  It  *)
(* removes them under t.mu and calls OnExpire after it has let go of it.   *)
(* A deadline is kept as whether it has passed.                            *)
(***************************************************************************)
EXTENDS Naturals

CONSTANTS
    Entity,
    MaxRegistrations    \* bound: registrations of an entity

ASSUME HeartbeatAssumption == MaxRegistrations \in Nat

VARIABLES
    deadlines,      \* t.deadlines: "none", "ahead" or "passed"
    listed,         \* how often each entity is in t.expired
    trackerpc,      \* what the reaper is at
    untold,         \* the entities it has still to call OnExpire for
    stopping,       \* t.stopCh is closed
    registered,     \* history: times an entity was set when it had no deadline
    told,           \* history: times OnExpire was called for it
    dropped         \* history: times it was deleted with a deadline

trackerVars == <<deadlines, listed, trackerpc, untold, stopping, registered, told, dropped>>

TrackerInit ==
    /\ deadlines = [i \in Entity |-> "none"]
    /\ listed = [i \in Entity |-> 0]
    /\ trackerpc = "new"
    /\ untold = {}
    /\ stopping = FALSE
    /\ registered = [i \in Entity |-> 0]
    /\ told = [i \in Entity |-> 0]
    /\ dropped = [i \in Entity |-> 0]

\* t.started stays set: a second Start panics.
StartTracker ==
    /\ trackerpc = "new"
    /\ trackerpc' = "tick"
    /\ UNCHANGED <<deadlines, listed, untold, stopping, registered, told, dropped>>

\* A tracker that is stopped before it is started cannot be started any more.
StopTracker ==
    /\ IF trackerpc = "new" THEN trackerpc' = "off" /\ UNCHANGED stopping
       ELSE stopping' = (trackerpc # "off") /\ UNCHANGED trackerpc
    /\ UNCHANGED <<deadlines, listed, untold, registered, told, dropped>>

\* Set and Beat: a deadline that has passed and was not reaped is renewed.
Beat(i) ==
    /\ deadlines[i] = "none" => registered[i] < MaxRegistrations
    /\ deadlines' = [deadlines EXCEPT ![i] = "ahead"]
    /\ registered' = [registered EXCEPT ![i] = IF deadlines[i] = "none" THEN @ + 1 ELSE @]
    /\ UNCHANGED <<listed, trackerpc, untold, stopping, told, dropped>>

Delete(i) ==
    /\ deadlines' = [deadlines EXCEPT ![i] = "none"]
    /\ dropped' = [dropped EXCEPT ![i] = IF deadlines[i] = "none" THEN @ ELSE @ + 1]
    /\ UNCHANGED <<listed, trackerpc, untold, stopping, registered, told>>

TTLPasses(i) ==
    /\ deadlines[i] = "ahead"
    /\ deadlines' = [deadlines EXCEPT ![i] = "passed"]
    /\ UNCHANGED <<listed, trackerpc, untold, stopping, registered, told, dropped>>

\* Expired hands out the list and clears it.
Expired ==
    /\ listed' = [i \in Entity |-> 0]
    /\ UNCHANGED <<deadlines, trackerpc, untold, stopping, registered, told, dropped>>

\* Mutant: the deadlines that have passed stay in the map.
ReapListsOnly(Overdue) ==
    /\ UNCHANGED deadlines
    /\ listed' = [i \in Entity |-> IF i \in Overdue THEN listed[i] + 1 ELSE listed[i]]

\* The critical section of reap.
ReapOverdue(Overdue) ==
    /\ deadlines' = [i \in Entity |-> IF i \in Overdue THEN "none" ELSE deadlines[i]]
    /\ listed' = [i \in Entity |-> IF i \in Overdue THEN listed[i] + 1 ELSE listed[i]]

\* A tick.  The time is read before the mutex is taken: a deadline that passes in between
\* is left for the next one.
Reap ==
    LET passed == {i \in Entity : deadlines[i] = "passed"}
    IN  /\ trackerpc = "tick"
        /\ passed # {}
        /\ ReapOverdue(passed)
        /\ untold' = passed
        /\ trackerpc' = "call"
        /\ UNCHANGED <<stopping, registered, told, dropped>>

\* Mutant: a timer that fires once in place of the ticker.
OnExpireOnce ==
    /\ trackerpc = "call"
    /\ \E i \in untold :
        /\ told' = [told EXCEPT ![i] = @ + 1]
        /\ untold' = untold \ {i}
    /\ trackerpc' = IF untold' = {} THEN "off" ELSE "call"
    /\ UNCHANGED <<deadlines, listed, stopping, registered, dropped>>

OnExpire ==
    /\ trackerpc = "call"
    /\ \E i \in untold :
        /\ told' = [told EXCEPT ![i] = @ + 1]
        /\ untold' = untold \ {i}
    /\ trackerpc' = IF untold' = {} THEN "tick" ELSE "call"
    /\ UNCHANGED <<deadlines, listed, stopping, registered, dropped>>

LoopReturns ==
    /\ trackerpc = "tick" /\ stopping
    /\ trackerpc' = "off"
    /\ UNCHANGED <<deadlines, listed, untold, stopping, registered, told, dropped>>

ReaperStep == Reap \/ OnExpire \/ LoopReturns

TrackerNext ==
    \/ StartTracker \/ StopTracker \/ Expired \/ ReaperStep
    \/ \E i \in Entity : Beat(i) \/ Delete(i) \/ TTLPasses(i)

\* The reaper's goroutine runs, and OnExpire returns.
TrackerFairness == WF_trackerVars(ReaperStep)

TrackerSpec == TrackerInit /\ [][TrackerNext]_trackerVars /\ TrackerFairness

-----------------------------------------------------------------------------

\* One registration, one report: each ends in one call of OnExpire or one deregistration,
\* or has a deadline or a call yet to come, however beats, ticks, calls and
\* deregistrations are interleaved; none is reported twice and none is lost.
OneReportPerRegistration ==
    \A i \in Entity :
        registered[i] = told[i] + dropped[i] + (IF i \in untold THEN 1 ELSE 0)
                            + (IF deadlines[i] # "none" THEN 1 ELSE 0)

\* The silent are reported: an entity whose deadline has passed beats again, is
\* deregistered or has OnExpire called for it, unless the tracker is stopped.
SilentIsReported ==
    \A i \in Entity, n \in 0..MaxRegistrations :
        (deadlines[i] = "passed" /\ trackerpc \in {"tick", "call"} /\ told[i] + dropped[i] = n) ~>
            (deadlines[i] = "ahead" \/ stopping \/ told[i] + dropped[i] > n)
==============================================================================
