---------------------------- MODULE BlockingQuery ----------------------------
(***************************************************************************)
(* The long poll of src/internal/blocking/notifier.go: Notifier.NotifyAll, *)
(* Notifier.Wait and the BlockingQuery loop around it.  A query answers    *)
(* with the index its data is stamped with; writers stamp what they wrote  *)
(* with the index NotifyAll has returned, so a query can lag behind.       *)
(***************************************************************************)
EXTENDS Naturals

CONSTANTS
    Poller,
    MaxIndex        \* bound: values of the index

VARIABLES
    index,          \* n.index
    stamped,        \* the index of the newest stamped data
    poll            \* the BlockingQuery each poller is in

pollVars == <<index, stamped, poll>>

\* pc "locked" is about to take n.mu in Wait, "asleep" in cond.Wait, "awake" has been
\* signalled; timed is maxWait > 0, due that maxWait is over, fired is timerFired.
Poll ==
    [pc : {"query", "locked", "asleep", "awake", "returned"},
     minIndex : 0..MaxIndex, idx : 0..MaxIndex,
     timed : BOOLEAN, due : BOOLEAN, fired : BOOLEAN, cancelled : BOOLEAN]

NewPoll(min, timed) ==
    [pc |-> "query", minIndex |-> min, idx |-> 0, timed |-> timed, due |-> FALSE,
     fired |-> FALSE, cancelled |-> FALSE]

PollInit ==
    /\ index = 1 /\ stamped = 1
    /\ poll = [p \in Poller |-> [NewPoll(0, FALSE) EXCEPT !.pc = "returned"]]

Is(p, pc) == poll[p].pc = pc

\* cond.Broadcast
Woken(ps) ==
    [p \in Poller |-> IF ps[p].pc = "asleep" THEN [ps[p] EXCEPT !.pc = "awake"] ELSE ps[p]]

\* The client asks for what is newer than the index it was given last.
Ask(p) ==
    /\ Is(p, "returned")
    /\ \E timed \in BOOLEAN :
        poll' = [poll EXCEPT ![p] = NewPoll(IF @.idx = 0 THEN stamped ELSE @.idx, timed)]
    /\ UNCHANGED <<index, stamped>>

\* Mutant: the index moves and nobody is woken.
NotifyAllSilent ==
    /\ index < MaxIndex
    /\ index' = index + 1
    /\ UNCHANGED <<stamped, poll>>

NotifyAll ==
    /\ index < MaxIndex
    /\ index' = index + 1
    /\ poll' = Woken(poll)
    /\ UNCHANGED stamped

Stamp ==
    /\ stamped < index
    /\ stamped' = index
    /\ UNCHANGED <<index, poll>>

\* The query runs; with nothing new and time left, Wait is called with its index.
RunQuery(p) ==
    LET over == stamped > poll[p].minIndex \/ (poll[p].timed /\ poll[p].due)
    IN  /\ Is(p, "query")
        /\ poll' = [poll EXCEPT ![p].idx = stamped,
                                ![p].pc = IF over THEN "returned" ELSE "locked"]
        /\ UNCHANGED <<index, stamped>>

QueryFails(p) ==
    /\ Is(p, "query")
    /\ poll' = [poll EXCEPT ![p].pc = "returned"]
    /\ UNCHANGED <<index, stamped>>

\* Mutant: the loop does not look at timerFired.
WaitLoopUntimed(p) ==
    /\ Is(p, "locked") \/ Is(p, "awake")
    /\ \/ index > poll[p].idx /\ poll' = [poll EXCEPT ![p].pc = "query", ![p].fired = FALSE]
       \/ /\ index <= poll[p].idx
          /\ poll' = [poll EXCEPT ![p].pc = IF poll[p].cancelled THEN "returned" ELSE "asleep"]
    /\ UNCHANGED <<index, stamped>>

\* The loop of Wait, on entry and after each wakeup, under n.mu.  When the index has
\* moved the query runs again, whether or not the context is done.
WaitLoop(p) ==
    /\ Is(p, "locked") \/ Is(p, "awake")
    /\ \/ index > poll[p].idx /\ poll' = [poll EXCEPT ![p].pc = "query", ![p].fired = FALSE]
       \/ /\ index <= poll[p].idx
          /\ poll' = [poll EXCEPT ![p].pc = IF poll[p].cancelled \/ poll[p].fired
                                            THEN "returned" ELSE "asleep"]
    /\ UNCHANGED <<index, stamped>>

InWait(p) == Is(p, "asleep") \/ Is(p, "awake")

\* The timer of Wait sets timerFired and wakes everyone.
TimerWakes(p) ==
    /\ InWait(p) /\ poll[p].timed /\ poll[p].due /\ ~poll[p].fired
    /\ poll' = Woken([poll EXCEPT ![p].fired = TRUE])
    /\ UNCHANGED <<index, stamped>>

\* ctx is done.  The goroutine Wait has parked wakes the condition, at once or, as it
\* takes n.mu, between any two steps.
CancelWakes(p) ==
    /\ InWait(p) /\ poll[p].cancelled
    /\ poll' = Woken(poll)
    /\ UNCHANGED <<index, stamped>>

Cancelled(p) ==
    /\ ~Is(p, "returned") /\ ~poll[p].cancelled
    /\ poll' = [poll EXCEPT ![p].cancelled = TRUE]
    /\ UNCHANGED <<index, stamped>>

DeadlinePassed(p) ==
    /\ ~Is(p, "returned") /\ poll[p].timed /\ ~poll[p].due
    /\ poll' = [poll EXCEPT ![p].due = TRUE]
    /\ UNCHANGED <<index, stamped>>

PollStep(p) == RunQuery(p) \/ WaitLoop(p)

PollNext ==
    \/ NotifyAll \/ Stamp
    \/ \E p \in Poller :
        \/ Ask(p) \/ PollStep(p) \/ QueryFails(p)
        \/ TimerWakes(p) \/ CancelWakes(p) \/ Cancelled(p) \/ DeadlinePassed(p)

\* Goroutines and timers run, and a writer stamps what it wrote.
PollFairness ==
    /\ WF_pollVars(Stamp)
    /\ \A p \in Poller :
        /\ WF_pollVars(PollStep(p))
        /\ WF_pollVars(TimerWakes(p))
        /\ WF_pollVars(CancelWakes(p))

PollSpec == PollInit /\ [][PollNext]_pollVars /\ PollFairness

-----------------------------------------------------------------------------
(* What a blocking query promises.                                         *)

\* Nobody sleeps through a change or the end of its own time: who is parked in cond.Wait
\* has been given the newest data.  And no answer takes a client's index back.
SleepersAreCurrent ==
    \A p \in Poller :
        /\ Is(p, "asleep") => poll[p].idx = index /\ stamped = index /\ ~poll[p].fired
        /\ poll[p].idx # 0 => poll[p].minIndex <= poll[p].idx /\ poll[p].idx <= stamped

\* A change is delivered to every poller that asked for it, however its NotifyAll
\* falls between the poller's query, its Wait and its wakeups.
ChangeIsDelivered ==
    \A p \in Poller :
        (~Is(p, "returned") /\ stamped > poll[p].minIndex) ~> Is(p, "returned")

\* A query returns when its context is done or its time is over, also when nothing is
\* ever written again.
QueryReturns ==
    \A p \in Poller :
        (~Is(p, "returned") /\ (poll[p].cancelled \/ (poll[p].timed /\ poll[p].due)))
            ~> Is(p, "returned")
==============================================================================
