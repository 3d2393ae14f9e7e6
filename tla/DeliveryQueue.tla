---------------------------- MODULE DeliveryQueue ----------------------------
(***************************************************************************)
(* What a queue with acknowledgements promises, whatever keeps its items:  *)
(* an item that was accepted is handed out any number of times, also to    *)
(* several workers at once, and leaves the open queue only when a worker   *)
(* that has it in hand settles it.  EvalBroker implements it.              *)
(***************************************************************************)
CONSTANTS Item, Taker, Nothing

VARIABLES
    work,       \* the items the queue has to see done
    hand,       \* the item each taker has in hand
    open

queueState == <<work, hand, open>>

Init ==
    /\ work = {}
    /\ hand = [t \in Taker |-> Nothing]
    /\ open = TRUE

Accept(i) ==
    /\ open
    /\ work' = work \cup {i}
    /\ UNCHANGED <<hand, open>>

HandOut(t, i) ==
    /\ open
    /\ hand[t] = Nothing
    /\ i \in work
    /\ hand' = [hand EXCEPT ![t] = i]
    /\ UNCHANGED <<work, open>>

\* The work goes on with another taker, or was settled by one already.
GiveBack(t) ==
    /\ hand[t] # Nothing
    /\ hand' = [hand EXCEPT ![t] = Nothing]
    /\ UNCHANGED <<work, open>>

Settle(t) ==
    /\ hand[t] # Nothing
    /\ work' = work \ {hand[t]}
    /\ hand' = [hand EXCEPT ![t] = Nothing]
    /\ UNCHANGED open

Shut ==
    /\ open' = FALSE
    /\ UNCHANGED <<work, hand>>

\* A closed queue accepts nothing back.
Drop ==
    /\ ~open
    /\ work' \in SUBSET work
    /\ UNCHANGED <<hand, open>>

Next ==
    \/ \E i \in Item : Accept(i)
    \/ \E t \in Taker : GiveBack(t) \/ Settle(t) \/ \E i \in Item : HandOut(t, i)
    \/ Shut \/ Drop

Spec == Init /\ [][Next]_queueState
==============================================================================
