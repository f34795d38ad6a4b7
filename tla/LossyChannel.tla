---------------------------- MODULE LossyChannel ----------------------------
(***************************************************************************)
(* What the services may expect of the relay transport: the events handed  *)
(* to send_event are numbered 1, 2, ... in the order of the calls; each    *)
(* reaches the relay once or is lost, and those that reach it come in that *)
(* order.                                                                  *)
(***************************************************************************)
EXTENDS Naturals, Sequences

CONSTANT MaxEvents  \* bound: events handed in

VARIABLES
    offered,   \* how many events were handed in
    transit,   \* those that are neither lost nor received
    received   \* those the relay has received, in the order it did

vars == << offered, transit, received >>

Init ==
    /\ offered = 0
    /\ transit = {}
    /\ received = << >>

Offer ==
    /\ offered < MaxEvents
    /\ offered' = offered + 1
    /\ transit' \in SUBSET (transit \cup {offered'})
    /\ UNCHANGED received

Lose ==
    /\ transit' \in SUBSET transit
    /\ UNCHANGED << offered, received >>

\* The oldest of those on the way arrives.
Receive ==
    \E e \in transit :
        /\ \A later \in transit : e <= later
        /\ received' = Append(received, e)
        /\ transit' = transit \ {e}
        /\ UNCHANGED offered

Next == Offer \/ Lose \/ Receive

Spec == Init /\ [][Next]_vars
=============================================================================
