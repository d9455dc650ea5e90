-------------------------- MODULE RefreshContract --------------------------
(***************************************************************************)
(* What the store promises a surface about Store::refresh, for a target    *)
(* nobody cancels: asking while a refresh is under way joins it, one fetch *)
(* runs at a time, and an accepted request is fetched and then lands.  The *)
(* Store trait and StoreEvent (omaghy-store) word it; Refresh.tla is shown *)
(* to implement it.                                                        *)
(***************************************************************************)
CONSTANT Targets

VARIABLE state \* of each target, as in_flight() and the network show it

Init == state = [t \in Targets |-> "idle"]

\* A request for a target already asked for or being fetched changes nothing.
Accept(t) == /\ state[t] = "idle"
             /\ state' = [state EXCEPT ![t] = "asked"]

Fetch(t) == /\ state[t] = "asked"
            /\ state' = [state EXCEPT ![t] = "fetching"]

Land(t) == /\ state[t] = "fetching"
           /\ state' = [state EXCEPT ![t] = "idle"]

Next == \E t \in Targets : Accept(t) \/ Fetch(t) \/ Land(t)

Spec == Init /\ [][Next]_state

FairSpec == Spec /\ \A t \in Targets : WF_state(Fetch(t)) /\ WF_state(Land(t))
=============================================================================
