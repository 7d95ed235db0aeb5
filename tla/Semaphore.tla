------------------------------ MODULE Semaphore ------------------------------
(* What work admission promises: no more than `Permits` workers of one        *)
(* organization and one kind are at work together.                            *)
EXTENDS Naturals, FiniteSets

CONSTANTS Work,     \* the workers
          Permits   \* how many may be at work together

VARIABLE inside     \* the workers at work

Init == inside = {}

Enter(w) ==
    /\ w \notin inside
    /\ Cardinality(inside) < Permits
    /\ inside' = inside \cup {w}

Leave(w) ==
    /\ w \in inside
    /\ inside' = inside \ {w}

Next == \E w \in Work : Enter(w) \/ Leave(w)

Spec == Init /\ [][Next]_inside
==============================================================================
