---------------------------- MODULE MCEventBus ----------------------------
(* Small instances of EventBus with one request goroutine, enough because *)
(* an emission is one step.                                                *)
EXTENDS EventBus, TLC

CONSTANTS h1, c1, c2

\* Two events of one topic among any number of events of the other.
MCNumbered == [t \in Topic |-> IF t = "block" THEN 2 ELSE 0]

\* Connections are interchangeable; used where no liveness is checked.
Symmetry == Permutations(Clients)
=============================================================================
