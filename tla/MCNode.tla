------------------------------- MODULE MCNode -------------------------------
(* A small instance of Node: two requests and the producer. *)
EXTENDS Node, TLC

CONSTANTS p1, p2, admin, treasury, zero, alice

MCInitialDb ==
    [a \in Addr |-> [t \in Token |->
        IF a = alice THEN 80 ELSE 40]]

MCInitialMeta == [bps |-> 0, fees |-> [t \in Token |-> 40]]

\* The two tokens of an account are written as one record.
MCMethods == {"sendTransaction", "sendUSDCc"}

\* A payment with a fee of 1, a transfer to oneself, and one beyond the balance.
MCBlockTxs ==
    {[from |-> alice, to |-> admin, value |-> 40, pays |-> TRUE],
     [from |-> alice, to |-> alice, value |-> 40, pays |-> FALSE],
     [from |-> zero, to |-> alice, value |-> 80, pays |-> FALSE]}

Symmetry == Permutations(Procs)
=============================================================================
