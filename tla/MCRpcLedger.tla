---------------------------- MODULE MCRpcLedger ----------------------------
(* Small instances of RpcLedger. *)
EXTENDS RpcLedger, TLC

CONSTANTS p1, p2, admin, treasury, zero, alice

\* The admin and the treasury are funded by genesis, alice as the EVM user.
MCInitialDb ==
    [a \in Addr |-> [t \in Token |->
        IF t = "GORR" THEN CASE a = treasury -> 6 [] a = alice -> 4 [] a = admin -> 2
                             [] OTHER -> 0
        ELSE IF a = alice THEN 4 ELSE 0]]

\* The same, with something on the zero address for a forced transfer.
MCInitialDbZero ==
    [MCInitialDb EXCEPT ![zero]["GORR"] = 4]

\* Some fees were collected before, and the rate set then was stored with them.
MCInitialMeta == [bps |-> 2500, fees |-> [t \in Token |-> IF t = "GORR" THEN 2 ELSE 0]]

\* An amount below zero, zero, one, and one beyond int64 in base units.
MCAmounts == {-1, 0, 1, 3}

\* Fee rates up to 100%.
MCRates == {0, 2500, 10000}

MCAllMethods == Method
MCEth == {"ethSendRaw"}

Symmetry == Permutations(Procs)
=============================================================================
