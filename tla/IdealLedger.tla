----------------------------- MODULE IdealLedger -----------------------------
(***************************************************************************)
(* What the JSON-RPC ledger promises a client that sends one request at a  *)
(* time: every request either changes nothing or takes effect in one step. *)
(***************************************************************************)
EXTENDS Integers

CONSTANTS
    Addr, Treasury, InitialDb, InitialPot,
    Value     \* amounts in base units, a set of natural numbers

Token == {"GORR", "USDCc"}

VARIABLES
    bal,      \* balances, [Addr -> [Token -> Nat]]
    pot,      \* fees collected and not withdrawn, part of the treasury's balance
    nonces    \* next nonce of each sender of signed transactions

vars == <<bal, pot, nonces>>

Init ==
    /\ bal = InitialDb
    /\ pot = InitialPot
    /\ nonces = [a \in Addr |-> 0]

Post(b, a, t, amt) == [b EXCEPT ![a][t] = @ + amt]

Move(from, to, t, amt) ==
    /\ amt <= bal[from][t]
    /\ bal' = Post(Post(bal, from, t, -amt), to, t, amt)

\* sendTransaction: the sender pays amt, the receiver gets the rest after the fee.
PayWithFee(from, to, amt, fee) ==
    /\ amt <= bal[from]["GORR"] /\ fee <= amt
    /\ bal' = Post(Post(Post(bal, from, "GORR", -amt), to, "GORR", amt - fee),
                   Treasury, "GORR", fee)
    /\ pot' = [pot EXCEPT !["GORR"] = @ + fee]
    /\ UNCHANGED nonces

\* sendUSDCc and forced transfers.
Transfer(from, to, t, amt) == Move(from, to, t, amt) /\ UNCHANGED <<pot, nonces>>

PaySigned(from, to, amt) ==
    /\ amt > 0 /\ Move(from, to, "GORR", amt)
    /\ nonces' = [nonces EXCEPT ![from] = @ + 1]
    /\ UNCHANGED pot

WithdrawFees(to, t, amt) ==
    /\ amt > 0 /\ amt <= pot[t] /\ Move(Treasury, to, t, amt)
    /\ pot' = [pot EXCEPT ![t] = @ - amt]
    /\ UNCHANGED nonces

Mint(to, t, amt) ==
    /\ bal' = Post(bal, to, t, amt)
    /\ UNCHANGED <<pot, nonces>>

Burn(from, t, amt) ==
    /\ amt <= bal[from][t]
    /\ bal' = Post(bal, from, t, -amt)
    /\ UNCHANGED <<pot, nonces>>

Next ==
    \/ \E from, to \in Addr, amt, fee \in Value : PayWithFee(from, to, amt, fee)
    \/ \E from, to \in Addr, t \in Token, amt \in Value : Transfer(from, to, t, amt)
    \/ \E from, to \in Addr, amt \in Value : PaySigned(from, to, amt)
    \/ \E to \in Addr, t \in Token, amt \in Value : WithdrawFees(to, t, amt)
    \/ \E a \in Addr, t \in Token, amt \in Value : Mint(a, t, amt) \/ Burn(a, t, amt)

Spec == Init /\ [][Next]_vars
=============================================================================
