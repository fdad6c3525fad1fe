-------------------------- MODULE MCBlockProducer --------------------------
(* Small instances of BlockProducer. *)
EXTENDS BlockProducer, TLC

CONSTANTS admin, treasury, evm, shop

Pay(from, to, value, nonce) ==
    [from |-> from, to |-> to, value |-> value, nonce |-> nonce, intent |-> 0]
PayIntent(from, to, value, intent) ==
    [from |-> from, to |-> to, value |-> value, nonce |-> 0, intent |-> intent]

\* A transfer that spends all that the sender has when it is made twice, and
\* one whose signature does not recover (the admin pays).
MCTransfers == {Pay(evm, shop, 40, 0), Pay(Unsigned, evm, 40, 0)}

\* Transfers that wait in the pool: wrong nonce, no receiver, too much.
MCUnfit == {Pay(evm, shop, 40, 0), Pay(evm, shop, 40, 1), Pay(evm, NoTo, 40, 0),
            Pay(evm, shop, 200, 0)}

\* A payment of an invoice of 40 (the treasury's fee is 1), one that pays too
\* little, one to another receiver, and one of an intent that may not exist.
MCPayments == {PayIntent(evm, shop, 40, 1), PayIntent(evm, shop, 20, 1),
               PayIntent(evm, admin, 40, 1)}
=============================================================================
