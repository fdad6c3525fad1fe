---------------------------- MODULE PaymentGateway ----------------------------
(***************************************************************************)
(* modules/payment_gateway: invoices ("payment intents") and their states. *)
(* Every method holds pg.mu from its first access to its last, so each is  *)
(* one action.  Expiry is lazy: a pending intent turns expired only when a *)
(* method looks at it, with the wall clock, or with the block time in      *)
(* MarkPaidFromTx.  Intents live in memory: a restart forgets them and     *)
(* gives out the same IDs again.                                           *)
(***************************************************************************)
EXTENDS Integers

CONSTANTS
    Merchant,       \* merchant addresses
    Payer,          \* payer addresses
    NoPayer,        \* common.Address{} in the Payer field of an unpaid intent
    InvoiceAmount,  \* amounts of intents, above zero (CreateIntent rejects others)
    TxAmount,       \* values of payment transactions
    TokenName,      \* tokens of intents, not ""
    TxHash,         \* hashes of payment transactions
    NoTx,           \* "" in the TxHash field
    Lifetime,       \* values of expirySeconds
    InitialLifetime,\* 900 in the code
    TimeMod,        \* uint64 arithmetic wraps at TimeMod (2^64)
    MaxIntents,     \* bound: intents created
    MaxTime         \* bound: the wall clock stops here

ASSUME GatewayAssumption ==
    /\ InvoiceAmount \subseteq Nat \ {0} /\ TxAmount \subseteq Int
    /\ Lifetime \subseteq Nat /\ InitialLifetime \in Lifetime
    /\ TimeMod \in Nat \ {0} /\ MaxIntents \in Nat /\ MaxTime \in Nat \ {0}
    /\ NoTx \notin TxHash /\ NoPayer \notin Payer

Status == {"pending", "paid", "expired", "refunded", "settled"}

\* BlockNumber is set together with TxHash and determined by it: left out.
Intent == [merchant : Merchant, amount : InvoiceAmount, token : TokenName,
           timestamp : Nat, expiry : 0..(TimeMod - 1), status : Status,
           paid : BOOLEAN, refunded : BOOLEAN,
           payer : Payer \cup {NoPayer}, paidAt : Nat, txHash : TxHash \cup {NoTx}]

VARIABLES
    counter,        \* pg.counter
    intents,        \* pg.intents, by ID; no intent is ever deleted
    expirySeconds,  \* pg.expirySeconds
    now             \* the wall clock, in seconds

vars == <<counter, intents, expirySeconds, now>>

Id == 1..counter

Init ==
    /\ counter = 0
    /\ intents = [id \in Id |-> 0]
    /\ expirySeconds = InitialLifetime
    /\ now = 1

-----------------------------------------------------------------------------
\* updateStatusLocked
Updated(i, time) ==
    IF /\ i.status = "pending" /\ ~i.paid /\ ~i.refunded
       /\ i.expiry > 0 /\ time > i.expiry
    THEN [i EXCEPT !.status = "expired"]
    ELSE i

\* Every method but SettleIntent updates the intent it looks up first.
Replace(id, i) ==
    /\ intents' = [intents EXCEPT ![id] = i]
    /\ UNCHANGED <<counter, expirySeconds, now>>

\* Mutant of CreateIntent: the expiry does not wrap.
CreateIntentUnwrapped(merchant, amount, token, ts) ==
    /\ counter < MaxIntents
    /\ counter' = counter + 1
    /\ intents' = [id \in 1..counter' |->
         IF id \in Id THEN intents[id]
         ELSE [merchant |-> merchant, amount |-> amount, token |-> token,
               timestamp |-> ts, expiry |-> ts + expirySeconds,
               status |-> "pending", paid |-> FALSE, refunded |-> FALSE,
               payer |-> NoPayer, paidAt |-> 0, txHash |-> NoTx]]
    /\ UNCHANGED <<expirySeconds, now>>

CreateIntent(merchant, amount, token, ts) ==
    /\ counter < MaxIntents
    /\ counter' = counter + 1
    /\ intents' = [id \in 1..counter' |->
         IF id \in Id THEN intents[id]
         ELSE [merchant |-> merchant, amount |-> amount, token |-> token,
               timestamp |-> ts, expiry |-> (ts + expirySeconds) % TimeMod,
               status |-> "pending", paid |-> FALSE, refunded |-> FALSE,
               payer |-> NoPayer, paidAt |-> 0, txHash |-> NoTx]]
    /\ UNCHANGED <<expirySeconds, now>>

SetExpirySeconds(seconds) ==
    expirySeconds' = seconds /\ UNCHANGED <<counter, intents, now>>

GetIntent(id) == id \in Id /\ Replace(id, Updated(intents[id], now))

ListMerchantPayments(merchant) ==
    /\ intents' = [id \in Id |-> IF intents[id].merchant = merchant
                                 THEN Updated(intents[id], now) ELSE intents[id]]
    /\ UNCHANGED <<counter, expirySeconds, now>>

\* Mutant of PayIntent: the flag is forgotten.
PayIntentUnflagged(id, payer) ==
    /\ id \in Id
    /\ LET i == Updated(intents[id], now) IN
       Replace(id, IF i.status = "pending"
                   THEN [i EXCEPT !.status = "paid", !.payer = payer, !.paidAt = now]
                   ELSE i)

\* Paying what is already paid, refunded or settled is no error and no change.
PayIntent(id, payer) ==
    /\ id \in Id
    /\ LET i == Updated(intents[id], now) IN
       Replace(id, IF i.status = "pending"
                   THEN [i EXCEPT !.paid = TRUE, !.status = "paid",
                                  !.payer = payer, !.paidAt = now]
                   ELSE i)

RefundIntent(id) ==
    /\ id \in Id
    /\ LET i == Updated(intents[id], now) IN
       Replace(id, IF i.status = "paid"
                   THEN [i EXCEPT !.refunded = TRUE, !.status = "refunded"] ELSE i)

SettleIntent(id) ==
    /\ id \in Id /\ intents[id].status \in {"paid", "refunded"}
    /\ Replace(id, [intents[id] EXCEPT !.status = "settled"])

\* Mutant of Marked: no expiry check with the block's time.
MarkedLate(i, payer, merchant, amount, tx, blockTime) ==
    IF i.status = "pending" /\ merchant = i.merchant /\ amount >= i.amount
    THEN [i EXCEPT !.paid = TRUE, !.status = "paid", !.payer = payer,
                   !.paidAt = blockTime, !.txHash = tx]
    ELSE i

\* The intent after MarkPaidFromTx: its errors leave it as the expiry check did.
Marked(i, payer, merchant, amount, tx, blockTime) ==
    LET u == Updated(i, blockTime) IN
    IF u.status = "pending" /\ merchant = u.merchant /\ amount >= u.amount
    THEN [u EXCEPT !.paid = TRUE, !.status = "paid", !.payer = payer,
                   !.paidAt = blockTime, !.txHash = tx]
    ELSE u

MarkPaidFromTx(id, payer, merchant, amount, tx, blockTime) ==
    /\ id \in Id /\ amount > 0
    /\ Replace(id, Marked(intents[id], payer, merchant, amount, tx, blockTime))

-----------------------------------------------------------------------------
Tick == now < MaxTime /\ now' = now + 1 /\ UNCHANGED <<counter, intents, expirySeconds>>

\* NewPaymentGateway at the next start of the process.
Restart ==
    /\ counter' = 0
    /\ intents' = [id \in 1..counter' |-> 0]
    /\ expirySeconds' = InitialLifetime
    /\ UNCHANGED now

\* The callers: timestamps and block times were read from the clock earlier.
Create ==
    \E m \in Merchant, a \in InvoiceAmount, t \in TokenName, ts \in 1..now :
        CreateIntent(m, a, t, ts)

Mark(id) ==
    \E p \in Payer, m \in Merchant, a \in TxAmount, tx \in TxHash, time \in 1..now :
        MarkPaidFromTx(id, p, m, a, tx, time)

Next ==
    \/ Tick \/ Restart \/ Create
    \/ \E seconds \in Lifetime : SetExpirySeconds(seconds)
    \/ \E m \in Merchant : ListMerchantPayments(m)
    \/ \E id \in Id :
         \/ GetIntent(id) \/ RefundIntent(id) \/ SettleIntent(id) \/ Mark(id)
         \/ \E p \in Payer : PayIntent(id, p)

Spec == Init /\ [][Next]_vars

-----------------------------------------------------------------------------
(* Properties *)

\* Intents have the IDs 1..counter, and an expiry time is a uint64.
TypeOK ==
    /\ counter \in 0..MaxIntents
    /\ intents \in [Id -> Intent]
    /\ expirySeconds \in Lifetime
    /\ now \in 1..MaxTime

\* The flags, the status and the evidence of one intent tell the same story.
Agree(i) ==
    /\ i.paid <=> i.status \in {"paid", "refunded", "settled"}
    /\ i.status = "refunded" => i.refunded
    /\ i.refunded => i.status \in {"refunded", "settled"}
    /\ i.paid <=> i.payer # NoPayer
    /\ i.txHash # NoTx => i.paid

\* The two flags and the status are three records of one fact, written
\* separately by four methods; they never disagree, and the evidence of a
\* payment is there exactly when the intent was paid.
FlagsAgree == \A id \in Id : Agree(intents[id])

\* What a client sees of the intents.
StatusOf == [id \in Id |-> intents[id].status]
DeadlineOf == [id \in Id |-> intents[id].expiry]
EvidenceOf == [id \in Id |-> [payer |-> intents[id].payer, paidAt |-> intents[id].paidAt,
                              txHash |-> intents[id].txHash]]

\* Every step of the gateway is a step of the promised life of an intent: no
\* interleaving of readers, soft payments, block payments and refunds pays
\* twice, pays late, or changes the evidence of a payment.
Lifecycle == INSTANCE IntentLifecycle WITH
    status <- StatusOf, deadline <- DeadlineOf, evidence <- EvidenceOf

IntentsFollowLifecycle == Lifecycle!Spec
=============================================================================
