--------------------------- MODULE IntentLifecycle ---------------------------
(***************************************************************************)
(* What a payment intent promises merchant and payer: it is paid at most   *)
(* once and in time, the evidence of the payment never changes afterwards, *)
(* and only a paid intent is refunded or settled.                          *)
(***************************************************************************)
EXTENDS Integers

VARIABLES
    status,      \* status of each intent, indexed by ID
    deadline,    \* last moment of payment of each intent, 0 if there is none
    evidence     \* how each intent was paid, a record with a field paidAt

vars == <<status, deadline, evidence>>

Ids == DOMAIN status

Init == Ids = {} /\ DOMAIN deadline = {} /\ DOMAIN evidence = {}

\* The invoice itself never changes: IDs stay, and so do their deadlines.
SameInvoices == DOMAIN status' = Ids /\ deadline' = deadline

\* A new intent is pending; the others stay as they are.
Open ==
    /\ Ids \subseteq DOMAIN status'
    /\ \E new \in DOMAIN status' \ Ids :
         DOMAIN status' = Ids \cup {new} /\ status'[new] = "pending"
    /\ \A id \in Ids : /\ status'[id] = status[id]
                       /\ deadline'[id] = deadline[id]
                       /\ evidence'[id] = evidence[id]

\* Reading a list may find several pending intents expired at once.
Expire ==
    /\ SameInvoices /\ UNCHANGED evidence
    /\ \A id \in Ids : \/ status'[id] = status[id]
                       \/ status[id] = "pending" /\ status'[id] = "expired"

\* One intent moves from a status to another; the others are not touched.
Change(id, before, after) ==
    /\ status[id] \in before /\ status'[id] = after
    /\ \A other \in Ids \ {id} : /\ status'[other] = status[other]
                                 /\ evidence'[other] = evidence[other]

Pay(id) ==
    /\ SameInvoices /\ Change(id, {"pending"}, "paid")
    /\ deadline[id] = 0 \/ evidence'[id].paidAt <= deadline[id]

Refund(id) == SameInvoices /\ Change(id, {"paid"}, "refunded") /\ UNCHANGED evidence

Settle(id) ==
    SameInvoices /\ Change(id, {"paid", "refunded"}, "settled") /\ UNCHANGED evidence

\* Intents are kept in memory only: a restart forgets all of them.
Forget == DOMAIN status' = {}

Next == Open \/ Expire \/ Forget \/ \E id \in Ids : Pay(id) \/ Refund(id) \/ Settle(id)

Spec == Init /\ [][Next]_vars
=============================================================================
