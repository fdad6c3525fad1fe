------------------------- MODULE PaymentGatewayProofs -------------------------
(* Theorems about PaymentGateway for every set of merchants, payers and    *)
(* amounts, every lifetime and every width of the clock: types, the        *)
(* agreement of an intent's flags, and the refinement of IntentLifecycle.  *)
EXTENDS PaymentGateway, TLAPS

\* FlagsAgree is inductive together with the types.
Consistent == TypeOK /\ FlagsAgree

-----------------------------------------------------------------------------
(* One intent *)

\* updateStatusLocked changes a status at most, and only from pending.
LEMMA UpdatedIntent ==
  ASSUME NEW i \in Intent, Agree(i), NEW time \in Nat
  PROVE  /\ Updated(i, time) \in Intent /\ Agree(Updated(i, time))
         /\ \/ Updated(i, time) = i
            \/ /\ i.status = "pending"
               /\ Updated(i, time) = [i EXCEPT !.status = "expired"]
         /\ Updated(i, time).status = "pending" =>
              /\ Updated(i, time) = i
              /\ i.expiry = 0 \/ time <= i.expiry
  BY GatewayAssumption DEF Updated, Agree, Intent, Status

\* What PayIntent and MarkPaidFromTx write into a pending intent.
LEMMA PaidIntent ==
  ASSUME NEW i \in Intent, Agree(i), i.status = "pending",
         NEW payer \in Payer, NEW time \in Nat, NEW tx \in TxHash \cup {NoTx},
         NEW paid, paid = [i EXCEPT !.paid = TRUE, !.status = "paid", !.payer = payer,
                                    !.paidAt = time, !.txHash = tx]
  PROVE  paid \in Intent /\ Agree(paid)
  <1>1. paid \in Intent
    BY DEF Intent, Status
  <1>2. /\ paid.paid = TRUE /\ paid.status = "paid" /\ paid.payer = payer
        /\ paid.refunded = i.refunded /\ paid.txHash = tx
    BY DEF Intent
  <1>3. i.refunded = FALSE
    BY DEF Agree, Intent
  <1>4. payer # NoPayer
    BY GatewayAssumption
  <1>5. QED
    BY <1>1, <1>2, <1>3, <1>4 DEF Agree

\* The ways a method leaves the intent it looked up, as the promised life has them.
Moves(i, j) ==
    /\ j \in Intent /\ Agree(j) /\ j.expiry = i.expiry
    /\ \/ /\ j.payer = i.payer /\ j.paidAt = i.paidAt /\ j.txHash = i.txHash
          /\ \/ j.status = i.status
             \/ i.status = "pending" /\ j.status = "expired"
             \/ i.status = "paid" /\ j.status = "refunded"
             \/ i.status \in {"paid", "refunded"} /\ j.status = "settled"
       \/ /\ i.status = "pending" /\ j.status = "paid"
          /\ i.expiry = 0 \/ j.paidAt <= i.expiry

\* Looking at an intent is such a move.
LEMMA UpdatedMoves ==
  ASSUME NEW i \in Intent, Agree(i), NEW time \in Nat
  PROVE  Moves(i, Updated(i, time))
  BY UpdatedIntent DEF Moves, Intent

\* A payment from a pending intent at a time within its deadline is one.
LEMMA PaymentMoves ==
  ASSUME NEW i \in Intent, Agree(i), i.status = "pending",
         NEW payer \in Payer, NEW time \in Nat, NEW tx \in TxHash \cup {NoTx},
         i.expiry = 0 \/ time <= i.expiry
  PROVE  Moves(i, [i EXCEPT !.paid = TRUE, !.status = "paid", !.payer = payer,
                            !.paidAt = time, !.txHash = tx])
  <1> DEFINE j == [i EXCEPT !.paid = TRUE, !.status = "paid", !.payer = payer,
                            !.paidAt = time, !.txHash = tx]
  <1>1. j \in Intent /\ Agree(j)
    BY PaidIntent
  <1>2. j.expiry = i.expiry /\ j.status = "paid" /\ j.paidAt = time
    BY DEF Intent
  <1> HIDE DEF j
  <1>3. Moves(i, j)
    BY <1>1, <1>2 DEF Moves
  <1>4. QED
    BY <1>3 DEF j

\* So is the whole of MarkPaidFromTx, its errors included.
LEMMA MarkedMoves ==
  ASSUME NEW i \in Intent, Agree(i), NEW payer \in Payer, NEW merchant,
         NEW amount, NEW tx \in TxHash, NEW time \in Nat
  PROVE  Moves(i, Marked(i, payer, merchant, amount, tx, time))
  <1> DEFINE u == Updated(i, time)
  <1>1. CASE u.status = "pending" /\ merchant = u.merchant /\ amount >= u.amount
    <2>1. u = i /\ i.status = "pending" /\ (i.expiry = 0 \/ time <= i.expiry)
      BY <1>1, UpdatedIntent
    <2>2. QED
      BY <1>1, <2>1, PaymentMoves DEF Marked
  <1>2. CASE ~(u.status = "pending" /\ merchant = u.merchant /\ amount >= u.amount)
    BY <1>2, UpdatedMoves DEF Marked
  <1>3. QED
    BY <1>1, <1>2

-----------------------------------------------------------------------------
(* The steps *)

\* Every method that looks up one intent moves that intent and nothing else.
Moved(id) ==
    /\ id \in Id
    /\ \E j \in Intent : Moves(intents[id], j) /\ Replace(id, j)

\* GetIntent, PayIntent, RefundIntent, SettleIntent and MarkPaidFromTx do so.
LEMMA IntentMethods ==
  ASSUME Consistent, NEW id \in Id,
         \/ GetIntent(id) \/ RefundIntent(id) \/ SettleIntent(id) \/ Mark(id)
         \/ \E p \in Payer : PayIntent(id, p)
  PROVE  Moved(id)
  <1> DEFINE i == intents[id]  u == Updated(i, now)
  <1>1. i \in Intent /\ Agree(i) /\ now \in Nat /\ 1..now \subseteq Nat
    BY GatewayAssumption DEF Consistent, TypeOK, FlagsAgree, Id
  <1>2. Moves(i, u) /\ u \in Intent /\ Agree(u)
    BY <1>1, UpdatedMoves DEF Moves
  <1>3. CASE GetIntent(id)
    BY <1>2, <1>3 DEF GetIntent, Moved
  <1>4. CASE RefundIntent(id)
    <2>1. CASE u.status = "paid"
      <3> DEFINE j == [u EXCEPT !.refunded = TRUE, !.status = "refunded"]
      <3>1. u = i
        BY <1>1, <2>1, UpdatedIntent DEF Intent
      <3>2. j \in Intent /\ Agree(j)
        BY <1>2, <2>1 DEF Intent, Status, Agree
      <3>3. Moves(i, j)
        BY <1>1, <2>1, <3>1, <3>2 DEF Moves, Intent
      <3>4. Replace(id, j)
        BY <1>4, <2>1 DEF RefundIntent
      <3>5. QED
        BY <3>2, <3>3, <3>4 DEF Moved
    <2>2. CASE u.status # "paid"
      BY <1>2, <1>4, <2>2 DEF RefundIntent, Moved
    <2>3. QED
      BY <2>1, <2>2
  <1>5. CASE SettleIntent(id)
    <2> DEFINE j == [i EXCEPT !.status = "settled"]
    <2>1. j \in Intent /\ Agree(j)
      BY <1>1, <1>5 DEF SettleIntent, Intent, Status, Agree
    <2>2. Moves(i, j)
      BY <1>1, <1>5, <2>1 DEF SettleIntent, Moves, Intent
    <2>3. QED
      BY <1>5, <2>1, <2>2 DEF SettleIntent, Moved
  <1>6. CASE Mark(id)
    <2>1. PICK p \in Payer, m \in Merchant, a \in TxAmount, tx \in TxHash, time \in 1..now :
            MarkPaidFromTx(id, p, m, a, tx, time)
      BY <1>6 DEF Mark
    <2>2. Moves(i, Marked(i, p, m, a, tx, time))
      BY <1>1, MarkedMoves
    <2>3. QED
      BY <2>1, <2>2 DEF MarkPaidFromTx, Moved, Moves
  <1>7. CASE \E p \in Payer : PayIntent(id, p)
    <2>1. PICK p \in Payer : PayIntent(id, p)
      BY <1>7
    <2>2. CASE u.status = "pending"
      <3> DEFINE j == [i EXCEPT !.paid = TRUE, !.status = "paid", !.payer = p,
                                !.paidAt = now, !.txHash = i.txHash]
      <3>1. u = i /\ i.status = "pending" /\ (i.expiry = 0 \/ now <= i.expiry)
        BY <1>1, <2>2, UpdatedIntent
      <3>2. Moves(i, j)
        BY <1>1, <3>1, PaymentMoves DEF Intent
      <3>3. j = [u EXCEPT !.paid = TRUE, !.status = "paid", !.payer = p, !.paidAt = now]
        BY <1>1, <3>1 DEF Intent
      <3>4. Replace(id, j)
        BY <2>1, <2>2, <3>3 DEF PayIntent
      <3>5. QED
        BY <3>2, <3>4 DEF Moved, Moves
    <2>3. CASE u.status # "pending"
      BY <1>2, <2>1, <2>3 DEF PayIntent, Moved
    <2>4. QED
      BY <2>2, <2>3
  <1>8. QED
    BY <1>3, <1>4, <1>5, <1>6, <1>7

\* CreateIntent gives the new intent the next ID and leaves the others alone.
LEMMA CreatedIntent ==
  ASSUME Consistent, Create
  PROVE  /\ counter < MaxIntents /\ counter' = counter + 1 /\ Id \subseteq Id'
         /\ Id' = Id \cup {counter + 1} /\ counter + 1 \notin Id
         /\ \E j \in Intent :
              /\ Agree(j) /\ j.status = "pending"
              /\ intents' = [id \in Id' |-> IF id \in Id THEN intents[id] ELSE j]
         /\ UNCHANGED <<expirySeconds, now>>
  <1>1. PICK m \in Merchant, a \in InvoiceAmount, t \in TokenName, ts \in 1..now :
          CreateIntent(m, a, t, ts)
    BY DEF Create
  <1> DEFINE j == [merchant |-> m, amount |-> a, token |-> t, timestamp |-> ts,
                   expiry |-> (ts + expirySeconds) % TimeMod,
                   status |-> "pending", paid |-> FALSE, refunded |-> FALSE,
                   payer |-> NoPayer, paidAt |-> 0, txHash |-> NoTx]
  <1>2. counter \in Nat /\ ts \in Nat /\ expirySeconds \in Nat
    BY GatewayAssumption DEF Consistent, TypeOK
  <1>3. (ts + expirySeconds) % TimeMod \in 0..(TimeMod - 1)
    BY <1>2, GatewayAssumption
  <1>4. j \in Intent
    BY <1>2, <1>3 DEF Intent, Status
  <1>5. Agree(j) /\ j.status = "pending"
    BY DEF Agree
  <1>6. /\ counter < MaxIntents /\ counter' = counter + 1
        /\ intents' = [id \in Id' |-> IF id \in Id THEN intents[id] ELSE j]
        /\ UNCHANGED <<expirySeconds, now>>
    BY <1>1 DEF CreateIntent, Id
  <1>7. Id' = Id \cup {counter + 1} /\ counter + 1 \notin Id
    BY <1>2, <1>6 DEF Id
  <1> HIDE DEF j
  <1>8. QED
    BY <1>4, <1>5, <1>6, <1>7

\* ListMerchantPayments looks at every intent of the merchant.
LEMMA ListedIntents ==
  ASSUME Consistent, NEW m \in Merchant, ListMerchantPayments(m)
  PROVE  /\ UNCHANGED <<counter, expirySeconds, now>> /\ Id' = Id
         /\ intents' \in [Id -> Intent]
         /\ \A id \in Id : /\ Agree(intents'[id])
                           /\ intents'[id].expiry = intents[id].expiry
                           /\ intents'[id].payer = intents[id].payer
                           /\ intents'[id].paidAt = intents[id].paidAt
                           /\ intents'[id].txHash = intents[id].txHash
                           /\ \/ intents'[id].status = intents[id].status
                              \/ /\ intents[id].status = "pending"
                                 /\ intents'[id].status = "expired"
  <1>1. \A id \in Id : intents[id] \in Intent /\ Agree(intents[id])
    BY DEF Consistent, TypeOK, FlagsAgree
  <1>2. now \in Nat
    BY GatewayAssumption DEF Consistent, TypeOK
  <1>3. /\ UNCHANGED <<counter, expirySeconds, now>>
        /\ intents' = [id \in Id |-> IF intents[id].merchant = m
                                     THEN Updated(intents[id], now) ELSE intents[id]]
    BY DEF ListMerchantPayments
  <1>4. \A id \in Id :
          /\ Updated(intents[id], now) \in Intent /\ Agree(Updated(intents[id], now))
          /\ \/ Updated(intents[id], now) = intents[id]
             \/ /\ intents[id].status = "pending"
                /\ Updated(intents[id], now) = [intents[id] EXCEPT !.status = "expired"]
    BY <1>1, <1>2, UpdatedIntent
  <1>5. intents' \in [Id -> Intent]
    BY <1>1, <1>3, <1>4
  <1>6. ASSUME NEW id \in Id
        PROVE  /\ Agree(intents'[id])
               /\ \/ intents'[id] = intents[id]
                  \/ /\ intents[id].status = "pending"
                     /\ intents'[id] = [intents[id] EXCEPT !.status = "expired"]
    BY <1>1, <1>3, <1>4
  <1>7. QED
    BY <1>1, <1>3, <1>5, <1>6 DEF Id, Intent

-----------------------------------------------------------------------------
(* The invariant *)

\* NewPaymentGateway starts without intents.
LEMMA InitConsistent == Init => Consistent
  BY GatewayAssumption DEF Init, Consistent, TypeOK, FlagsAgree, Id

\* Every method keeps types and agreement.
LEMMA StepConsistent == Consistent /\ [Next]_vars => Consistent'
  <1> SUFFICES ASSUME Consistent, [Next]_vars PROVE Consistent'
    OBVIOUS
  <1> USE DEF Consistent, TypeOK
  <1>1. CASE Tick
    BY <1>1, GatewayAssumption DEF Tick, FlagsAgree, Id
  <1>2. CASE Restart
    BY <1>2, GatewayAssumption DEF Restart, FlagsAgree, Id
  <1>3. CASE Create
    <2>1. PICK j \in Intent :
            /\ Agree(j)
            /\ intents' = [id \in Id' |-> IF id \in Id THEN intents[id] ELSE j]
      BY <1>3, CreatedIntent
    <2>2. Id' = Id \cup {counter + 1} /\ counter' = counter + 1 /\ counter < MaxIntents
      BY <1>3, CreatedIntent
    <2>3. counter' \in 0..MaxIntents /\ UNCHANGED <<expirySeconds, now>>
      BY <1>3, <2>2, CreatedIntent, GatewayAssumption
    <2>4. intents' \in [Id' -> Intent]
      BY <2>1
    <2>5. FlagsAgree'
      BY <2>1 DEF FlagsAgree
    <2>6. QED
      BY <2>3, <2>4, <2>5
  <1>4. CASE \E seconds \in Lifetime : SetExpirySeconds(seconds)
    BY <1>4 DEF SetExpirySeconds, FlagsAgree, Id
  <1>5. CASE \E m \in Merchant : ListMerchantPayments(m)
    BY <1>5, ListedIntents DEF FlagsAgree
  <1>6. CASE \E id \in Id : Moved(id)
    <2>1. PICK id \in Id, j \in Intent : Moves(intents[id], j) /\ Replace(id, j)
      BY <1>6 DEF Moved
    <2>2. Id' = Id /\ intents' = [intents EXCEPT ![id] = j] /\ Agree(j)
      BY <2>1 DEF Moves, Replace, Id
    <2>3. UNCHANGED <<counter, expirySeconds, now>>
      BY <2>1 DEF Replace
    <2>4. intents' \in [Id' -> Intent] /\ FlagsAgree'
      BY <2>2 DEF FlagsAgree
    <2>5. QED
      BY <2>3, <2>4
  <1>7. CASE UNCHANGED vars
    BY <1>7 DEF vars, FlagsAgree, Id
  <1>8. QED
    BY <1>1, <1>2, <1>3, <1>4, <1>5, <1>6, <1>7, IntentMethods DEF Next

\* Types and agreement hold in every reachable state.
LEMMA AlwaysConsistent == Spec => []Consistent
  BY InitConsistent, StepConsistent, PTL DEF Spec

\* Every state of the gateway is well typed: IDs are 1..counter, and an expiry
\* time fits its width whatever lifetime the admin sets.
THEOREM TypeCorrect == Spec => []TypeOK
  <1>1. Consistent => TypeOK
    BY DEF Consistent
  <1>2. QED
    BY <1>1, AlwaysConsistent, PTL

\* Flags, status and evidence of an intent never disagree, whatever the order
\* of soft payments, block payments, refunds, settlements and expiry.
THEOREM FlagsAlwaysAgree == Spec => []FlagsAgree
  <1>1. Consistent => FlagsAgree
    BY DEF Consistent
  <1>2. QED
    BY <1>1, AlwaysConsistent, PTL

-----------------------------------------------------------------------------
(* The refinement *)

\* A method that looks up one intent is a step of its promised life.
LEMMA MovedRefines ==
  ASSUME Consistent, NEW id \in Id, Moved(id)
  PROVE  Lifecycle!Next
  <1> USE DEF Lifecycle!Ids, Lifecycle!SameInvoices
  <1>1. PICK j \in Intent : Moves(intents[id], j) /\ Replace(id, j)
    BY DEF Moved
  <1>2. /\ intents \in [Id -> Intent] /\ Id' = Id
        /\ intents' = [intents EXCEPT ![id] = j]
    BY <1>1 DEF Consistent, TypeOK, Replace, Id
  <1>3. /\ intents'[id] = j
        /\ \A other \in Id \ {id} : intents'[other] = intents[other]
    BY <1>2
  <1>4. DOMAIN StatusOf = Id /\ DOMAIN StatusOf' = Id
    BY <1>2 DEF StatusOf
  <1>5. DeadlineOf' = DeadlineOf
    BY <1>1, <1>2, <1>3 DEF DeadlineOf, Moves
  <1>6. /\ StatusOf[id] = intents[id].status /\ StatusOf'[id] = j.status
        /\ DeadlineOf[id] = intents[id].expiry
        /\ EvidenceOf'[id].paidAt = j.paidAt
    BY <1>2, <1>3 DEF StatusOf, DeadlineOf, EvidenceOf
  <1>7. \A other \in Id \ {id} : /\ StatusOf'[other] = StatusOf[other]
                                 /\ EvidenceOf'[other] = EvidenceOf[other]
    BY <1>2, <1>3 DEF StatusOf, EvidenceOf
  <1>8. CASE j.payer = intents[id].payer /\ j.paidAt = intents[id].paidAt
             /\ j.txHash = intents[id].txHash
    <2>1. EvidenceOf' = EvidenceOf
      BY <1>2, <1>3, <1>8 DEF EvidenceOf
    <2>2. CASE \/ j.status = intents[id].status
               \/ intents[id].status = "pending" /\ j.status = "expired"
      <3>1. Lifecycle!Expire
        BY <1>4, <1>5, <1>6, <1>7, <2>1, <2>2 DEF Lifecycle!Expire, StatusOf, DeadlineOf, EvidenceOf
      <3>2. QED
        BY <3>1 DEF Lifecycle!Next
    <2>3. CASE intents[id].status = "paid" /\ j.status = "refunded"
      <3>1. Lifecycle!Refund(id)
        BY <1>4, <1>5, <1>6, <1>7, <2>1, <2>3
           DEF Lifecycle!Refund, Lifecycle!Change, StatusOf, DeadlineOf, EvidenceOf
      <3>2. QED
        BY <3>1, <1>4 DEF Lifecycle!Next, StatusOf
    <2>4. CASE intents[id].status \in {"paid", "refunded"} /\ j.status = "settled"
      <3>1. Lifecycle!Settle(id)
        BY <1>4, <1>5, <1>6, <1>7, <2>1, <2>4
           DEF Lifecycle!Settle, Lifecycle!Change, StatusOf, DeadlineOf, EvidenceOf
      <3>2. QED
        BY <3>1, <1>4 DEF Lifecycle!Next, StatusOf
    <2>5. CASE intents[id].status = "pending" /\ j.status = "paid"
      <3>1. intents[id].paid = FALSE /\ intents[id].payer = NoPayer /\ j.payer # NoPayer
        BY <1>1, <1>2, <2>5 DEF Consistent, FlagsAgree, Agree, Moves, Intent
      <3>2. QED
        BY <1>8, <3>1
    <2>6. QED
      BY <1>1, <2>2, <2>3, <2>4, <2>5 DEF Moves
  <1>9. CASE /\ intents[id].status = "pending" /\ j.status = "paid"
             /\ intents[id].expiry = 0 \/ j.paidAt <= intents[id].expiry
    <2>1. Lifecycle!Pay(id)
      BY <1>4, <1>5, <1>6, <1>7, <1>9
         DEF Lifecycle!Pay, Lifecycle!Change, StatusOf, DeadlineOf, EvidenceOf
    <2>2. QED
      BY <2>1, <1>4 DEF Lifecycle!Next, StatusOf
  <1>10. QED
    BY <1>1, <1>8, <1>9 DEF Moves

\* CreateIntent opens an intent.
LEMMA CreateRefines == ASSUME Consistent, Create PROVE Lifecycle!Open
  <1>1. PICK j \in Intent :
          /\ j.status = "pending"
          /\ intents' = [id \in Id' |-> IF id \in Id THEN intents[id] ELSE j]
    BY CreatedIntent
  <1>2. Id' = Id \cup {counter + 1} /\ counter + 1 \notin Id
    BY CreatedIntent
  <1>3. DOMAIN StatusOf = Id /\ DOMAIN StatusOf' = Id'
    BY DEF StatusOf
  <1>4. StatusOf'[counter + 1] = "pending"
    BY <1>1, <1>2 DEF StatusOf
  <1>5. \A id \in Id : /\ StatusOf'[id] = StatusOf[id]
                       /\ DeadlineOf'[id] = DeadlineOf[id]
                       /\ EvidenceOf'[id] = EvidenceOf[id]
    BY <1>1, <1>2 DEF StatusOf, DeadlineOf, EvidenceOf
  <1>6. counter + 1 \in DOMAIN StatusOf' \ DOMAIN StatusOf
    BY <1>2, <1>3
  <1>7. QED
    BY <1>2, <1>3, <1>4, <1>5, <1>6
       DEF Lifecycle!Open, Lifecycle!Ids, StatusOf, DeadlineOf, EvidenceOf

\* ListMerchantPayments may find several intents expired at once.
LEMMA ListRefines ==
  ASSUME Consistent, NEW m \in Merchant, ListMerchantPayments(m)
  PROVE  Lifecycle!Expire
  <1>1. Id' = Id
    BY ListedIntents
  <1>2. DOMAIN StatusOf = Id /\ DOMAIN StatusOf' = Id
    BY <1>1 DEF StatusOf
  <1>3. DeadlineOf' = DeadlineOf /\ EvidenceOf' = EvidenceOf
    BY <1>1, ListedIntents DEF DeadlineOf, EvidenceOf
  <1>4. \A id \in Id : \/ StatusOf'[id] = StatusOf[id]
                       \/ StatusOf[id] = "pending" /\ StatusOf'[id] = "expired"
    <2>1. ASSUME NEW id \in Id
          PROVE  \/ intents'[id].status = intents[id].status
                 \/ intents[id].status = "pending" /\ intents'[id].status = "expired"
      BY ListedIntents
    <2>2. \A id \in Id : /\ StatusOf[id] = intents[id].status
                         /\ StatusOf'[id] = intents'[id].status
      BY <1>1 DEF StatusOf
    <2>3. QED
      BY <2>1, <2>2
  <1>5. QED
    BY <1>2, <1>3, <1>4 DEF Lifecycle!Expire, Lifecycle!Ids, Lifecycle!SameInvoices,
                            StatusOf, DeadlineOf, EvidenceOf

\* Every step of the gateway maps to a step of the promised life or to a stutter.
LEMMA StepRefines == Consistent /\ [Next]_vars => [Lifecycle!Next]_(Lifecycle!vars)
  <1> SUFFICES ASSUME Consistent, [Next]_vars PROVE [Lifecycle!Next]_(Lifecycle!vars)
    OBVIOUS
  <1>1. CASE UNCHANGED <<counter, intents>>
    BY <1>1 DEF Lifecycle!vars, Id, StatusOf, DeadlineOf, EvidenceOf
  <1>2. CASE Restart
    BY <1>2 DEF Restart, Lifecycle!Next, Lifecycle!Forget, Id, StatusOf
  <1>3. CASE Create
    BY <1>3, CreateRefines DEF Lifecycle!Next
  <1>4. CASE \E m \in Merchant : ListMerchantPayments(m)
    BY <1>4, ListRefines DEF Lifecycle!Next
  <1>5. CASE \E id \in Id : Moved(id)
    BY <1>5, MovedRefines
  <1>6. QED
    BY <1>1, <1>2, <1>3, <1>4, <1>5, IntentMethods
       DEF Next, Tick, SetExpirySeconds, vars

\* The gateway starts as the promised life does.
LEMMA InitRefines == Init => Lifecycle!Init
  BY DEF Init, Id, Lifecycle!Init, Lifecycle!Ids, StatusOf, DeadlineOf, EvidenceOf

\* The gateway implements the life it promises to merchant and payer: no
\* intent is paid twice, paid late, or changes how it was paid, for every
\* number of intents and every interleaving of the methods.
THEOREM GatewayImplementsLifecycle == Spec => IntentsFollowLifecycle
  BY InitRefines, StepRefines, AlwaysConsistent, PTL
     DEF Spec, IntentsFollowLifecycle, Lifecycle!Spec
=============================================================================
