---------------------------- MODULE BlockProducer ----------------------------
(***************************************************************************)
(* consensus/producer with core/txpool and the files of core/blockchain.   *)
(*                                                                         *)
(* One goroutine, woken by a ticker, takes a snapshot of the pool, applies *)
(* each transaction to the account store, and writes block, head and       *)
(* receipts to files.  Meanwhile clients add transactions to the pool and  *)
(* use the payment gateway, the process may die between any two writes, and *)
(* a write may fail.  os.WriteFile truncates the file and then writes it.  *)
(***************************************************************************)
EXTENDS Integers, Sequences, Sums, SequencesExt

CONSTANTS
    Addr, Admin, Treasury,
    EvmUser,         \* the address that genesis funds beside admin and treasury
    TotalSupply,     \* 100_000_000_000 tokens in the code
    AdminAlloc,      \* 10_000_000
    EvmFund,         \* 1_000_000
    Txs,             \* transactions clients submit
    Unsigned,        \* sender of a transaction whose signature does not recover
    NoTo,            \* nil To: contract creation
    NoHash,          \* the zero hash: parent of genesis
    Absent, Torn,    \* a file that does not exist; one that is not valid JSON
    MaxBlocks,       \* bound: blocks produced
    MaxSubmissions,  \* bound: calls of TxPool.Add
    MaxCrashes,      \* bound: crashes of the process
    MaxFailures,     \* bound: failing file writes
    \* of the payment gateway, see there
    NoPayer, InvoiceAmount, TokenName, NoTx, Lifetime, InitialLifetime,
    TimeMod, MaxIntents, MaxTime

treasuryFeeBps == 250
bpsDenominator == 10000

\* intent is the <id> of the payload "GORR_PAY:<id>", 0 without such a payload
\* (the gateway's IDs start at 1).  A transaction's hash is the record itself.
Tx == [from : Addr \cup {Unsigned}, to : Addr \cup {NoTo}, value : Nat,
       nonce : Nat, intent : Nat]

ASSUME ProducerAssumption ==
    /\ {Admin, Treasury, EvmUser} \subseteq Addr /\ IsFiniteSet(Addr)
    /\ {TotalSupply, AdminAlloc, EvmFund} \subseteq Nat /\ AdminAlloc <= TotalSupply
    /\ Txs \subseteq Tx
    /\ {MaxBlocks, MaxSubmissions, MaxCrashes, MaxFailures} \subseteq Nat

\* What PaymentGateway assumes of its constants.
ASSUME IntentAssumption ==
    /\ InvoiceAmount \subseteq Nat \ {0}
    /\ Lifetime \subseteq Nat /\ InitialLifetime \in Lifetime
    /\ TimeMod \in Nat \ {0} /\ MaxIntents \in Nat /\ MaxTime \in Nat \ {0}
    /\ NoTx \notin Txs /\ NoPayer \notin Addr

VARIABLES
    acc,        \* account store: GORR balance and nonce
    pool,       \* TxPool.pending
    head,       \* bc.head
    disk,       \* the files: block_<n>.json, head.json, txindex.json, receipts_<n>.json
    pc,         \* where the producer's goroutine is
    batch,      \* transactions of the snapshot still to look at
    block,      \* newBlock
    receipts,   \* receipts of newBlock
    writes,     \* SetBalance calls still to do for Head(batch)
    index,      \* the transaction index as loaded by SaveTxIndex
    submitted, crashes, failures,                 \* counters for the bounds
    counter, intents, expirySeconds, now          \* the payment gateway

gateVars == <<counter, intents, expirySeconds, now>>
workVars == <<batch, block, receipts, writes, index>>
envVars  == <<submitted, crashes, failures>>
vars == <<acc, pool, head, disk, pc, workVars, envVars, gateVars>>

Gateway == INSTANCE PaymentGateway
           WITH Merchant <- Addr, Payer <- Addr, TxHash <- Txs,
                TxAmount <- {tx.value : tx \in Txs}

\* Block.Hash covers the header only; TxRoot and StateRoot stay zero.
Hash(b) == <<b.num, b.time, b.parent>>

NewBlock(num, time, parent) == [num |-> num, time |-> time, parent |-> parent, txs |-> <<>>]

Genesis == NewBlock(0, 0, NoHash)

\* Genesis calls SetBalance for three addresses in this order.
GenesisAccounts ==
    [a \in Addr |-> [nonce |-> 0,
        balance |-> CASE a = EvmUser -> EvmFund
                      [] a = Treasury /\ a # EvmUser -> TotalSupply - AdminAlloc
                      [] a = Admin /\ a \notin {EvmUser, Treasury} -> AdminAlloc
                      [] OTHER -> 0]]

NoIndex == [tx \in {} |-> 0]

Init ==
    /\ acc = GenesisAccounts
    /\ pool = <<>>
    /\ head = Genesis
    /\ disk = [block |-> [n \in 0..MaxBlocks |-> IF n = 0 THEN Genesis ELSE Absent],
               head |-> Genesis, index |-> Absent,
               receipts |-> [n \in 0..MaxBlocks |-> Absent]]
    /\ pc = "idle"
    /\ batch = <<>> /\ block = Genesis /\ receipts = <<>> /\ writes = <<>>
    /\ index = NoIndex
    /\ submitted = 0 /\ crashes = 0 /\ failures = 0
    /\ Gateway!Init

-----------------------------------------------------------------------------
(* Producing a block *)

Goto(place) == pc' = place

\* TxPool.Pending: a copy.
Pending == pool

\* Mutant of Produce: the new block takes the number of the head.
ProduceSameNumber ==
    /\ pc = "idle" /\ head.num < MaxBlocks
    /\ block' = NewBlock(head.num, now, Hash(head))
    /\ batch' = Pending
    /\ receipts' = <<>>
    /\ Goto("next")
    /\ UNCHANGED <<acc, pool, head, disk, writes, index, envVars, gateVars>>

\* The ticker fires: newBlock on top of the head, a copy of the pool.
Produce ==
    /\ pc = "idle" /\ head.num < MaxBlocks
    /\ block' = NewBlock(head.num + 1, now, Hash(head))
    /\ batch' = Pending
    /\ receipts' = <<>>
    /\ Goto("next")
    /\ UNCHANGED <<acc, pool, head, disk, writes, index, envVars, gateVars>>

Current == Head(batch)

\* tx.From(), or the admin if the signature does not recover.
Sender(tx) == IF tx.from = Unsigned THEN Admin ELSE tx.from

Balance(a) == acc[a].balance

Write(a, balance) == [addr |-> a, balance |-> balance]

Considers(tx) == pc = "next" /\ batch # <<>> /\ tx = Current

NonceMatches(tx) == tx.nonce = acc[Sender(tx)].nonce

\* Mutant of CanPay: the comparison with the balance is strict.
CanPayStrictly(tx) == tx.to # NoTo /\ Balance(Sender(tx)) > tx.value

CanPay(tx) == tx.to # NoTo /\ Balance(Sender(tx)) >= tx.value

\* processGORR: both balances are read before either is written.
ProcessGORR(tx) ==
    /\ Considers(tx) /\ NonceMatches(tx) /\ tx.intent = 0 /\ CanPay(tx)
    /\ writes' = <<Write(Sender(tx), Balance(Sender(tx)) - tx.value),
                   Write(tx.to, Balance(tx.to) + tx.value)>>
    /\ Goto("write")
    /\ UNCHANGED <<acc, pool, head, disk, batch, block, receipts, index, envVars, gateVars>>

\* The intent exists, is in GORR and belongs to the receiver; its status is
\* not looked at.
Payable(tx) ==
    /\ tx.intent \in Gateway!Id /\ tx.to # NoTo
    /\ intents[tx.intent].token = "GORR" /\ intents[tx.intent].merchant = tx.to

\* Mutant of ProcessPayment: the sender is debited last.
ProcessPaymentDebitLast(tx) ==
    LET from == Sender(tx)
        fee  == (tx.value * treasuryFeeBps) \div bpsDenominator
    IN /\ Considers(tx) /\ NonceMatches(tx) /\ Payable(tx) /\ CanPay(tx)
       /\ Gateway!GetIntent(tx.intent)
       /\ writes' = <<Write(tx.to, Balance(tx.to) + (tx.value - fee)),
                      Write(Treasury, Balance(Treasury) + fee),
                      Write(from, Balance(from) - tx.value)>>
       /\ Goto("write")
       /\ UNCHANGED <<acc, pool, head, disk, batch, block, receipts, index, envVars>>

\* processPaymentGORR up to the writes; GetIntent updates the intent's status.
ProcessPayment(tx) ==
    LET from == Sender(tx)
        fee  == (tx.value * treasuryFeeBps) \div bpsDenominator
    IN /\ Considers(tx) /\ NonceMatches(tx) /\ Payable(tx) /\ CanPay(tx)
       /\ Gateway!GetIntent(tx.intent)
       /\ writes' = <<Write(from, Balance(from) - tx.value),
                      Write(tx.to, Balance(tx.to) + (tx.value - fee)),
                      Write(Treasury, Balance(Treasury) + fee)>>
       /\ Goto("write")
       /\ UNCHANGED <<acc, pool, head, disk, batch, block, receipts, index, envVars>>

\* Not processed in this block; the transaction stays in the pool.  A payment
\* that fails after GetIntent has updated the intent.
Skip(tx) ==
    /\ Considers(tx)
    /\ ~(NonceMatches(tx) /\ CanPay(tx) /\ (tx.intent = 0 \/ Payable(tx)))
    /\ IF NonceMatches(tx) /\ tx.intent \in Gateway!Id /\ tx.to # NoTo
       THEN Gateway!GetIntent(tx.intent) ELSE UNCHANGED gateVars
    /\ batch' = Tail(batch)
    /\ UNCHANGED <<acc, pool, head, disk, pc, block, receipts, writes, index, envVars>>

\* Mutant of WriteBalance: one round too many.
WriteBalanceOnceMore ==
    /\ pc = "write"
    /\ LET w == Head(writes) IN acc' = [acc EXCEPT ![w.addr].balance = w.balance]
    /\ writes' = Tail(writes)
    /\ IF Len(writes) >= 1 THEN UNCHANGED pc
       ELSE Goto(IF Current.intent = 0 THEN "include" ELSE "mark")
    /\ UNCHANGED <<pool, head, disk, batch, block, receipts, index, envVars, gateVars>>

\* One SetBalance; it keeps the nonce of the record.
WriteBalance ==
    /\ pc = "write"
    /\ LET w == Head(writes) IN acc' = [acc EXCEPT ![w.addr].balance = w.balance]
    /\ writes' = Tail(writes)
    /\ IF Len(writes) > 1 THEN UNCHANGED pc
       ELSE Goto(IF Current.intent = 0 THEN "include" ELSE "mark")
    /\ UNCHANGED <<pool, head, disk, batch, block, receipts, index, envVars, gateVars>>

\* Mutant of MarkPaid: the time of payment is that of the call.
MarkPaidWallClock ==
    /\ pc = "mark"
    /\ LET tx == Current IN
       IF tx.value > 0
       THEN Gateway!MarkPaidFromTx(tx.intent, Sender(tx), tx.to, tx.value, tx, now)
       ELSE UNCHANGED gateVars
    /\ Goto("include")
    /\ UNCHANGED <<acc, pool, head, disk, workVars, envVars>>

\* Mutant of MarkPaid: payer and merchant are swapped.
MarkPaidSwapped ==
    /\ pc = "mark"
    /\ LET tx == Current IN
       IF tx.value > 0
       THEN Gateway!MarkPaidFromTx(tx.intent, tx.to, Sender(tx), tx.value, tx, block.time)
       ELSE UNCHANGED gateVars
    /\ Goto("include")
    /\ UNCHANGED <<acc, pool, head, disk, workVars, envVars>>

\* MarkPaidFromTx; the producer only logs its error.
MarkPaid ==
    /\ pc = "mark"
    /\ LET tx == Current IN
       IF tx.value > 0
       THEN Gateway!MarkPaidFromTx(tx.intent, Sender(tx), tx.to, tx.value, tx, block.time)
       ELSE UNCHANGED gateVars
    /\ Goto("include")
    /\ UNCHANGED <<acc, pool, head, disk, workVars, envVars>>

\* State.IncreaseNonce reads the record and saves it as it is.
IncreasedNonce(record) == record

Include ==
    /\ pc = "include"
    /\ acc' = [acc EXCEPT ![Sender(Current)] = IncreasedNonce(@)]
    /\ block' = [block EXCEPT !.txs = Append(@, Current)]
    /\ index' = IF disk.index \in {Absent, Torn} THEN NoIndex ELSE disk.index
    /\ Goto("index")
    /\ UNCHANGED <<pool, head, disk, batch, receipts, writes, envVars, gateVars>>

-----------------------------------------------------------------------------
(* Files *)

\* os.WriteFile opens the file with truncation ...
Truncate(here, there) ==
    pc = here /\ Goto(there) /\ UNCHANGED <<acc, pool, head, workVars, envVars, gateVars>>

\* ... and writes it; the goroutine goes on at there.
Fill(here, there) ==
    pc = here /\ Goto(there) /\ UNCHANGED <<acc, pool, head, envVars, gateVars>>

\* Opening fails, or writing fails after the truncation: the error is returned
\* and the goroutine goes on at there.
Fail(here, there) ==
    /\ pc = here /\ failures < MaxFailures
    /\ failures' = failures + 1
    /\ Goto(there)
    /\ UNCHANGED <<acc, head, disk, submitted, crashes, gateVars>>

\* TxPool.Remove: what the loop over the list has kept after n elements.
Without(list, tx) ==
    LET kept[n \in 0..Len(list)] ==
          IF n = 0 THEN <<>>
          ELSE IF list[n] = tx THEN kept[n - 1] ELSE Append(kept[n - 1], list[n])
    IN  kept[Len(list)]

\* After SaveTxIndex, whatever its result: the receipt, and every pooled
\* copy of the transaction is removed.
FinishTx ==
    /\ receipts' = Append(receipts, [tx |-> Current, block |-> block.num,
                                     index |-> Len(block.txs) - 1])
    /\ pool' = Without(pool, Current)
    /\ batch' = Tail(batch)
    /\ index' = NoIndex
    /\ UNCHANGED <<block, writes>>

TruncateIndex == Truncate("index", "indexFill") /\ disk' = [disk EXCEPT !.index = Torn]

\* Mutant of FillIndex: the number of the head instead of the new block.
FillIndexOfHead ==
    /\ pc = "indexFill" /\ Goto("next") /\ FinishTx
    /\ disk' = [disk EXCEPT !.index = [tx \in DOMAIN index \cup {Current} |->
                  IF tx = Current THEN head.num ELSE index[tx]]]
    /\ UNCHANGED <<acc, head, envVars, gateVars>>

FillIndex ==
    /\ pc = "indexFill" /\ Goto("next") /\ FinishTx
    /\ disk' = [disk EXCEPT !.index = [tx \in DOMAIN index \cup {Current} |->
                  IF tx = Current THEN block.num ELSE index[tx]]]
    /\ UNCHANGED <<acc, head, envVars, gateVars>>

FailIndex == (Fail("index", "next") \/ Fail("indexFill", "next")) /\ FinishTx

\* Mutant of SetHead: the block is not saved before the head.
SetHeadWithoutBlock ==
    /\ pc = "next" /\ batch = <<>>
    /\ head' = block
    /\ Goto("head")
    /\ UNCHANGED <<acc, pool, disk, workVars, envVars, gateVars>>

\* SetHead: the head in memory first, then saveBlock, then saveHead.
SetHead ==
    /\ pc = "next" /\ batch = <<>>
    /\ head' = block
    /\ Goto("block")
    /\ UNCHANGED <<acc, pool, disk, workVars, envVars, gateVars>>

TruncateBlock ==
    Truncate("block", "blockFill") /\ disk' = [disk EXCEPT !.block[block.num] = Torn]

FillBlock ==
    /\ Fill("blockFill", "head") /\ UNCHANGED workVars
    /\ disk' = [disk EXCEPT !.block[block.num] = block]

FailBlock ==
    (Fail("block", "receipts") \/ Fail("blockFill", "receipts")) /\ UNCHANGED <<pool, workVars>>

TruncateHead == Truncate("head", "headFill") /\ disk' = [disk EXCEPT !.head = Torn]

FillHead ==
    /\ Fill("headFill", "receipts") /\ UNCHANGED workVars
    /\ disk' = [disk EXCEPT !.head = head]

FailHead ==
    (Fail("head", "receipts") \/ Fail("headFill", "receipts")) /\ UNCHANGED <<pool, workVars>>

TruncateReceipts ==
    Truncate("receipts", "receiptsFill") /\ disk' = [disk EXCEPT !.receipts[block.num] = Torn]

FillReceipts ==
    /\ Fill("receiptsFill", "idle") /\ UNCHANGED workVars
    /\ disk' = [disk EXCEPT !.receipts[block.num] = receipts]

FailReceipts ==
    (Fail("receipts", "idle") \/ Fail("receiptsFill", "idle")) /\ UNCHANGED <<pool, workVars>>

-----------------------------------------------------------------------------
(* Clients, the clock, crashes *)

Submit ==
    /\ submitted < MaxSubmissions /\ pc # "down"
    /\ submitted' = submitted + 1
    /\ \E tx \in Txs : pool' = Append(pool, tx)
    /\ UNCHANGED <<acc, head, disk, pc, workVars, crashes, failures, gateVars>>

UseGateway ==
    /\ pc # "down"
    /\ \/ Gateway!Tick
       \/ \E m \in Addr, a \in InvoiceAmount, t \in TokenName : Gateway!CreateIntent(m, a, t, now)
       \/ \E m \in Addr : Gateway!ListMerchantPayments(m)
    /\ UNCHANGED <<acc, pool, head, disk, pc, workVars, envVars>>

\* The process dies and is started again: loadHead reads head.json, which must
\* parse or the node does not start.
Crash ==
    /\ crashes < MaxCrashes /\ pc # "down"
    /\ crashes' = crashes + 1
    /\ IF disk.head = Torn THEN Goto("down") /\ UNCHANGED head
                           ELSE Goto("idle") /\ head' = disk.head
    /\ pool' = <<>>
    /\ block' = head'
    /\ batch' = <<>> /\ writes' = <<>> /\ receipts' = <<>> /\ index' = NoIndex
    /\ Gateway!Restart
    /\ UNCHANGED <<acc, disk, submitted, failures>>

\* The node is down for good, or has produced the blocks the bound allows.
Rest == (pc = "down" \/ (pc = "idle" /\ head.num = MaxBlocks)) /\ UNCHANGED vars

Produces ==
    \/ Produce
    \/ \E tx \in Txs : ProcessGORR(tx) \/ ProcessPayment(tx) \/ Skip(tx)
    \/ WriteBalance \/ MarkPaid \/ Include \/ SetHead
    \/ TruncateIndex \/ FillIndex \/ FailIndex
    \/ TruncateBlock \/ FillBlock \/ FailBlock
    \/ TruncateHead \/ FillHead \/ FailHead
    \/ TruncateReceipts \/ FillReceipts \/ FailReceipts

Next == Produces \/ Submit \/ UseGateway \/ Crash \/ Rest

Spec == Init /\ [][Next]_vars

\* The ticker keeps firing and the producer's goroutine keeps running.
FairSpec == Spec /\ WF_vars(Produces)

-----------------------------------------------------------------------------
(* Properties *)

Place == {"idle", "next", "write", "mark", "include", "index", "indexFill", "block",
          "blockFill", "head", "headFill", "receipts", "receiptsFill", "down"}

IsBlock(b) == /\ DOMAIN b = {"num", "time", "parent", "txs"}
              /\ b.num \in 0..MaxBlocks /\ b.time \in 0..MaxTime /\ b.txs \in Seq(Txs)

Receipt == [tx : Txs, block : 1..MaxBlocks, index : Nat]

\* Files hold blocks and receipts or are torn, a balance is never negative, and
\* the producer still has at hand the transaction that it works on.
TypeOK ==
    /\ acc \in [Addr -> [nonce : Nat, balance : Nat]]
    /\ pool \in Seq(Txs) /\ batch \in Seq(Txs) /\ receipts \in Seq(Receipt)
    /\ IsBlock(head) /\ IsBlock(block) /\ pc \in Place
    /\ \A n \in 0..MaxBlocks :
         /\ (disk.block[n] \in {Absent, Torn} \/ IsBlock(disk.block[n]))
         /\ (disk.receipts[n] \in {Absent, Torn} \/ disk.receipts[n] \in Seq(Receipt))
    /\ disk.head = Torn \/ IsBlock(disk.head)
    /\ writes \in Seq([addr : Addr, balance : Nat])
    /\ pc = "write" => writes # <<>>
    /\ pc \in {"write", "mark", "include", "index", "indexFill"} => batch # <<>>
    /\ Gateway!TypeOK

Saved(n) == disk.block[n] \notin {Absent, Torn}

\* The blocks from genesis to b can be loaded, each on top of the one before.
Linked(b) ==
    /\ \A n \in 0..b.num : Saved(n) /\ disk.block[n].num = n
    /\ \A n \in 1..b.num : disk.block[n].parent = Hash(disk.block[n - 1])
    /\ disk.block[b.num] = b

\* Whatever head.json says at a restart, the chain below it is complete on
\* disk, each block naming the hash of its parent: SetHead writes the block
\* before the head, and a crash between the two forgets the block.
ChainOnDisk == disk.head # Torn => Linked(disk.head)

\* A block at or below the saved head is never replaced, although the numbers
\* of blocks whose head was not saved are used again after a restart.
SavedBlocks == IF disk.head = Torn THEN {} ELSE 0..disk.head.num

SavedBlocksAreFinal ==
    [][\A n \in SavedBlocks : disk'.block[n] = disk.block[n]]_vars

Total(accounts) == SumOver([a \in Addr |-> accounts[a].balance], Addr)

\* Blocks move funds and never create them.  A crash between the SetBalance
\* calls of a transfer loses the amount that was under way, since the debit is
\* written first; without a crash nothing is lost either.
FundsNotCreated ==
    /\ Total(acc) <= Total(GenesisAccounts)
    /\ crashes = 0 /\ pc # "write" => Total(acc) = Total(GenesisAccounts)

\* The blocks on disk up to the head, and the one being built.
SavedChain == {disk.block[n] : n \in {m \in 1..head.num : Saved(m)}}

\* An intent that names a transaction was paid by it: the transaction is in a
\* block of that time (or about to be), is signed by the payer, and pays the
\* merchant at least the amount of the invoice.  No crash leaves an intent
\* paid by a block that is lost, because the intents are lost with it.
PaidIntentInChain ==
    \A id \in Gateway!Id :
        LET i  == intents[id]
            tx == i.txHash
        IN tx # NoTx =>
            /\ Sender(tx) = i.payer /\ tx.to = i.merchant /\ tx.value >= i.amount
            /\ tx.intent = id
            /\ \/ pc = "include" /\ Current = tx /\ block.time = i.paidAt
               \/ \E b \in SavedChain \cup {block} : b.time = i.paidAt /\ Contains(b.txs, tx)

\* A payment of at least the invoice's amount that is in a block has closed its
\* intent: it is paid, by this transaction or another one, or was found expired
\* when the block was made.  So MarkPaidFromTx refuses money that has moved
\* already only for an underpayment or an intent that is closed.  Stated for
\* runs without a crash, which would forget the intents.
FullPaymentClosesIntent ==
    pc = "idle" /\ crashes = 0 =>
        \A b \in SavedChain, tx \in Txs :
            (Contains(b.txs, tx) /\ tx.intent # 0 /\ tx.value >= intents[tx.intent].amount)
                => \/ intents[tx.intent].paid
                   \/ intents[tx.intent].status = "expired" /\ now > intents[tx.intent].expiry

\* "Nonce verhogen pas na succesvolle verwerking" (producer.go:131): the nonce
\* of an account is the number of its transactions in the chain.
NonceCountsTxs ==
    pc = "idle" => \A a \in Addr :
        acc[a].nonce = MapThenSumSet(
            LAMBDA b : Len(SelectSeq(b.txs, LAMBDA tx : Sender(tx) = a)), SavedChain)

\* "Tx indexeren voor eth_getTransactionReceipt / eth_getTransactionByHash"
\* (producer.go:140): between blocks, the index finds exactly the transactions
\* of the chain, each in a block that has it, and the receipts of a block are
\* those of its transactions, in their order.  A crash breaks it, because the
\* index is saved before the block.
LookupConsistent ==
    pc = "idle" /\ crashes = 0 =>
        LET lookup == IF disk.index \in {Absent, Torn} THEN NoIndex ELSE disk.index IN
        /\ \A tx \in DOMAIN lookup : \E b \in SavedChain : b.num = lookup[tx] /\ Contains(b.txs, tx)
        /\ \A b \in SavedChain :
             /\ \A tx \in Txs : Contains(b.txs, tx) => tx \in DOMAIN lookup /\ lookup[tx] >= b.num
             /\ disk.receipts[b.num] =
                  [k \in DOMAIN b.txs |-> [tx |-> b.txs[k], block |-> b.num, index |-> k - 1]]

\* A transaction that its sender can pay is in some block sooner or later, and
\* leaves the pool with all its copies.
PooledTxsAreIncluded ==
    \A tx \in Txs : (pc = "idle" /\ head.num < MaxBlocks /\ Contains(pool, tx)) ~> ~Contains(pool, tx)
=============================================================================
