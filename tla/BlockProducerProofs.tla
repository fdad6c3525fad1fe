-------------------------- MODULE BlockProducerProofs --------------------------
(* Theorems about BlockProducer: its chain files, the nonces and funds of  *)
(* its accounts, its payments and its index, for every pool, every number  *)
(* of blocks, transactions and crashes, and whatever clients do with the   *)
(* payment gateway.                                                        *)
EXTENDS BlockProducer, SumProofs, TLAPS

\* Where a block is being filled, and where SetHead saves it.
Building == {"next", "write", "mark", "include", "index", "indexFill"}
SavingBlock == {"block", "blockFill"}
SavingHead == {"head", "headFill"}

IsHeader(b) == DOMAIN b = {"num", "time", "parent", "txs"} /\ b.num \in 0..MaxBlocks

\* The four kinds of files.
Files ==
    /\ disk = [f \in {"block", "head", "index", "receipts"} |-> disk[f]]
    /\ disk.block = [n \in 0..MaxBlocks |-> disk.block[n]]

\* The saved head is never above the head in memory, and below the block
\* that is being written; a new block has the number after the head.
NumberInv ==
    /\ Files /\ IsHeader(head) /\ IsHeader(block)
    /\ disk.head # Torn => IsHeader(disk.head) /\ disk.head.num <= head.num
    /\ pc \in Building => block.num = head.num + 1
    /\ pc \in SavingBlock \cup SavingHead => block = head
    /\ pc \in SavingBlock /\ disk.head # Torn => disk.head.num < head.num

LEMMA Bounds == MaxBlocks \in Nat /\ MaxFailures \in Nat
  BY ProducerAssumption

\* Steps that leave the files and the head alone and keep the block's number.
Quiet ==
    /\ UNCHANGED <<head, disk>>
    /\ IsHeader(block)' /\ block'.num = block.num /\ block'.parent = block.parent
    /\ \/ pc' = pc
       \/ pc \in Building /\ pc' \in Building
    /\ pc \notin Building => block' = block

LEMMA HeaderWithTxs ==
  ASSUME NEW b, IsHeader(b), NEW txs
  PROVE  LET c == [b EXCEPT !.txs = txs] IN
         IsHeader(c) /\ c.num = b.num /\ c.parent = b.parent
  BY DEF IsHeader

\* What a step does to files, head and block, seen from outside the gateway.
LEMMA QuietSteps ==
  ASSUME IsHeader(block),
         \/ \E tx \in Txs : ProcessGORR(tx) \/ ProcessPayment(tx) \/ Skip(tx)
         \/ WriteBalance \/ MarkPaid \/ Include
         \/ Submit \/ UseGateway \/ Rest \/ UNCHANGED vars
  PROVE  Quiet
  <1>1. CASE \E tx \in Txs : ProcessGORR(tx) \/ ProcessPayment(tx) \/ Skip(tx)
    BY <1>1 DEF ProcessGORR, ProcessPayment, Skip, Considers, Goto, Quiet, Building, IsHeader
  <1>2. CASE WriteBalance
    BY <1>2 DEF WriteBalance, Goto, Quiet, Building, IsHeader
  <1>3. CASE MarkPaid
    BY <1>3 DEF MarkPaid, Goto, workVars, Quiet, Building, IsHeader
  <1>4. CASE Include
    <2>1. /\ pc = "include" /\ pc' = "index" /\ UNCHANGED <<head, disk>>
          /\ block' = [block EXCEPT !.txs = Append(@, Current)]
      BY <1>4 DEF Include, Goto
    <2>2. IsHeader(block)' /\ block'.num = block.num /\ block'.parent = block.parent
      BY <2>1, HeaderWithTxs DEF IsHeader
    <2>3. QED
      BY <2>1, <2>2 DEF Quiet, Building
  <1>5. CASE Submit \/ UseGateway \/ Rest \/ UNCHANGED vars
    BY <1>5 DEF Submit, UseGateway, Rest, vars, workVars, Quiet, IsHeader
  <1>6. QED
    BY <1>1, <1>2, <1>3, <1>4, <1>5

\* The two halves of a write, and its failure, at every file.
LEMMA FileSteps ==
  ASSUME Files
  PROVE  /\ TruncateIndex \/ FillIndex \/ FailIndex =>
              /\ UNCHANGED <<head, block>> /\ pc \in Building /\ pc' \in Building
              /\ Files' /\ disk'.block = disk.block /\ disk'.head = disk.head
         /\ TruncateReceipts \/ FillReceipts \/ FailReceipts =>
              /\ UNCHANGED <<head, block>> /\ pc \in {"receipts", "receiptsFill"}
              /\ pc' \in {"receiptsFill", "idle"}
              /\ Files' /\ disk'.block = disk.block /\ disk'.head = disk.head
         /\ TruncateBlock =>
              /\ UNCHANGED <<head, block>> /\ pc = "block" /\ pc' = "blockFill"
              /\ Files' /\ disk'.head = disk.head
              /\ disk'.block = [disk.block EXCEPT ![block.num] = Torn]
         /\ FillBlock =>
              /\ UNCHANGED <<head, block>> /\ pc = "blockFill" /\ pc' = "head"
              /\ Files' /\ disk'.head = disk.head
              /\ disk'.block = [disk.block EXCEPT ![block.num] = block]
         /\ TruncateHead =>
              /\ UNCHANGED <<head, block>> /\ pc = "head" /\ pc' = "headFill"
              /\ Files' /\ disk'.block = disk.block /\ disk'.head = Torn
         /\ FillHead =>
              /\ UNCHANGED <<head, block>> /\ pc = "headFill" /\ pc' = "receipts"
              /\ Files' /\ disk'.block = disk.block /\ disk'.head = head
         /\ FailBlock \/ FailHead =>
              /\ UNCHANGED <<head, block, disk>> /\ pc' = "receipts"
              /\ pc \in SavingBlock \cup SavingHead
  <1>1. TruncateIndex \/ FillIndex \/ FailIndex =>
              /\ UNCHANGED <<head, block>> /\ pc \in Building /\ pc' \in Building
              /\ Files' /\ disk'.block = disk.block /\ disk'.head = disk.head
    BY DEF Files, TruncateIndex, FillIndex, FailIndex, Truncate, Fail, FinishTx, Goto, workVars, Building
  <1>2. TruncateReceipts \/ FillReceipts \/ FailReceipts =>
              /\ UNCHANGED <<head, block>> /\ pc \in {"receipts", "receiptsFill"}
              /\ pc' \in {"receiptsFill", "idle"}
              /\ Files' /\ disk'.block = disk.block /\ disk'.head = disk.head
    BY DEF Files, TruncateReceipts, FillReceipts, FailReceipts, Truncate, Fill, Fail, Goto, workVars
  <1>3. TruncateBlock =>
              /\ UNCHANGED <<head, block>> /\ pc = "block" /\ pc' = "blockFill"
              /\ Files' /\ disk'.head = disk.head
              /\ disk'.block = [disk.block EXCEPT ![block.num] = Torn]
    BY DEF Files, TruncateBlock, Truncate, Goto, workVars
  <1>4. FillBlock =>
              /\ UNCHANGED <<head, block>> /\ pc = "blockFill" /\ pc' = "head"
              /\ Files' /\ disk'.head = disk.head
              /\ disk'.block = [disk.block EXCEPT ![block.num] = block]
    BY DEF Files, FillBlock, Fill, Goto, workVars
  <1>5. TruncateHead =>
              /\ UNCHANGED <<head, block>> /\ pc = "head" /\ pc' = "headFill"
              /\ Files' /\ disk'.block = disk.block /\ disk'.head = Torn
    BY DEF Files, TruncateHead, Truncate, Goto, workVars
  <1>6. FillHead =>
              /\ UNCHANGED <<head, block>> /\ pc = "headFill" /\ pc' = "receipts"
              /\ Files' /\ disk'.block = disk.block /\ disk'.head = head
    BY DEF Files, FillHead, Fill, Goto, workVars
  <1>7. FailBlock \/ FailHead =>
              /\ UNCHANGED <<head, block, disk>> /\ pc' = "receipts"
              /\ pc \in SavingBlock \cup SavingHead
    BY DEF FailBlock, FailHead, Fail, Goto, workVars, SavingBlock, SavingHead
  <1>8. QED
    BY <1>1, <1>2, <1>3, <1>4, <1>5, <1>6, <1>7

\* Produce puts a block on top of the head; SetHead makes it the head.
LEMMA ChainSteps ==
  ASSUME IsHeader(head)
  PROVE  /\ Produce =>
              /\ UNCHANGED <<head, disk>> /\ pc = "idle" /\ pc' = "next"
              /\ IsHeader(block)' /\ block'.num = head.num + 1 /\ block'.parent = Hash(head)
         /\ SetHead =>
              /\ UNCHANGED <<block, disk>> /\ pc = "next" /\ pc' = "block" /\ head' = block
  <1>1. Produce =>
              /\ UNCHANGED <<head, disk>> /\ pc = "idle" /\ pc' = "next"
              /\ IsHeader(block)' /\ block'.num = head.num + 1 /\ block'.parent = Hash(head)
    BY Bounds DEF Produce, NewBlock, Goto, IsHeader
  <1>2. SetHead =>
              /\ UNCHANGED <<block, disk>> /\ pc = "next" /\ pc' = "block" /\ head' = block
    BY DEF SetHead, Goto, workVars
  <1>3. QED
    BY <1>1, <1>2

\* A restart: the head is the one that was saved, or the node stays down.
LEMMA CrashStep ==
  Crash =>
    /\ UNCHANGED disk /\ block' = head'
    /\ \/ disk.head = Torn /\ pc' = "down" /\ UNCHANGED head
       \/ disk.head # Torn /\ pc' = "idle" /\ head' = disk.head
  BY DEF Crash, Goto

-----------------------------------------------------------------------------
(* Numbers *)

LEMMA InitNumbers == Init => NumberInv
  BY Bounds DEF Init, Genesis, NewBlock, NumberInv, Files, IsHeader, Building, SavingBlock, SavingHead

LEMMA StepNumbers == NumberInv /\ [Next]_vars => NumberInv'
  <1> SUFFICES ASSUME NumberInv, [Next]_vars PROVE NumberInv'
    OBVIOUS
  <1> USE DEF Building, SavingBlock, SavingHead
  <1>0. Files /\ IsHeader(head) /\ IsHeader(block)
    BY DEF NumberInv
  <1>1. CASE Quiet
    BY <1>1 DEF Quiet, NumberInv, Files, IsHeader
  <1>2. CASE TruncateIndex \/ FillIndex \/ FailIndex
    BY <1>0, <1>2, FileSteps DEF NumberInv, IsHeader
  <1>3. CASE TruncateReceipts \/ FillReceipts \/ FailReceipts
    BY <1>0, <1>3, FileSteps DEF NumberInv, IsHeader
  <1>4. CASE TruncateBlock \/ FillBlock
    BY <1>0, <1>4, FileSteps DEF NumberInv, IsHeader
  <1>5. CASE TruncateHead
    BY <1>0, <1>5, FileSteps DEF NumberInv, IsHeader
  <1>6. CASE FillHead
    BY <1>0, <1>6, FileSteps DEF NumberInv, IsHeader
  <1>7. CASE FailBlock \/ FailHead
    BY <1>0, <1>7, FileSteps DEF NumberInv, Files, IsHeader
  <1>8. CASE Produce
    BY <1>0, <1>8, ChainSteps DEF NumberInv, Files, IsHeader
  <1>9. CASE SetHead
    BY <1>0, <1>9, ChainSteps DEF NumberInv, Files, IsHeader
  <1>10. CASE Crash
    <2>1. CASE disk.head = Torn /\ pc' = "down" /\ UNCHANGED head
      BY <1>0, <1>10, <2>1, CrashStep DEF NumberInv, Files, IsHeader
    <2>2. CASE disk.head # Torn /\ pc' = "idle" /\ head' = disk.head
      <3>1. /\ UNCHANGED disk /\ block' = disk.head /\ IsHeader(disk.head)
            /\ disk.head.num <= disk.head.num
        BY <1>10, <2>2, CrashStep, Bounds DEF NumberInv, IsHeader
      <3>2. Files' /\ IsHeader(head)' /\ IsHeader(block)'
        BY <1>0, <2>2, <3>1 DEF Files, IsHeader
      <3>3. QED
        BY <2>2, <3>1, <3>2 DEF NumberInv, IsHeader
    <2>3. QED
      BY <1>10, <2>1, <2>2, CrashStep
  <1>11. QED
    BY <1>0, <1>1, <1>2, <1>3, <1>4, <1>5, <1>6, <1>7, <1>8, <1>9, <1>10, QuietSteps
       DEF Next, Produces

\* A block whose head was saved is never replaced, also when writes fail and
\* numbers are used again after a crash: SetHead writes above the saved head only.
THEOREM SavedBlocksStay == Spec => SavedBlocksAreFinal
  <1>1. ASSUME NumberInv, [Next]_vars, NEW n \in SavedBlocks
        PROVE  disk'.block[n] = disk.block[n]
    <2>0. Files /\ IsHeader(head) /\ IsHeader(block)
      BY <1>1 DEF NumberInv
    <2>1. CASE TruncateBlock \/ FillBlock
      <3>1. /\ pc \in SavingBlock /\ block = head
            /\ \E content : disk'.block = [disk.block EXCEPT ![block.num] = content]
        BY <1>1, <2>0, <2>1, FileSteps DEF NumberInv, SavingBlock
      <3>2. n # block.num
        BY <1>1, <3>1, Bounds DEF SavedBlocks, NumberInv, IsHeader
      <3>3. QED
        BY <3>1, <3>2, <2>0 DEF Files
    <2>2. CASE Quiet \/ Produce \/ SetHead \/ Crash
      BY <2>0, <2>2, ChainSteps, CrashStep DEF Quiet
    <2>3. CASE \/ TruncateIndex \/ FillIndex \/ FailIndex
               \/ TruncateReceipts \/ FillReceipts \/ FailReceipts
               \/ TruncateHead \/ FillHead \/ FailBlock \/ FailHead
      BY <2>0, <2>3, FileSteps
    <2>4. QED
      BY <1>1, <2>0, <2>1, <2>2, <2>3, QuietSteps DEF Next, Produces
  <1>2. NumberInv /\ [Next]_vars
          => [\A n \in SavedBlocks : disk'.block[n] = disk.block[n]]_vars
    BY <1>1
  <1>3. QED
    BY <1>2, InitNumbers, StepNumbers, PTL DEF Spec, SavedBlocksAreFinal

-----------------------------------------------------------------------------
(* The chain, when no write fails *)

\* What tells a file that holds a block from one that is missing or torn.
BlocksAreTold == \A b : IsHeader(b) => b \notin {Absent, Torn}

\* What loadHead and the producer find in the files below b.
Stored(b) == IsHeader(b) /\ Linked(b)

\* Outside SetHead the head in memory is the saved one, if that can be read; a
\* new block names it as its parent until its own head is saved.
ChainInv ==
    /\ failures = 0
    /\ disk.head # Torn => Stored(disk.head)
    /\ pc \notin SavingBlock \cup SavingHead \cup {"down"} => disk.head = head /\ Stored(head)
    /\ pc \in Building => block.parent = Hash(head)
    /\ pc \in SavingBlock =>
         /\ Stored(disk.head) /\ head.num = disk.head.num + 1
         /\ head.parent = Hash(disk.head)
    /\ pc \in SavingHead => Stored(head)

\* Writing above a stored chain leaves it stored; on top of it, it extends it.
LEMMA StoredBelow ==
  ASSUME Files, NEW b, Stored(b), NEW n \in 0..MaxBlocks, n > b.num, NEW content,
         disk'.block = [disk.block EXCEPT ![n] = content]
  PROVE  Stored(b)'
  <1>1. b.num \in 0..MaxBlocks /\ \A k \in 0..b.num : k # n /\ k \in 0..MaxBlocks
    BY Bounds DEF Stored, IsHeader
  <1>2. \A k \in 0..b.num : disk'.block[k] = disk.block[k]
    BY <1>1 DEF Files
  <1>3. \A k \in 1..b.num : k \in 0..b.num /\ k - 1 \in 0..b.num
    BY <1>1
  <1>4. QED
    BY <1>1, <1>2, <1>3 DEF Stored, IsHeader, Linked, Saved

LEMMA StoredOnTop ==
  ASSUME Files, BlocksAreTold, NEW b, NEW c, Stored(b), IsHeader(c),
         c.num = b.num + 1, c.parent = Hash(b),
         disk'.block = [disk.block EXCEPT ![c.num] = c]
  PROVE  Stored(c)'
  <1>1. b.num \in 0..MaxBlocks /\ c.num \in 0..MaxBlocks /\ c.num > b.num
    BY Bounds DEF Stored, IsHeader
  <1>2. Stored(b)'
    BY <1>1, StoredBelow
  <1>3. disk'.block[c.num] = c /\ c \notin {Absent, Torn}
    BY <1>1 DEF Files, BlocksAreTold
  <1>4. \A n \in 0..c.num : n \in 0..b.num \/ n = c.num
    BY <1>1
  <1>5. \A n \in 1..c.num : n \in 1..b.num \/ (n = c.num /\ n - 1 = b.num)
    BY <1>1
  <1>6. /\ \A n \in 0..b.num : Saved(n)' /\ disk'.block[n].num = n
        /\ \A n \in 1..b.num : disk'.block[n].parent = Hash(disk'.block[n - 1])
        /\ disk'.block[b.num] = b
    BY <1>2 DEF Stored, Linked
  <1>7. \A n \in 0..c.num : Saved(n)' /\ disk'.block[n].num = n
    BY <1>3, <1>4, <1>6 DEF Saved
  <1>8. \A n \in 1..c.num : disk'.block[n].parent = Hash(disk'.block[n - 1])
    BY <1>3, <1>5, <1>6
  <1>9. QED
    BY <1>3, <1>7, <1>8 DEF Stored, Linked, IsHeader

\* What is stored depends on the block files only.
LEMMA StoredStays ==
  ASSUME NEW b, Stored(b), disk'.block = disk.block
  PROVE  Stored(b)'
  BY DEF Stored, Linked, Saved, IsHeader

LEMMA NothingFails ==
  ASSUME MaxFailures = 0, failures = 0, [Next]_vars
  PROVE  /\ failures' = 0
         /\ ~(FailIndex \/ FailBlock \/ FailHead \/ FailReceipts)
  <1>1. ~(FailIndex \/ FailBlock \/ FailHead \/ FailReceipts)
    BY DEF FailIndex, FailBlock, FailHead, FailReceipts, Fail
  <1>2. CASE \E tx \in Txs : ProcessGORR(tx) \/ ProcessPayment(tx) \/ Skip(tx)
    BY <1>1, <1>2 DEF ProcessGORR, ProcessPayment, Skip, envVars
  <1>3. CASE Produce \/ WriteBalance \/ MarkPaid \/ Include \/ SetHead
    BY <1>1, <1>3 DEF Produce, WriteBalance, MarkPaid, Include, SetHead, envVars
  <1>4. CASE TruncateIndex \/ TruncateBlock \/ TruncateHead \/ TruncateReceipts
    BY <1>1, <1>4 DEF TruncateIndex, TruncateBlock, TruncateHead, TruncateReceipts, Truncate, envVars
  <1>5. CASE FillIndex \/ FillBlock \/ FillHead \/ FillReceipts
    BY <1>1, <1>5 DEF FillIndex, FillBlock, FillHead, FillReceipts, Fill, envVars
  <1>6. CASE Submit \/ UseGateway \/ Crash \/ Rest \/ UNCHANGED vars
    BY <1>1, <1>6 DEF Submit, UseGateway, Crash, Rest, vars, envVars
  <1>7. QED
    BY <1>1, <1>2, <1>3, <1>4, <1>5, <1>6 DEF Next, Produces

LEMMA InitChain == BlocksAreTold /\ Init => ChainInv
  <1> SUFFICES ASSUME BlocksAreTold, Init PROVE ChainInv
    OBVIOUS
  <1>1. /\ disk.head = Genesis /\ head = Genesis /\ disk.block[0] = Genesis
        /\ IsHeader(Genesis) /\ Genesis.num = 0 /\ failures = 0 /\ pc = "idle"
    BY Bounds DEF Init, Genesis, NewBlock, IsHeader
  <1>2. Stored(Genesis)
    BY <1>1 DEF BlocksAreTold, Stored, Linked, Saved
  <1>3. QED
    BY <1>1, <1>2 DEF ChainInv, Building, SavingBlock, SavingHead

LEMMA StepChain ==
  ASSUME MaxFailures = 0, BlocksAreTold, NumberInv, ChainInv, [Next]_vars
  PROVE  ChainInv'
  <1> USE DEF Building, SavingBlock, SavingHead
  <1>0. Files /\ IsHeader(head) /\ IsHeader(block) /\ failures = 0
    BY DEF NumberInv, ChainInv
  <1>1. failures' = 0 /\ ~(FailIndex \/ FailBlock \/ FailHead \/ FailReceipts)
    BY <1>0, NothingFails
  <1>2. CASE disk'.block = disk.block /\ ~(TruncateBlock \/ FillBlock)
    <2>0. \A b : Stored(b) => Stored(b)'
      BY <1>2, StoredStays
    <2>1. CASE Quiet
      BY <1>1, <2>0, <2>1 DEF Quiet, ChainInv, Hash
    <2>2. CASE TruncateIndex \/ FillIndex
      BY <1>0, <1>1, <2>0, <2>2, FileSteps DEF ChainInv, Hash
    <2>3. CASE TruncateReceipts \/ FillReceipts
      BY <1>0, <1>1, <2>0, <2>3, FileSteps DEF ChainInv, Hash
    <2>4. CASE TruncateHead
      BY <1>0, <1>1, <2>0, <2>4, FileSteps DEF ChainInv
    <2>5. CASE FillHead
      BY <1>0, <1>1, <2>0, <2>5, FileSteps DEF ChainInv
    <2>6. CASE Produce
      BY <1>0, <1>1, <2>0, <2>6, ChainSteps DEF ChainInv, Hash
    <2>7. CASE SetHead
      BY <1>0, <1>1, <2>0, <2>7, ChainSteps DEF ChainInv, NumberInv
    <2>8. CASE Crash
      BY <1>0, <1>1, <2>0, <2>8, CrashStep DEF ChainInv
    <2>9. QED
      BY <1>0, <1>1, <1>2, <2>1, <2>2, <2>3, <2>4, <2>5, <2>6, <2>7, <2>8, QuietSteps
         DEF Next, Produces
  <1>3. CASE TruncateBlock
    <2>1. /\ UNCHANGED <<head, block>> /\ pc = "block" /\ pc' = "blockFill"
          /\ disk'.head = disk.head /\ block = head
          /\ disk'.block = [disk.block EXCEPT ![block.num] = Torn]
      BY <1>0, <1>3, FileSteps DEF NumberInv
    <2>2. Stored(disk.head) /\ block.num = disk.head.num + 1 /\ head.parent = Hash(disk.head)
      BY <2>1 DEF ChainInv
    <2>3. Stored(disk.head)'
      <3>1. /\ disk.head.num \in 0..MaxBlocks /\ block.num \in 0..MaxBlocks
            /\ block.num > disk.head.num
        BY <1>0, <2>2 DEF Stored, IsHeader
      <3>2. QED
        BY <1>0, <2>1, <2>2, <3>1, StoredBelow
    <2>4. QED
      BY <1>1, <2>1, <2>2, <2>3 DEF ChainInv, Hash
  <1>4. CASE FillBlock
    <2>1. /\ UNCHANGED <<head, block>> /\ pc = "blockFill" /\ pc' = "head"
          /\ disk'.head = disk.head /\ block = head
          /\ disk'.block = [disk.block EXCEPT ![block.num] = block]
      BY <1>0, <1>4, FileSteps DEF NumberInv
    <2>2. Stored(disk.head) /\ block.num = disk.head.num + 1 /\ head.parent = Hash(disk.head)
      BY <2>1 DEF ChainInv
    <2>3. Stored(disk.head)'
      <3>1. /\ disk.head.num \in 0..MaxBlocks /\ block.num \in 0..MaxBlocks
            /\ block.num > disk.head.num
        BY <1>0, <2>2 DEF Stored, IsHeader
      <3>2. QED
        BY <1>0, <2>1, <2>2, <3>1, StoredBelow
    <2>4. Stored(head)'
      BY <1>0, <2>1, <2>2, StoredOnTop
    <2>5. QED
      BY <1>1, <2>1, <2>3, <2>4 DEF ChainInv
  <1>5. disk'.block = disk.block \/ TruncateBlock \/ FillBlock
    BY <1>0, <1>1, QuietSteps, FileSteps, ChainSteps, CrashStep DEF Next, Produces, Quiet
  <1>6. QED
    BY <1>2, <1>3, <1>4, <1>5

\* As long as no write fails, the chain below the saved head is complete and
\* linked, for every number of blocks and wherever the process died.
THEOREM SavedChainComplete ==
  ASSUME MaxFailures = 0, BlocksAreTold
  PROVE  Spec => []ChainOnDisk
  <1>1. Init => NumberInv /\ ChainInv
    BY InitNumbers, InitChain
  <1>2. NumberInv /\ ChainInv /\ [Next]_vars => (NumberInv /\ ChainInv)'
    BY StepNumbers, StepChain
  <1>3. NumberInv /\ ChainInv => ChainOnDisk
    BY DEF ChainInv, ChainOnDisk, Stored
  <1>4. QED
    BY <1>1, <1>2, <1>3, PTL DEF Spec

-----------------------------------------------------------------------------
(* TxPool.Remove *)

LEMMA SmallestNumber ==
  ASSUME NEW B \in SUBSET Nat, B # {}
  PROVE  \E n \in B : \A m \in B : n <= m
  <1>1. PICK n \in B : \A m \in B : <<m, n>> \notin OpToRel(<, Nat)
    BY NatLessThanWellFounded, WFMin, Zenon
  <1>2. \A m \in B : ~(m < n)
    BY <1>1 DEF OpToRel
  <1>3. QED
    BY <1>2

\* The function that Without defines by recursion, up to length k.
Kept(s, e, k, g) ==
    g = [n \in 0..k |->
           IF n = 0 THEN <<>> ELSE IF s[n] = e THEN g[n - 1] ELSE Append(g[n - 1], s[n])]

LEMMA KeptExists ==
  ASSUME NEW s, NEW e, NEW k \in Nat
  PROVE  \E g : Kept(s, e, k, g)
  <1> DEFINE B == {n \in Nat : ~ \E g : Kept(s, e, n, g)}
  <1>1. ASSUME B # {} PROVE FALSE
    <2>1. PICK n \in B : \A m \in B : n <= m
      <3>1. B \in SUBSET Nat
        OBVIOUS
      <3> HIDE DEF B
      <3>2. QED
        BY <1>1, <3>1, SmallestNumber
    <2>2. n \in Nat /\ ~ \E g : Kept(s, e, n, g)
      BY <2>1
    <2>3. CASE n = 0
      <3> DEFINE g == [m \in 0..0 |-> <<>>]
      <3>1. Kept(s, e, 0, g)
        BY DEF Kept
      <3>2. QED
        BY <2>2, <2>3, <3>1
    <2>4. CASE n # 0
      <3>1. n - 1 \in Nat /\ n - 1 \notin B
        BY <2>1, <2>2, <2>4
      <3>2. PICK h : Kept(s, e, n - 1, h)
        BY <3>1
      <3> DEFINE g == [m \in 0..n |-> IF m < n THEN h[m]
                         ELSE IF s[n] = e THEN h[n - 1] ELSE Append(h[n - 1], s[n])]
      <3>3. \A m \in 0..n : g[m] = IF m = 0 THEN <<>>
                              ELSE IF s[m] = e THEN g[m - 1] ELSE Append(g[m - 1], s[m])
        <4>1. TAKE m \in 0..n
        <4>2. CASE m = 0
          BY <2>2, <2>4, <3>2, <4>2 DEF Kept
        <4>3. CASE m # 0 /\ m < n
          <5>1. m \in 0..(n - 1) /\ m - 1 \in 0..n /\ m - 1 < n /\ m - 1 # n
            BY <2>2, <4>3
          <5>2. g[m] = h[m] /\ g[m - 1] = h[m - 1]
            BY <4>3, <5>1
          <5>3. h[m] = IF s[m] = e THEN h[m - 1] ELSE Append(h[m - 1], s[m])
            BY <3>2, <4>3, <5>1 DEF Kept
          <5>4. QED
            BY <4>3, <5>2, <5>3
        <4>4. CASE m = n
          BY <2>2, <2>4, <4>4
        <4>5. QED
          BY <2>2, <4>2, <4>3, <4>4
      <3>4. g = [m \in 0..n |-> g[m]]
        OBVIOUS
      <3> HIDE DEF g
      <3>5. Kept(s, e, n, g)
        BY <3>3, <3>4 DEF Kept
      <3>6. QED
        BY <2>2, <3>5
    <2>5. QED
      BY <2>3, <2>4
  <1>2. QED
    BY <1>1

LEMMA WithoutType ==
  ASSUME NEW S, NEW s \in Seq(S), NEW e
  PROVE  Without(s, e) \in Seq(S)
  <1> DEFINE g == CHOOSE g : Kept(s, e, Len(s), g)
  <1>1. Without(s, e) = g[Len(s)]
    BY DEF Without, Kept
  <1>2. Kept(s, e, Len(s), g)
    BY KeptExists
  <1> HIDE DEF g
  <1> DEFINE B == {n \in 0..Len(s) : g[n] \notin Seq(S)}
  <1>3. ASSUME B # {} PROVE FALSE
    <2>1. PICK n \in B : \A m \in B : n <= m
      <3>1. B \in SUBSET Nat
        OBVIOUS
      <3> HIDE DEF B
      <3>2. QED
        BY <1>3, <3>1, SmallestNumber
    <2>2. n \in 0..Len(s) /\ g[n] \notin Seq(S)
      BY <2>1
    <2>3. g[0] = <<>> /\ <<>> \in Seq(S)
      BY <1>2 DEF Kept
    <2>4. n # 0
      BY <2>2, <2>3
    <2>5. n - 1 \in 0..Len(s) /\ n \in 1..Len(s) /\ g[n - 1] \in Seq(S)
      BY <2>1, <2>2, <2>4
    <2>6. s[n] \in S
      BY <2>5
    <2>7. g[n] = IF s[n] = e THEN g[n - 1] ELSE Append(g[n - 1], s[n])
      BY <1>2, <2>2, <2>4 DEF Kept
    <2>8. QED
      BY <2>2, <2>5, <2>6, <2>7
  <1>4. QED
    BY <1>1, <1>3

-----------------------------------------------------------------------------
(* The payment gateway inside the node *)

GatewayProofs == INSTANCE PaymentGatewayProofs
                 WITH Merchant <- Addr, Payer <- Addr, TxHash <- Txs,
                      TxAmount <- {tx.value : tx \in Txs}

LEMMA GatewayConstants == GatewayProofs!GatewayAssumption
  BY IntentAssumption, ProducerAssumption DEF GatewayProofs!GatewayAssumption, Tx

\* The two instances of PaymentGateway have the same state and methods.
LEMMA SameGateway ==
  /\ Gateway!Init <=> GatewayProofs!Init
  /\ Gateway!TypeOK <=> GatewayProofs!TypeOK
  /\ Gateway!Id = GatewayProofs!Id
  /\ Gateway!Tick <=> GatewayProofs!Tick
  /\ Gateway!Restart <=> GatewayProofs!Restart
  /\ \A id : Gateway!GetIntent(id) <=> GatewayProofs!GetIntent(id)
  /\ \A m : Gateway!ListMerchantPayments(m) <=> GatewayProofs!ListMerchantPayments(m)
  /\ \A m, a, t, ts : Gateway!CreateIntent(m, a, t, ts) <=> GatewayProofs!CreateIntent(m, a, t, ts)
  /\ \A id, p, m, a, tx, time :
       Gateway!MarkPaidFromTx(id, p, m, a, tx, time) <=> GatewayProofs!MarkPaidFromTx(id, p, m, a, tx, time)
  <1>1. Gateway!Id = GatewayProofs!Id /\ Gateway!Intent = GatewayProofs!Intent
    BY DEF Gateway!Id, GatewayProofs!Id, Gateway!Intent, GatewayProofs!Intent,
           Gateway!Status, GatewayProofs!Status
  <1>2. Gateway!Init <=> GatewayProofs!Init
    BY <1>1 DEF Gateway!Init, GatewayProofs!Init
  <1>3. Gateway!TypeOK <=> GatewayProofs!TypeOK
    BY <1>1 DEF Gateway!TypeOK, GatewayProofs!TypeOK
  <1>4. Gateway!Tick <=> GatewayProofs!Tick
    BY DEF Gateway!Tick, GatewayProofs!Tick
  <1>5. Gateway!Restart <=> GatewayProofs!Restart
    BY DEF Gateway!Restart, GatewayProofs!Restart
  <1>6. \A i, time : Gateway!Updated(i, time) = GatewayProofs!Updated(i, time)
    BY DEF Gateway!Updated, GatewayProofs!Updated
  <1>7. \A id, i : Gateway!Replace(id, i) <=> GatewayProofs!Replace(id, i)
    BY DEF Gateway!Replace, GatewayProofs!Replace
  <1>8. \A id : Gateway!GetIntent(id) <=> GatewayProofs!GetIntent(id)
    BY <1>1, <1>6, <1>7 DEF Gateway!GetIntent, GatewayProofs!GetIntent
  <1>9. \A m : Gateway!ListMerchantPayments(m) <=> GatewayProofs!ListMerchantPayments(m)
    BY <1>1, <1>6 DEF Gateway!ListMerchantPayments, GatewayProofs!ListMerchantPayments
  <1>10. \A m, a, t, ts : Gateway!CreateIntent(m, a, t, ts) <=> GatewayProofs!CreateIntent(m, a, t, ts)
    BY <1>1 DEF Gateway!CreateIntent, GatewayProofs!CreateIntent
  <1>11. \A i, p, m, a, tx, time :
           Gateway!Marked(i, p, m, a, tx, time) = GatewayProofs!Marked(i, p, m, a, tx, time)
    BY DEF Gateway!Marked, GatewayProofs!Marked, Gateway!Updated, GatewayProofs!Updated
  <1>12. \A id, p, m, a, tx, time :
           Gateway!MarkPaidFromTx(id, p, m, a, tx, time)
             <=> GatewayProofs!MarkPaidFromTx(id, p, m, a, tx, time)
    BY <1>1, <1>7, <1>11 DEF Gateway!MarkPaidFromTx, GatewayProofs!MarkPaidFromTx
  <1>13. QED
    BY <1>1, <1>2, <1>3, <1>4, <1>5, <1>8, <1>9, <1>10, <1>12

-----------------------------------------------------------------------------
(* Types *)

\* What the producer still knows of its transaction and its block: outside
\* Building the block is the head, inside it has the time of its Produce, and
\* a payment was found payable before its balances are written.
WorkInv ==
    /\ pc \notin Building => block = head
    /\ pc \in Building => block.time \in 1..now
    /\ pc \in {"index", "indexFill"} => block.txs # <<>>
    /\ pc \in {"write", "mark"} /\ Current.intent # 0 =>
         Current.intent \in Gateway!Id /\ Current.to # NoTo
    /\ pc = "mark" => Current.intent # 0

LEMMA TxFields ==
  ASSUME NEW tx \in Txs
  PROVE  /\ Sender(tx) \in Addr /\ tx.value \in Nat /\ tx.intent \in Nat
         /\ tx.nonce \in Nat /\ (tx.to # NoTo => tx.to \in Addr)
         /\ tx.value \in {t.value : t \in Txs}
  BY ProducerAssumption DEF Tx, Sender

LEMMA CurrentTx ==
  ASSUME batch \in Seq(Txs), batch # <<>>
  PROVE  Current \in Txs /\ Tail(batch) \in Seq(Txs)
  BY DEF Current

LEMMA BlockWithTxs ==
  ASSUME NEW b, IsBlock(b), NEW txs \in Seq(Txs)
  PROVE  LET c == [b EXCEPT !.txs = txs] IN
         /\ IsBlock(c) /\ c.txs = txs
         /\ c.num = b.num /\ c.time = b.time /\ c.parent = b.parent
  BY DEF IsBlock

\* Each step of the node is a step of the gateway or leaves it alone.
LEMMA GatewaySteps ==
  ASSUME TypeOK, WorkInv, [Next]_vars
  PROVE  GatewayProofs!Next \/ UNCHANGED gateVars
  <1>0. /\ batch \in Seq(Txs) /\ now \in 1..MaxTime /\ 1..now \subseteq Nat
        /\ MaxTime \in Nat
    BY IntentAssumption DEF TypeOK, Gateway!TypeOK
  <1>1. CASE \E tx \in Txs : ProcessPayment(tx) \/ Skip(tx)
    <2>1. (\E id \in Gateway!Id : Gateway!GetIntent(id)) \/ UNCHANGED gateVars
      <3>1. PICK tx \in Txs : ProcessPayment(tx) \/ Skip(tx)
        BY <1>1
      <3>2. CASE ProcessPayment(tx)
        BY <3>2 DEF ProcessPayment, Payable
      <3>3. CASE Skip(tx)
        BY <3>3 DEF Skip
      <3>4. QED
        BY <3>1, <3>2, <3>3
    <2>2. QED
      BY <2>1, SameGateway DEF GatewayProofs!Next
  <1>2. CASE MarkPaid
    <2>1. batch # <<>> /\ Current.intent \in Gateway!Id /\ Current.to # NoTo /\ block.time \in 1..now
      BY <1>2 DEF MarkPaid, TypeOK, WorkInv, Building
    <2>2. Current \in Txs
      BY <1>0, <2>1, CurrentTx
    <2>3. \/ Gateway!MarkPaidFromTx(Current.intent, Sender(Current), Current.to, Current.value,
                                    Current, block.time)
          \/ UNCHANGED gateVars
      BY <1>2 DEF MarkPaid
    <2>4. CASE Gateway!MarkPaidFromTx(Current.intent, Sender(Current), Current.to, Current.value,
                                    Current, block.time)
      <3>1. GatewayProofs!MarkPaidFromTx(Current.intent, Sender(Current), Current.to,
                                         Current.value, Current, block.time)
        BY <2>4, SameGateway
      <3>2. GatewayProofs!Mark(Current.intent)
        BY <2>1, <2>2, <3>1, TxFields DEF GatewayProofs!Mark
      <3>3. QED
        BY <2>1, <3>2, SameGateway DEF GatewayProofs!Next
    <2>5. QED
      BY <2>3, <2>4
  <1>3. CASE UseGateway
    <2>1. CASE \E m \in Addr, a \in InvoiceAmount, t \in TokenName : Gateway!CreateIntent(m, a, t, now)
      <3>1. GatewayProofs!Create
        BY <1>0, <2>1, SameGateway DEF GatewayProofs!Create
      <3>2. QED
        BY <3>1 DEF GatewayProofs!Next
    <2>2. CASE \E m \in Addr : Gateway!ListMerchantPayments(m)
      BY <2>2, SameGateway DEF GatewayProofs!Next
    <2>3. CASE Gateway!Tick
      BY <2>3, SameGateway DEF GatewayProofs!Next
    <2>4. QED
      BY <1>3, <2>1, <2>2, <2>3 DEF UseGateway
  <1>4. CASE Crash
    BY <1>4, SameGateway DEF Crash, GatewayProofs!Next
  <1>5. CASE \/ Produce \/ \E tx \in Txs : ProcessGORR(tx)
             \/ WriteBalance \/ Include \/ SetHead
    BY <1>5 DEF Produce, ProcessGORR, WriteBalance, Include, SetHead
  <1>6. CASE \/ TruncateIndex \/ FillIndex \/ FailIndex
             \/ TruncateBlock \/ FillBlock \/ FailBlock
             \/ TruncateHead \/ FillHead \/ FailHead
             \/ TruncateReceipts \/ FillReceipts \/ FailReceipts
    BY <1>6 DEF TruncateIndex, FillIndex, FailIndex, TruncateBlock, FillBlock, FailBlock,
       TruncateHead, FillHead, FailHead, TruncateReceipts, FillReceipts, FailReceipts,
       Truncate, Fill, Fail
  <1>7. CASE Submit \/ Rest \/ UNCHANGED vars
    BY <1>7 DEF Submit, Rest, vars
  <1>8. QED
    BY <1>1, <1>2, <1>3, <1>4, <1>5, <1>6, <1>7 DEF Next, Produces

LEMMA StepGateway ==
  ASSUME TypeOK, WorkInv, GatewayProofs!Consistent, [Next]_vars
  PROVE  GatewayProofs!Consistent' /\ Gateway!TypeOK'
  <1>1. [GatewayProofs!Next]_(GatewayProofs!vars)
    BY GatewaySteps DEF GatewayProofs!vars, gateVars
  <1>2. GatewayProofs!Consistent'
    BY <1>1, GatewayConstants, GatewayProofs!StepConsistent
  <1>3. Gateway!TypeOK' <=> GatewayProofs!TypeOK'
    BY DEF Gateway!TypeOK, GatewayProofs!TypeOK, Gateway!Id, GatewayProofs!Id,
           Gateway!Intent, GatewayProofs!Intent, Gateway!Status, GatewayProofs!Status
  <1>4. QED
    BY <1>2, <1>3 DEF GatewayProofs!Consistent

\* The parts of TypeOK outside the gateway.
Accounts == acc \in [Addr -> [nonce : Nat, balance : Nat]]

Lists ==
    /\ pool \in Seq(Txs) /\ batch \in Seq(Txs) /\ receipts \in Seq(Receipt)
    /\ writes \in Seq([addr : Addr, balance : Nat])

Places ==
    /\ pc \in Place
    /\ pc = "write" => writes # <<>>
    /\ pc \in {"write", "mark", "include", "index", "indexFill"} => batch # <<>>

DiskTypes ==
    /\ \A n \in 0..MaxBlocks :
         /\ (disk.block[n] \in {Absent, Torn} \/ IsBlock(disk.block[n]))
         /\ (disk.receipts[n] \in {Absent, Torn} \/ disk.receipts[n] \in Seq(Receipt))
    /\ disk.head = Torn \/ IsBlock(disk.head)

ReceiptFiles == disk.receipts = [n \in 0..MaxBlocks |-> disk.receipts[n]]

LEMMA TypeParts ==
  TypeOK <=> /\ Accounts /\ Lists /\ IsBlock(head) /\ IsBlock(block) /\ Places
             /\ DiskTypes /\ Gateway!TypeOK
  BY DEF TypeOK, Accounts, Lists, Places, DiskTypes

TypeInv == TypeOK /\ NumberInv /\ WorkInv /\ ReceiptFiles /\ GatewayProofs!Consistent

\* What a transaction is worth: its value covers the treasury's fee.
LEMMA FeeFits ==
  ASSUME NEW v \in Nat
  PROVE  LET fee == (v * treasuryFeeBps) \div bpsDenominator
         IN  fee \in Nat /\ fee <= v
  BY DEF treasuryFeeBps, bpsDenominator

LEMMA ApplyTypes ==
  ASSUME Accounts, Lists, NEW tx \in Txs, ProcessGORR(tx) \/ ProcessPayment(tx)
  PROVE  Accounts' /\ Lists' /\ Places'
  <1>1. /\ UNCHANGED <<acc, pool, batch, receipts>> /\ pc' = "write" /\ batch # <<>>
        /\ CanPay(tx)
    BY DEF ProcessGORR, ProcessPayment, Considers, Goto
  <1>2. /\ Sender(tx) \in Addr /\ tx.to \in Addr /\ Treasury \in Addr
        /\ tx.value \in Nat
    BY <1>1, TxFields, ProducerAssumption DEF CanPay
  <1>3. \A a \in Addr : Balance(a) \in Nat
    BY DEF Accounts, Balance
  <1>4. Balance(Sender(tx)) - tx.value \in Nat
    BY <1>1, <1>2, <1>3 DEF CanPay
  <1>5. writes' \in Seq([addr : Addr, balance : Nat]) /\ writes' # <<>>
    <2>1. CASE ProcessGORR(tx)
      <3>1. writes' = <<Write(Sender(tx), Balance(Sender(tx)) - tx.value),
                        Write(tx.to, Balance(tx.to) + tx.value)>>
        BY <2>1 DEF ProcessGORR
      <3>2. QED
        BY <1>2, <1>3, <1>4, <3>1 DEF Write
    <2>2. CASE ProcessPayment(tx)
      <3> DEFINE fee == (tx.value * treasuryFeeBps) \div bpsDenominator
      <3>1. writes' = <<Write(Sender(tx), Balance(Sender(tx)) - tx.value),
                        Write(tx.to, Balance(tx.to) + (tx.value - fee)),
                        Write(Treasury, Balance(Treasury) + fee)>>
        BY <2>2 DEF ProcessPayment
      <3>2. fee \in Nat /\ tx.value - fee \in Nat
        BY <1>2, FeeFits
      <3> HIDE DEF fee
      <3>3. QED
        BY <1>2, <1>3, <1>4, <3>1, <3>2 DEF Write
    <2>3. QED
      BY <2>1, <2>2
  <1>6. QED
    BY <1>1, <1>5 DEF Accounts, Lists, Places, Place

\* The rest of a list that is not empty.
LEMMA RestOfList ==
  ASSUME NEW R, NEW s \in Seq(R), s # <<>>
  PROVE  /\ Head(s) \in R /\ Tail(s) \in Seq(R)
         /\ Len(Tail(s)) = Len(s) - 1 /\ (Len(s) > 1 => Tail(s) # <<>>)
         /\ Head(s) = s[1] /\ Len(s) \in Nat \ {0}
         /\ \A i \in 1..Len(Tail(s)) : i + 1 \in 1..Len(s) /\ Tail(s)[i] = s[i + 1]
         /\ \A i \in 1..Len(s) : s[i] \in R
  <1>1. Len(s) \in Nat /\ Len(s) # 0
    OBVIOUS
  <1>2. Head(s) = s[1] /\ s[1] \in R
    BY <1>1
  <1>3. Tail(s) \in Seq(R) /\ Len(Tail(s)) = Len(s) - 1
    BY <1>1
  <1>4. Len(s) > 1 => Len(Tail(s)) # 0
    BY <1>1, <1>3
  <1>5. Len(<<>>) = 0
    OBVIOUS
  <1>6. \A i \in 1..Len(Tail(s)) : i + 1 \in 1..Len(s) /\ Tail(s)[i] = s[i + 1]
    BY <1>1, <1>3
  <1>7. \A i \in 1..Len(s) : s[i] \in R
    OBVIOUS
  <1>8. QED
    BY <1>1, <1>2, <1>3, <1>4, <1>5, <1>6, <1>7

LEMMA WriteTypes ==
  ASSUME Accounts, Lists, Places, WriteBalance
  PROVE  Accounts' /\ Lists' /\ Places'
  <1>1. /\ pc = "write" /\ writes # <<>> /\ batch # <<>>
        /\ UNCHANGED <<pool, batch, receipts>> /\ writes' = Tail(writes)
        /\ acc' = [acc EXCEPT ![Head(writes).addr].balance = Head(writes).balance]
        /\ pc' = IF Len(writes) > 1 THEN "write"
                 ELSE IF Current.intent = 0 THEN "include" ELSE "mark"
    BY DEF WriteBalance, Goto, Places
  <1>2. Head(writes) \in [addr : Addr, balance : Nat]
        /\ Tail(writes) \in Seq([addr : Addr, balance : Nat])
        /\ (Len(writes) > 1 => Tail(writes) # <<>>)
    BY <1>1, RestOfList DEF Lists
  <1>3. Accounts'
    BY <1>1, <1>2 DEF Accounts
  <1>4. QED
    BY <1>1, <1>2, <1>3 DEF Lists, Places, Place

LEMMA IncludeTypes ==
  ASSUME Accounts, Lists, Places, IsBlock(block), Include
  PROVE  /\ Accounts' /\ Lists' /\ Places' /\ IsBlock(block)'
         /\ block'.txs # <<>> /\ block'.time = block.time
  <1>1. /\ pc = "include" /\ batch # <<>> /\ pc' = "index"
        /\ acc' = [acc EXCEPT ![Sender(Current)] = acc[Sender(Current)]]
        /\ block' = [block EXCEPT !.txs = Append(block.txs, Current)]
        /\ UNCHANGED <<pool, batch, receipts, writes>>
    BY DEF Include, Goto, Places, IncreasedNonce
  <1>2. Current \in Txs
    BY <1>1, CurrentTx DEF Lists
  <1>3. Append(block.txs, Current) \in Seq(Txs) /\ Append(block.txs, Current) # <<>>
    BY <1>2 DEF IsBlock
  <1>4. IsBlock(block)' /\ block'.txs # <<>> /\ block'.time = block.time
    BY <1>1, <1>3, BlockWithTxs
  <1>5. QED
    BY <1>1, <1>4 DEF Accounts, Lists, Places, Place

\* The steps that work on a transaction.
LEMMA TxTypes ==
  ASSUME TypeInv,
         \/ \E tx \in Txs : ProcessGORR(tx) \/ ProcessPayment(tx) \/ Skip(tx)
         \/ WriteBalance \/ MarkPaid \/ Include
  PROVE  /\ Accounts' /\ Lists' /\ Places' /\ IsBlock(block)'
         /\ UNCHANGED <<head, disk>>
         /\ pc \in Building /\ pc' \in Building /\ block'.time = block.time
         /\ pc' \in {"index", "indexFill"} => block'.txs # <<>>
  <1>0. Accounts /\ Lists /\ Places /\ IsBlock(block) /\ TypeOK
    BY TypeParts DEF TypeInv
  <1>1. CASE \E tx \in Txs : ProcessGORR(tx) \/ ProcessPayment(tx)
    <2>1. PICK tx \in Txs : ProcessGORR(tx) \/ ProcessPayment(tx)
      BY <1>1
    <2>2. UNCHANGED <<head, disk, block>> /\ pc = "next" /\ pc' = "write"
      BY <2>1 DEF ProcessGORR, ProcessPayment, Considers, Goto
    <2>3. QED
      BY <1>0, <2>1, <2>2, ApplyTypes DEF Building, IsBlock
  <1>2. CASE \E tx \in Txs : Skip(tx)
    <2>1. /\ UNCHANGED <<acc, pool, receipts, writes, head, disk, block, pc>>
          /\ pc = "next" /\ batch' = Tail(batch) /\ batch # <<>>
      BY <1>2 DEF Skip, Considers
    <2>2. QED
      BY <1>0, <2>1, CurrentTx DEF Accounts, Lists, Places, Place, Building, IsBlock
  <1>3. CASE WriteBalance
    <2>1. UNCHANGED <<head, disk, block>> /\ pc = "write" /\ pc' \in {"write", "mark", "include"}
      BY <1>3 DEF WriteBalance, Goto
    <2>2. QED
      BY <1>0, <1>3, <2>1, WriteTypes DEF Building, IsBlock
  <1>4. CASE MarkPaid
    <2>1. UNCHANGED <<acc, pool, head, disk, workVars>> /\ pc = "mark" /\ pc' = "include"
      BY <1>4 DEF MarkPaid, Goto
    <2>2. QED
      BY <1>0, <2>1 DEF workVars, Accounts, Lists, Places, Place, Building, IsBlock
  <1>5. CASE Include
    <2>1. UNCHANGED <<head, disk>> /\ pc = "include" /\ pc' = "index"
      BY <1>5 DEF Include, Goto
    <2>2. QED
      BY <1>0, <1>5, <2>1, IncludeTypes DEF Building
  <1>6. QED
    BY <1>1, <1>2, <1>3, <1>4, <1>5

\* What happens to an included transaction, whether the index could be saved or not.
LEMMA FinishTypes ==
  ASSUME TypeInv, pc \in {"index", "indexFill"}, FinishTx, UNCHANGED acc, pc' = "next"
  PROVE  Accounts' /\ Lists' /\ Places' /\ UNCHANGED block
  <1>0. Accounts /\ Lists /\ Places /\ IsBlock(block) /\ IsBlock(head) /\ block.txs # <<>>
        /\ block.num = head.num + 1 /\ batch # <<>>
    BY TypeParts DEF TypeInv, WorkInv, NumberInv, Building, Places
  <1>1. Current \in Txs /\ Tail(batch) \in Seq(Txs)
    BY <1>0, CurrentTx DEF Lists
  <1>2. block.num \in 1..MaxBlocks
    BY <1>0, Bounds DEF IsBlock
  <1>3. Len(block.txs) - 1 \in Nat
    BY <1>0 DEF IsBlock
  <1>4. [tx |-> Current, block |-> block.num, index |-> Len(block.txs) - 1] \in Receipt
    BY <1>1, <1>2, <1>3 DEF Receipt
  <1>5. receipts' \in Seq(Receipt)
    BY <1>0, <1>4 DEF FinishTx, Lists
  <1>6. pool' \in Seq(Txs)
    BY <1>0, WithoutType DEF FinishTx, Lists
  <1>7. QED
    BY <1>0, <1>1, <1>5, <1>6 DEF FinishTx, Accounts, Lists, Places, Place

\* The files hold what they held, or a block, or receipts, or are torn.
LEMMA FileTypes ==
  ASSUME TypeInv,
         \/ TruncateIndex \/ FillIndex \/ FailIndex
         \/ TruncateBlock \/ FillBlock \/ FailBlock
         \/ TruncateHead \/ FillHead \/ FailHead
         \/ TruncateReceipts \/ FillReceipts \/ FailReceipts
  PROVE  DiskTypes' /\ ReceiptFiles'
  <1>0. /\ DiskTypes /\ ReceiptFiles /\ Files /\ IsBlock(block) /\ IsBlock(head)
        /\ receipts \in Seq(Receipt)
    BY TypeParts DEF TypeInv, Lists, NumberInv
  <1>1. CASE TruncateIndex \/ FillIndex
    <2>1. /\ disk'.block = disk.block /\ disk'.head = disk.head
          /\ disk'.receipts = disk.receipts
      BY <1>0, <1>1 DEF TruncateIndex, FillIndex, Files
    <2>2. QED
      BY <1>0, <2>1 DEF DiskTypes, ReceiptFiles, IsBlock
  <1>2. CASE FailIndex \/ FailBlock \/ FailHead \/ FailReceipts
    <2>1. UNCHANGED disk
      BY <1>2 DEF FailIndex, FailBlock, FailHead, FailReceipts, Fail
    <2>2. QED
      BY <1>0, <2>1 DEF DiskTypes, ReceiptFiles, IsBlock
  <1>3. CASE TruncateBlock \/ FillBlock
    <2>1. /\ disk'.head = disk.head /\ disk'.receipts = disk.receipts
          /\ \E content \in {Torn, block} :
               disk'.block = [disk.block EXCEPT ![block.num] = content]
      BY <1>0, <1>3 DEF TruncateBlock, FillBlock, Files
    <2>2. \A n \in 0..MaxBlocks : disk'.block[n] = disk.block[n] \/ disk'.block[n] \in {Torn, block}
      BY <1>0, <2>1 DEF Files
    <2>3. QED
      BY <1>0, <2>1, <2>2 DEF DiskTypes, ReceiptFiles, IsBlock
  <1>4. CASE TruncateHead \/ FillHead
    <2>1. /\ disk'.head \in {Torn, head} /\ disk'.receipts = disk.receipts
          /\ disk'.block = disk.block
      BY <1>0, <1>4 DEF TruncateHead, FillHead, Files
    <2>2. QED
      BY <1>0, <2>1 DEF DiskTypes, ReceiptFiles, IsBlock
  <1>5. CASE TruncateReceipts \/ FillReceipts
    <2>1. /\ disk'.head = disk.head /\ disk'.block = disk.block
          /\ \E content \in {Torn, receipts} :
               disk'.receipts = [disk.receipts EXCEPT ![block.num] = content]
      BY <1>0, <1>5 DEF TruncateReceipts, FillReceipts, Files
    <2>2. ReceiptFiles'
      BY <1>0, <2>1 DEF ReceiptFiles
    <2>3. \A n \in 0..MaxBlocks :
            disk'.receipts[n] = disk.receipts[n] \/ disk'.receipts[n] \in {Torn, receipts}
      BY <1>0, <2>1 DEF ReceiptFiles
    <2>4. QED
      BY <1>0, <2>1, <2>2, <2>3 DEF DiskTypes, IsBlock
  <1>6. QED
    BY <1>1, <1>2, <1>3, <1>4, <1>5

\* The goroutine goes from place to place with its lists at hand.
LEMMA FilePlaces ==
  ASSUME TypeInv,
         \/ TruncateIndex \/ FillIndex \/ FailIndex
         \/ TruncateBlock \/ FillBlock \/ FailBlock
         \/ TruncateHead \/ FillHead \/ FailHead
         \/ TruncateReceipts \/ FillReceipts \/ FailReceipts
  PROVE  /\ Accounts' /\ Lists' /\ Places' /\ UNCHANGED <<head, block>>
         /\ pc \in Building => pc' \in Building /\ (pc' = "indexFill" => block.txs # <<>>)
                               /\ pc' \in {"next", "indexFill"}
         /\ pc \notin Building => pc' \notin Building
  <1>0. Accounts /\ Lists /\ Places /\ (pc \in {"index", "indexFill"} => block.txs # <<>>)
    BY TypeParts DEF TypeInv, WorkInv
  <1>1. CASE FillIndex \/ FailIndex
    <2>1. FinishTx /\ UNCHANGED <<acc, head>> /\ pc \in {"index", "indexFill"} /\ pc' = "next"
      BY <1>1 DEF FillIndex, FailIndex, Fail, Goto
    <2>2. QED
      BY <2>1, FinishTypes DEF Building
  <1>2. CASE \/ TruncateIndex \/ TruncateBlock \/ TruncateHead \/ TruncateReceipts
             \/ FillBlock \/ FillHead \/ FillReceipts
             \/ FailBlock \/ FailHead \/ FailReceipts
    <2>1. UNCHANGED <<acc, pool, head, workVars>>
      BY <1>2 DEF TruncateIndex, TruncateBlock, TruncateHead, TruncateReceipts, Truncate,
         FillBlock, FillHead, FillReceipts, Fill, FailBlock, FailHead, FailReceipts, Fail
    <2>2. \/ pc = "index" /\ pc' = "indexFill"
          \/ /\ pc \in {"block", "blockFill", "head", "headFill", "receipts", "receiptsFill"}
             /\ pc' \in {"blockFill", "head", "headFill", "receipts", "receiptsFill", "idle"}
      BY <1>2 DEF TruncateIndex, TruncateBlock, TruncateHead, TruncateReceipts, Truncate,
         FillBlock, FillHead, FillReceipts, Fill, FailBlock, FailHead, FailReceipts, Fail, Goto
    <2>3. QED
      BY <1>0, <2>1, <2>2 DEF workVars, Accounts, Lists, Places, Place, Building
  <1>3. QED
    BY <1>1, <1>2

\* The steps that start a block, make it the head, or come from outside.
LEMMA OtherTypes ==
  ASSUME TypeInv, Produce \/ SetHead \/ Submit \/ UseGateway \/ Crash \/ Rest \/ UNCHANGED vars
  PROVE  /\ Accounts' /\ Lists' /\ Places' /\ IsBlock(head)' /\ IsBlock(block)'
         /\ UNCHANGED disk
  <1>0. /\ Accounts /\ Lists /\ Places /\ IsBlock(head) /\ IsBlock(block) /\ DiskTypes
        /\ now \in 1..MaxTime /\ MaxTime \in Nat
    BY TypeParts, IntentAssumption DEF TypeInv, Gateway!TypeOK
  <1>1. CASE Produce
    <2>1. /\ UNCHANGED <<acc, pool, head, disk, writes>> /\ head.num < MaxBlocks
          /\ block' = [num |-> head.num + 1, time |-> now, parent |-> Hash(head), txs |-> <<>>]
          /\ batch' = pool /\ receipts' = <<>> /\ pc' = "next"
      BY <1>1 DEF Produce, NewBlock, Pending, Goto
    <2>2. IsBlock(block)'
      <3>1. DOMAIN block' = {"num", "time", "parent", "txs"} /\ block'.txs = <<>>
            /\ block'.num = head.num + 1 /\ block'.time = now
        BY <2>1
      <3>2. head.num + 1 \in 0..MaxBlocks /\ now \in 0..MaxTime
        BY <1>0, <2>1, Bounds DEF IsBlock
      <3>3. QED
        BY <3>1, <3>2 DEF IsBlock
    <2>3. QED
      BY <1>0, <2>1, <2>2 DEF Accounts, Lists, Places, Place, IsBlock
  <1>2. CASE SetHead
    BY <1>0, <1>2 DEF SetHead, Goto, workVars, Accounts, Lists, Places, Place, IsBlock
  <1>3. CASE Submit
    <2>1. /\ UNCHANGED <<acc, head, disk, pc, workVars>> /\ \E tx \in Txs : pool' = Append(pool, tx)
      BY <1>3 DEF Submit
    <2>2. pool' \in Seq(Txs)
      BY <1>0, <2>1 DEF Lists
    <2>3. QED
      BY <1>0, <2>1, <2>2 DEF workVars, Accounts, Lists, Places, IsBlock
  <1>4. CASE UseGateway \/ Rest \/ UNCHANGED vars
    <2>1. UNCHANGED <<acc, pool, head, disk, pc, workVars>>
      BY <1>4 DEF UseGateway, Rest, vars
    <2>2. QED
      BY <1>0, <2>1 DEF workVars, Accounts, Lists, Places, IsBlock
  <1>5. CASE Crash
    <2>1. /\ UNCHANGED <<acc, disk>> /\ pc' \in {"down", "idle"}
          /\ block' = head' /\ head' \in {head, disk.head} /\ (head' # head => disk.head # Torn)
          /\ pool' = <<>> /\ batch' = <<>> /\ writes' = <<>> /\ receipts' = <<>>
      BY <1>5 DEF Crash, Goto
    <2>2. IsBlock(head)' /\ IsBlock(block)'
      BY <1>0, <2>1 DEF DiskTypes, IsBlock
    <2>3. QED
      BY <1>0, <2>1, <2>2 DEF Accounts, Lists, Places, Place
  <1>6. QED
    BY <1>1, <1>2, <1>3, <1>4, <1>5

LEMMA InitTypes == Init => TypeInv
  <1> SUFFICES ASSUME Init PROVE TypeInv
    OBVIOUS
  <1> USE DEF Init
  <1>1. NumberInv
    BY InitNumbers
  <1>2. GatewayProofs!Consistent /\ Gateway!TypeOK
    BY SameGateway, GatewayConstants, GatewayProofs!InitConsistent DEF GatewayProofs!Consistent
  <1>3. Accounts
    BY ProducerAssumption DEF Accounts, GenesisAccounts
  <1>4. IsBlock(Genesis)
    <2>1. /\ DOMAIN Genesis = {"num", "time", "parent", "txs"} /\ Genesis.num = 0
          /\ Genesis.time = 0 /\ Genesis.txs = <<>>
      BY DEF Genesis, NewBlock
    <2>2. 0 \in 0..MaxBlocks /\ 0 \in 0..MaxTime
      BY Bounds, IntentAssumption
    <2>3. QED
      BY <2>1, <2>2 DEF IsBlock
  <1>5. Lists /\ Places
    BY DEF Lists, Places, Place
  <1>6. DiskTypes /\ ReceiptFiles
    BY <1>4 DEF DiskTypes, ReceiptFiles
  <1>7. WorkInv
    BY DEF WorkInv, Building
  <1>8. QED
    BY <1>1, <1>2, <1>3, <1>4, <1>5, <1>6, <1>7, TypeParts DEF TypeInv

\* What is known of the current transaction when it is processed stays known
\* until its intent is marked: both lists and intents only change by steps that
\* keep it, or that forget both.
LEMMA StepWork ==
  ASSUME TypeInv, [Next]_vars
  PROVE  WorkInv'
  <1>0. /\ WorkInv /\ Lists /\ Places /\ IsBlock(block) /\ now \in 1..MaxTime
        /\ MaxTime \in Nat /\ (pc \in Building => block.time \in 1..now)
    BY TypeParts, IntentAssumption DEF TypeInv, WorkInv, Gateway!TypeOK
  <1>1. now' \in 1..MaxTime
    BY StepGateway DEF TypeInv, Gateway!TypeOK
  <1> USE DEF Building
  <1>2. CASE \E tx \in Txs : ProcessGORR(tx) \/ ProcessPayment(tx)
    <2>1. PICK tx \in Txs : ProcessGORR(tx) \/ ProcessPayment(tx)
      BY <1>2
    <2>2. /\ pc = "next" /\ pc' = "write" /\ UNCHANGED <<head, block, batch, now, counter>>
          /\ tx = Current /\ (Current.intent # 0 => Current.intent \in Gateway!Id /\ Current.to # NoTo)
      <3>1. CASE ProcessGORR(tx)
        BY <3>1 DEF ProcessGORR, Considers, Goto, gateVars
      <3>2. CASE ProcessPayment(tx)
        BY <3>2 DEF ProcessPayment, Considers, Goto, Payable, Gateway!GetIntent, Gateway!Replace
      <3>3. QED
        BY <2>1, <3>1, <3>2
    <2>3. QED
      BY <1>0, <2>2 DEF WorkInv, Current, Gateway!Id
  <1>3. CASE \E tx \in Txs : Skip(tx)
    <2>1. /\ pc = "next" /\ pc' = pc /\ UNCHANGED <<head, block, now>>
      BY <1>3 DEF Skip, Considers, gateVars, Gateway!GetIntent, Gateway!Replace
    <2>2. QED
      BY <1>0, <2>1 DEF WorkInv
  <1>4. CASE WriteBalance
    <2>1. /\ pc = "write" /\ UNCHANGED <<head, block, batch, now, counter>>
          /\ \/ pc' = pc
             \/ pc' = "include"
             \/ pc' = "mark" /\ Current.intent # 0
      BY <1>4 DEF WriteBalance, Goto, gateVars
    <2>2. QED
      BY <1>0, <2>1 DEF WorkInv, Current, Gateway!Id
  <1>5. CASE MarkPaid
    <2>1. pc = "mark" /\ pc' = "include" /\ UNCHANGED <<head, block, batch, now>>
      BY <1>5 DEF MarkPaid, Goto, workVars, gateVars, Gateway!MarkPaidFromTx, Gateway!Replace
    <2>2. QED
      BY <1>0, <2>1 DEF WorkInv
  <1>6. CASE Include
    <2>1. pc = "include" /\ pc' = "index" /\ UNCHANGED <<head, now>>
      BY <1>6 DEF Include, Goto, gateVars
    <2>2. block'.txs # <<>> /\ block'.time = block.time
      BY <1>6, TypeParts, IncludeTypes DEF TypeInv
    <2>3. QED
      BY <1>0, <2>1, <2>2 DEF WorkInv
  <1>7. CASE \/ TruncateIndex \/ FillIndex \/ FailIndex
             \/ TruncateBlock \/ FillBlock \/ FailBlock
             \/ TruncateHead \/ FillHead \/ FailHead
             \/ TruncateReceipts \/ FillReceipts \/ FailReceipts
    <2>1. UNCHANGED now
      BY <1>7 DEF TruncateIndex, FillIndex, FailIndex, TruncateBlock, FillBlock, FailBlock,
       TruncateHead, FillHead, FailHead, TruncateReceipts, FillReceipts, FailReceipts,
       Truncate, Fill, Fail, gateVars
    <2>2. QED
      BY <1>0, <1>7, <2>1, FilePlaces DEF WorkInv
  <1>8. CASE Produce
    <2>1. pc' = "next" /\ block'.time = now /\ now' = now
      BY <1>8 DEF Produce, NewBlock, Goto, gateVars
    <2>2. QED
      BY <1>0, <2>1 DEF WorkInv
  <1>9. CASE SetHead
    <2>1. pc' = "block" /\ head' = block /\ block' = block
      BY <1>9 DEF SetHead, Goto, workVars
    <2>2. QED
      BY <2>1 DEF WorkInv
  <1>10. CASE Submit \/ Rest \/ UNCHANGED vars
    <2>1. UNCHANGED <<head, pc, workVars, gateVars>>
      BY <1>10 DEF Submit, Rest, vars
    <2>2. QED
      BY <1>0, <2>1 DEF WorkInv, workVars, gateVars, Current, Gateway!Id
  <1>11. CASE UseGateway
    <2>1. /\ UNCHANGED <<head, pc, workVars>>
          /\ counter' \in Nat /\ counter \in Nat /\ counter <= counter' /\ now \in Nat /\ now' \in Nat /\ now <= now'
      <3>0. now \in Nat /\ counter \in Nat
        BY <1>0 DEF TypeInv, TypeOK, Gateway!TypeOK
      <3>1. UNCHANGED <<head, pc, workVars>>
        BY <1>11 DEF UseGateway
      <3>2. CASE Gateway!Tick
        BY <3>0, <3>1, <3>2 DEF Gateway!Tick
      <3>3. CASE \E m \in Addr, a \in InvoiceAmount, t \in TokenName : Gateway!CreateIntent(m, a, t, now)
        BY <3>0, <3>1, <3>3 DEF Gateway!CreateIntent
      <3>4. CASE \E m \in Addr : Gateway!ListMerchantPayments(m)
        BY <3>0, <3>1, <3>4 DEF Gateway!ListMerchantPayments
      <3>5. QED
        BY <1>11, <3>2, <3>3, <3>4 DEF UseGateway
    <2>2. QED
      BY <1>0, <2>1 DEF WorkInv, workVars, Current, Gateway!Id
  <1>12. CASE Crash
    BY <1>12, CrashStep DEF WorkInv
  <1>13. QED
    BY <1>2, <1>3, <1>4, <1>5, <1>6, <1>7, <1>8, <1>9, <1>10, <1>11, <1>12 DEF Next, Produces

LEMMA StepTypes == TypeInv /\ [Next]_vars => TypeInv'
  <1> SUFFICES ASSUME TypeInv, [Next]_vars PROVE TypeInv'
    OBVIOUS
  <1>1. NumberInv' /\ WorkInv' /\ GatewayProofs!Consistent' /\ Gateway!TypeOK'
    BY StepNumbers, StepWork, StepGateway DEF TypeInv
  <1>2. Accounts' /\ Lists' /\ Places' /\ IsBlock(head)' /\ IsBlock(block)' /\ DiskTypes' /\ ReceiptFiles'
    <2>0. IsBlock(head) /\ IsBlock(block) /\ DiskTypes /\ ReceiptFiles
      BY TypeParts DEF TypeInv
    <2>1. CASE \/ \E tx \in Txs : ProcessGORR(tx) \/ ProcessPayment(tx) \/ Skip(tx)
               \/ WriteBalance \/ MarkPaid \/ Include
      BY <2>0, <2>1, TxTypes DEF DiskTypes, ReceiptFiles, IsBlock
    <2>2. CASE \/ TruncateIndex \/ FillIndex \/ FailIndex
               \/ TruncateBlock \/ FillBlock \/ FailBlock
               \/ TruncateHead \/ FillHead \/ FailHead
               \/ TruncateReceipts \/ FillReceipts \/ FailReceipts
      BY <2>0, <2>2, FileTypes, FilePlaces DEF IsBlock
    <2>3. CASE Produce \/ SetHead \/ Submit \/ UseGateway \/ Crash \/ Rest \/ UNCHANGED vars
      BY <2>0, <2>3, OtherTypes DEF DiskTypes, ReceiptFiles, IsBlock
    <2>4. QED
      BY <2>1, <2>2, <2>3 DEF Next, Produces
  <1>3. TypeOK'
    BY <1>1, <1>2 DEF TypeOK, Accounts, Lists, Places, DiskTypes
  <1>4. QED
    BY <1>1, <1>2, <1>3 DEF TypeInv

\* Files hold blocks and receipts or are torn, no balance is ever negative, and
\* the producer has its transaction at hand wherever it works on one, for any
\* pool and gateway traffic, and whatever crashes or fails between two writes.
THEOREM TypesHold == Spec => []TypeOK
  <1>1. TypeInv => TypeOK
    BY DEF TypeInv
  <1>2. QED
    BY <1>1, InitTypes, StepTypes, PTL DEF Spec

-----------------------------------------------------------------------------
(* Funds *)

\* The parties of a transfer are different accounts, and those of a payment
\* are not the treasury.  processGORR reads both balances before it writes
\* either, so that a transfer to oneself really creates its value.
PartiesApart ==
    \A tx \in Txs : /\ Sender(tx) # tx.to
                    /\ tx.intent # 0 => Treasury \notin {Sender(tx), tx.to}

\* What the i-th SetBalance still to do adds to the funds.
Due(i) == IF i \in 1..Len(writes) THEN writes[i].balance - Balance(writes[i].addr) ELSE 0

\* In the middle of a transfer the funds and what is due make up the whole;
\* only the debit, which is written first, takes funds away.
FundsInv ==
    /\ crashes \in Nat
    /\ Total(acc) <= Total(GenesisAccounts)
    /\ crashes = 0 /\ pc # "write" => Total(acc) = Total(GenesisAccounts)
    /\ pc = "write" =>
         /\ Len(writes) <= 3 /\ Due(2) >= 0 /\ Due(3) >= 0
         /\ \A i, j \in 1..Len(writes) : i # j => writes[i].addr # writes[j].addr
         /\ Total(acc) + Due(1) + Due(2) + Due(3) <= Total(GenesisAccounts)
         /\ crashes = 0 => Total(acc) + Due(1) + Due(2) + Due(3) = Total(GenesisAccounts)

LEMMA TotalIsInt ==
  ASSUME NEW a, a \in [Addr -> [nonce : Nat, balance : Nat]]
  PROVE  Total(a) \in Int
  <1> DEFINE f == [x \in Addr |-> a[x].balance]
  <1>1. IsFiniteSet(Addr) /\ \A x \in Addr : f[x] \in Int
    BY ProducerAssumption
  <1> HIDE DEF f
  <1>2. SumOver(f, Addr) \in Int
    BY <1>1, SumIsInt
  <1>3. QED
    BY <1>2 DEF Total, f

LEMMA TotalUpdate ==
  ASSUME NEW a, a \in [Addr -> [nonce : Nat, balance : Nat]], NEW x \in Addr, NEW v \in Nat,
         NEW b, b = [a EXCEPT ![x].balance = v]
  PROVE  Total(b) = Total(a) + (v - a[x].balance)
  <1> DEFINE f == [y \in Addr |-> a[y].balance]
             g == [y \in Addr |-> b[y].balance]
  <1>1. IsFiniteSet(Addr) /\ \A y \in Addr : f[y] \in Int /\ g[y] \in Int
    BY ProducerAssumption
  <1>2. (\A y \in Addr : y # x => g[y] = f[y]) /\ g[x] = v /\ f[x] = a[x].balance
    OBVIOUS
  <1>3. Total(a) = SumOver(f, Addr) /\ Total(b) = SumOver(g, Addr)
    BY DEF Total
  <1> HIDE DEF f, g
  <1>4. SumOver(g, Addr) = SumOver(f, Addr) + (g[x] - f[x])
    BY <1>1, <1>2, SumUpdate
  <1>5. QED
    BY <1>2, <1>3, <1>4

\* A processed transaction: what is due adds up to nothing.
LEMMA ProcessBalances ==
  ASSUME TypeInv, PartiesApart, NEW tx \in Txs, ProcessGORR(tx) \/ ProcessPayment(tx)
  PROVE  /\ UNCHANGED <<acc, crashes>> /\ pc = "next" /\ pc' = "write" /\ Len(writes') <= 3
         /\ Due(1)' + Due(2)' + Due(3)' = 0 /\ Due(2)' >= 0 /\ Due(3)' >= 0
         /\ \A i \in 1..3 : Due(i)' \in Int
         /\ \A i, j \in 1..Len(writes') : i # j => writes'[i].addr # writes'[j].addr
  <1>0. Accounts
    BY TypeParts DEF TypeInv
  <1>1. /\ UNCHANGED <<acc, crashes>> /\ pc = "next" /\ pc' = "write" /\ CanPay(tx)
    BY DEF ProcessGORR, ProcessPayment, Considers, Goto, envVars
  <1>2. /\ Sender(tx) \in Addr /\ tx.to \in Addr /\ Treasury \in Addr /\ tx.value \in Nat
        /\ Sender(tx) # tx.to
    BY <1>1, TxFields, ProducerAssumption DEF CanPay, PartiesApart
  <1>3. /\ \A a \in Addr : Balance(a) \in Nat
        /\ \A a : Balance(a)' = Balance(a)
    BY <1>0, <1>1 DEF Accounts, Balance
  <1>4. CASE ProcessGORR(tx)
    <2>1. writes' = <<Write(Sender(tx), Balance(Sender(tx)) - tx.value),
                      Write(tx.to, Balance(tx.to) + tx.value)>>
      BY <1>4 DEF ProcessGORR
    <2>2. /\ Len(writes') = 2 /\ writes'[1].addr = Sender(tx) /\ writes'[2].addr = tx.to
          /\ writes'[1].balance = Balance(Sender(tx)) - tx.value
          /\ writes'[2].balance = Balance(tx.to) + tx.value
      BY <2>1 DEF Write
    <2>3. Due(1)' = 0 - tx.value /\ Due(2)' = tx.value /\ Due(3)' = 0
      BY <1>2, <1>3, <2>2 DEF Due
    <2>4. \A i, j \in 1..Len(writes') : i # j => writes'[i].addr # writes'[j].addr
      BY <1>2, <2>2
    <2>5. QED
      BY <1>1, <1>2, <2>2, <2>3, <2>4
  <1>5. CASE ProcessPayment(tx)
    <2> DEFINE fee == (tx.value * treasuryFeeBps) \div bpsDenominator
    <2>1. writes' = <<Write(Sender(tx), Balance(Sender(tx)) - tx.value),
                      Write(tx.to, Balance(tx.to) + (tx.value - fee)),
                      Write(Treasury, Balance(Treasury) + fee)>>
      BY <1>5 DEF ProcessPayment
    <2>2. fee \in Nat /\ fee <= tx.value
      BY <1>2, FeeFits
    <2>3. tx.intent # 0
      BY <1>5 DEF ProcessPayment, Payable, Gateway!Id
    <2>4. Treasury # Sender(tx) /\ Treasury # tx.to
      BY <2>3 DEF PartiesApart
    <2> HIDE DEF fee
    <2>5. /\ Len(writes') = 3 /\ writes'[1].addr = Sender(tx) /\ writes'[2].addr = tx.to
          /\ writes'[3].addr = Treasury
          /\ writes'[1].balance = Balance(Sender(tx)) - tx.value
          /\ writes'[2].balance = Balance(tx.to) + (tx.value - fee)
          /\ writes'[3].balance = Balance(Treasury) + fee
      BY <2>1 DEF Write
    <2>6. Due(1)' = 0 - tx.value /\ Due(2)' = tx.value - fee /\ Due(3)' = fee
      BY <1>2, <1>3, <2>2, <2>5 DEF Due
    <2>7. \A i, j \in 1..Len(writes') : i # j => writes'[i].addr # writes'[j].addr
      BY <1>2, <2>4, <2>5
    <2>8. QED
      BY <1>1, <1>2, <2>2, <2>5, <2>6, <2>7
  <1>6. QED
    BY <1>4, <1>5

\* One SetBalance settles the first of the amounts due.
LEMMA WriteBalances ==
  ASSUME TypeInv, FundsInv, WriteBalance
  PROVE  /\ Total(acc)' = Total(acc) + Due(1) /\ Total(acc) \in Int
         /\ Due(1)' = Due(2) /\ Due(2)' = Due(3) /\ Due(3)' = 0
         /\ \A i \in 1..3 : Due(i) \in Int
         /\ \A i, j \in 1..Len(writes') : i # j => writes'[i].addr # writes'[j].addr
         /\ Len(writes') = Len(writes) - 1 /\ Len(writes) \in 1..3
  <1>0. Accounts /\ Lists /\ Places
    BY TypeParts DEF TypeInv
  <1>1. /\ pc = "write" /\ writes # <<>> /\ writes' = Tail(writes)
        /\ acc' = [acc EXCEPT ![Head(writes).addr].balance = Head(writes).balance]
        /\ Len(writes) <= 3
        /\ \A i, j \in 1..Len(writes) : i # j => writes[i].addr # writes[j].addr
    BY <1>0 DEF WriteBalance, Places, FundsInv
  <1>2. /\ Len(writes) \in 1..3 /\ Len(writes') = Len(writes) - 1
        /\ Head(writes) = writes[1]
        /\ \A i \in 1..Len(writes') : i + 1 \in 1..Len(writes) /\ writes'[i] = writes[i + 1]
        /\ \A i \in 1..Len(writes) : writes[i].addr \in Addr /\ writes[i].balance \in Nat
    <2>1. writes \in Seq([addr : Addr, balance : Nat])
      BY <1>0 DEF Lists
    <2>2. /\ Len(writes) \in Nat \ {0} /\ Len(Tail(writes)) = Len(writes) - 1
          /\ Head(writes) = writes[1]
          /\ \A i \in 1..Len(Tail(writes)) : i + 1 \in 1..Len(writes) /\ Tail(writes)[i] = writes[i + 1]
          /\ \A i \in 1..Len(writes) : writes[i] \in [addr : Addr, balance : Nat]
      BY <1>1, <2>1, RestOfList
    <2>3. Len(writes) \in 1..3
      BY <1>1, <2>2
    <2>4. \A i \in 1..Len(writes) : writes[i].addr \in Addr /\ writes[i].balance \in Nat
      BY <2>2
    <2>5. QED
      BY <1>1, <2>2, <2>3, <2>4
  <1>3. Total(acc)' = Total(acc) + (writes[1].balance - acc[writes[1].addr].balance)
    <2>1. writes[1].addr \in Addr /\ writes[1].balance \in Nat
      BY <1>2
    <2>2. acc' = [acc EXCEPT ![writes[1].addr].balance = writes[1].balance]
      BY <1>1, <1>2
    <2>3. Total(acc') = Total(acc) + (writes[1].balance - acc[writes[1].addr].balance)
      BY <1>0, <2>1, <2>2, TotalUpdate DEF Accounts
    <2>4. QED
      BY <2>3 DEF Total
  <1>4. Total(acc)' = Total(acc) + Due(1)
    BY <1>2, <1>3 DEF Due, Balance
  <1>5. \A a \in Addr : a # writes[1].addr => acc'[a].balance = Balance(a)
    BY <1>0, <1>1, <1>2 DEF Accounts, Balance
  <1>6. \A i \in 1..Len(writes') :
           writes'[i].balance - acc'[writes'[i].addr].balance
             = writes[i + 1].balance - Balance(writes[i + 1].addr)
    <2>1. TAKE i \in 1..Len(writes')
    <2>2. writes[i + 1].addr # writes[1].addr /\ writes[i + 1].addr \in Addr
      BY <1>1, <1>2
    <2>3. QED
      BY <1>2, <1>5, <2>2
  <1>7. Due(1)' = Due(2) /\ Due(2)' = Due(3) /\ Due(3)' = 0
    <2>1. ASSUME NEW i \in 1..3 PROVE Due(i)' = Due(i + 1)
      <3>1. i \in 1..Len(writes') <=> i + 1 \in 1..Len(writes)
        BY <1>2
      <3>2. Due(i)' = IF i \in 1..Len(writes')
                      THEN writes'[i].balance - acc'[writes'[i].addr].balance ELSE 0
        BY DEF Due, Balance
      <3>3. QED
        BY <1>6, <3>1, <3>2 DEF Due
    <2>2. Due(4) = 0
      BY <1>2 DEF Due
    <2>3. QED
      BY <2>1, <2>2
  <1>8. \A i \in 1..3 : Due(i) \in Int
    BY <1>0, <1>2 DEF Due, Balance, Accounts
  <1>9. Total(acc) \in Int
    BY <1>0, TotalIsInt DEF Accounts
  <1>10. \A i, j \in 1..Len(writes') : i # j => writes'[i].addr # writes'[j].addr
    BY <1>1, <1>2
  <1>11. QED
    BY <1>2, <1>4, <1>7, <1>8, <1>9, <1>10

\* No other step touches a balance or the writes of a transfer under way.
LEMMA FundsStay ==
  ASSUME TypeInv, [Next]_vars
  PROVE  \/ \E tx \in Txs : ProcessGORR(tx) \/ ProcessPayment(tx)
         \/ WriteBalance
         \/ /\ UNCHANGED acc
            /\ \/ UNCHANGED crashes /\ (pc' = "write" \/ pc = "write" => UNCHANGED <<pc, writes>>)
               \/ crashes' = crashes + 1 /\ pc' # "write"
  <1>1. CASE \E tx \in Txs : Skip(tx)
    BY <1>1 DEF Skip, envVars
  <1>2. CASE Include
    <2>1. UNCHANGED acc
      BY <1>2, TypeParts DEF TypeInv, Accounts, Include, IncreasedNonce
    <2>2. QED
      BY <1>2, <2>1 DEF Include, Goto, envVars
  <1>3. CASE Produce \/ SetHead \/ MarkPaid
    BY <1>3 DEF Produce, SetHead, MarkPaid, Goto, envVars
  <1>4. CASE \/ TruncateIndex \/ FillIndex \/ FailIndex
             \/ TruncateBlock \/ FillBlock \/ FailBlock
             \/ TruncateHead \/ FillHead \/ FailHead
             \/ TruncateReceipts \/ FillReceipts \/ FailReceipts
    BY <1>4 DEF TruncateIndex, FillIndex, FailIndex, TruncateBlock, FillBlock, FailBlock,
       TruncateHead, FillHead, FailHead, TruncateReceipts, FillReceipts, FailReceipts,
       Truncate, Fill, Fail, Goto, envVars
  <1>5. CASE Submit \/ UseGateway \/ Rest \/ UNCHANGED vars
    BY <1>5 DEF Submit, UseGateway, Rest, vars, workVars, envVars
  <1>6. CASE Crash
    BY <1>6 DEF Crash, Goto
  <1>7. QED
    BY <1>1, <1>2, <1>3, <1>4, <1>5, <1>6 DEF Next, Produces

LEMMA InitFunds == Init => FundsInv
  <1> SUFFICES ASSUME Init PROVE FundsInv
    OBVIOUS
  <1>1. acc = GenesisAccounts /\ crashes = 0 /\ pc = "idle" /\ Accounts
    BY InitTypes, TypeParts DEF Init, TypeInv
  <1>2. Total(acc) \in Int
    BY <1>1, TotalIsInt DEF Accounts
  <1>3. QED
    BY <1>1, <1>2 DEF FundsInv

LEMMA StepFunds ==
  ASSUME TypeInv, PartiesApart, FundsInv, [Next]_vars
  PROVE  FundsInv'
  <1> DEFINE T0 == Total(GenesisAccounts)
  <1>0. /\ Total(acc) \in Int /\ Total(acc) <= T0 /\ crashes \in Nat /\ Accounts
        /\ Total(GenesisAccounts)' = T0
    <2>1. Accounts
      BY TypeParts DEF TypeInv
    <2>2. QED
      BY <2>1, TotalIsInt DEF FundsInv, Accounts, Total, GenesisAccounts
  <1>1. T0 \in Int
    <2>1. GenesisAccounts \in [Addr -> [nonce : Nat, balance : Nat]]
      BY ProducerAssumption DEF GenesisAccounts
    <2>2. QED
      BY <2>1, TotalIsInt
  <1> HIDE DEF T0
  <1>2. CASE \E tx \in Txs : ProcessGORR(tx) \/ ProcessPayment(tx)
    <2>1. /\ UNCHANGED <<acc, crashes>> /\ pc = "next" /\ pc' = "write" /\ Len(writes') <= 3
          /\ Due(1)' + Due(2)' + Due(3)' = 0 /\ Due(2)' >= 0 /\ Due(3)' >= 0
          /\ \A i \in 1..3 : Due(i)' \in Int
          /\ \A i, j \in 1..Len(writes') : i # j => writes'[i].addr # writes'[j].addr
      BY <1>2, ProcessBalances
    <2>2. Total(acc)' = Total(acc)
      BY <2>1 DEF Total
    <2>3. Due(1)' \in Int /\ Due(2)' \in Int /\ Due(3)' \in Int
      BY <2>1
    <2>4. crashes = 0 => Total(acc) = T0
      BY <2>1 DEF FundsInv, T0
    <2>5. Total(acc)' + Due(1)' + Due(2)' + Due(3)' = Total(acc)
      BY <1>0, <2>1, <2>2, <2>3
    <2>6. QED
      BY <1>0, <1>1, <2>1, <2>2, <2>4, <2>5 DEF FundsInv, T0
  <1>3. CASE WriteBalance
    <2>1. /\ Total(acc)' = Total(acc) + Due(1)
          /\ Due(1)' = Due(2) /\ Due(2)' = Due(3) /\ Due(3)' = 0
          /\ Due(1) \in Int /\ Due(2) \in Int /\ Due(3) \in Int
          /\ \A i, j \in 1..Len(writes') : i # j => writes'[i].addr # writes'[j].addr
          /\ Len(writes') = Len(writes) - 1 /\ Len(writes) \in 1..3
      BY <1>3, WriteBalances
    <2>2. /\ pc = "write" /\ crashes' = crashes /\ (pc' = "write" <=> Len(writes) > 1)
      BY <1>3 DEF WriteBalance, Goto, envVars
    <2>3. /\ Due(2) >= 0 /\ Due(3) >= 0
          /\ Total(acc) + Due(1) + Due(2) + Due(3) <= T0
          /\ crashes = 0 => Total(acc) + Due(1) + Due(2) + Due(3) = T0
      BY <2>2 DEF FundsInv, T0
    <2>4. Len(writes) <= 1 => Due(2) = 0 /\ Due(3) = 0
      BY <2>1 DEF Due
    <2>5. Total(acc)' <= T0 /\ (crashes = 0 /\ Len(writes) <= 1 => Total(acc)' = T0)
      BY <1>0, <1>1, <2>1, <2>3, <2>4
    <2>6. /\ Total(acc)' + Due(1)' + Due(2)' + Due(3)' <= T0
          /\ crashes = 0 => Total(acc)' + Due(1)' + Due(2)' + Due(3)' = T0
      BY <1>0, <1>1, <2>1, <2>3
    <2>7. Len(writes') <= 3 /\ (pc' # "write" => Len(writes) <= 1) /\ crashes' \in Nat
      <3>1. \A n \in 1..3 : n - 1 <= 3 /\ (~(n > 1) => n <= 1)
        OBVIOUS
      <3>2. QED
        BY <1>0, <2>1, <2>2, <3>1
    <2>8. QED
      BY <1>0, <2>1, <2>2, <2>3, <2>5, <2>6, <2>7 DEF FundsInv, T0
  <1>4. CASE /\ UNCHANGED acc
             /\ \/ UNCHANGED crashes /\ (pc' = "write" \/ pc = "write" => UNCHANGED <<pc, writes>>)
                \/ crashes' = crashes + 1 /\ pc' # "write"
    <2>1. Total(acc)' = Total(acc)
      BY <1>4 DEF Total
    <2>2. CASE UNCHANGED crashes /\ pc' = "write" /\ UNCHANGED <<pc, writes>>
      <3>1. Due(1)' = Due(1) /\ Due(2)' = Due(2) /\ Due(3)' = Due(3)
        BY <1>4, <2>2 DEF Due, Balance
      <3>2. QED
        BY <1>0, <2>1, <2>2, <3>1 DEF FundsInv, T0
    <2>3. CASE UNCHANGED crashes /\ pc' # "write" /\ pc # "write"
      BY <1>0, <2>1, <2>3 DEF FundsInv, T0
    <2>4. CASE crashes' = crashes + 1 /\ pc' # "write"
      BY <1>0, <2>1, <2>4 DEF FundsInv, T0
    <2>5. QED
      BY <1>4, <2>2, <2>3, <2>4
  <1>5. QED
    BY <1>2, <1>3, <1>4, FundsStay

\* Blocks never create funds, for any accounts, pool and number of crashes: a
\* crash between the SetBalance calls of a transfer can only lose its amount,
\* and without a crash every transfer ends with the funds it began with.
THEOREM BlocksKeepFunds ==
  ASSUME PartiesApart
  PROVE  Spec => []FundsNotCreated
  <1>1. Init => TypeInv /\ FundsInv
    BY InitTypes, InitFunds
  <1>2. TypeInv /\ FundsInv /\ [Next]_vars => (TypeInv /\ FundsInv)'
    BY StepTypes, StepFunds
  <1>3. FundsInv => FundsNotCreated
    BY DEF FundsInv, FundsNotCreated
  <1>4. QED
    BY <1>1, <1>2, <1>3, PTL DEF Spec

\* Whatever the producer and its clients do to the intents, the gateway sees
\* the calls it was written for: the node runs PaymentGateway, and all that is
\* proved of the gateway holds in the node.
THEOREM NodeRunsGateway == Spec => GatewayProofs!Spec
  <1>1. Init => GatewayProofs!Init
    BY SameGateway DEF Init
  <1>2. TypeInv /\ [Next]_vars => [GatewayProofs!Next]_(GatewayProofs!vars)
    BY GatewaySteps DEF TypeInv, GatewayProofs!vars, gateVars
  <1>3. QED
    BY <1>1, <1>2, InitTypes, StepTypes, PTL DEF Spec, GatewayProofs!Spec

-----------------------------------------------------------------------------
(* Evidence of payment *)

\* What every step but a restart does to an intent: it is new, or keeps its
\* parties and its evidence, or is marked by the transaction under way.
Keeps(i, j) ==
    /\ j.merchant = i.merchant /\ j.amount = i.amount /\ j.expiry = i.expiry
    /\ j.token = i.token
    /\ i.paid => j.paid
    /\ i.status = "expired" => j.status = "expired"

SameEvidence(i, j) ==
    j.payer = i.payer /\ j.paidAt = i.paidAt /\ j.txHash = i.txHash

MarkedBy(i, j, tx) ==
    /\ j.payer = Sender(tx) /\ j.paidAt = block.time /\ j.txHash = tx
    /\ tx.to = i.merchant /\ tx.value >= i.amount

\* An intent is found expired after its deadline only.
Lapses(i, j, time) == j.status = "expired" => i.status = "expired" \/ time > i.expiry

LEMMA UpdatedKeeps ==
  ASSUME NEW i \in Gateway!Intent, NEW time
  PROVE  LET j == Gateway!Updated(i, time) IN Keeps(i, j) /\ SameEvidence(i, j) /\ Lapses(i, j, time)
  BY DEF Gateway!Intent, Gateway!Updated, Keeps, SameEvidence, Lapses

LEMMA MarkedKeeps ==
  ASSUME NEW i \in Gateway!Intent, NEW payer, NEW merchant, NEW amount, NEW tx, NEW time
  PROVE  LET j == Gateway!Marked(i, payer, merchant, amount, tx, time) IN
         /\ Keeps(i, j) /\ Lapses(i, j, time)
         /\ \/ SameEvidence(i, j)
            \/ /\ j.payer = payer /\ j.paidAt = time /\ j.txHash = tx
               /\ merchant = i.merchant /\ amount >= i.amount
  <1> DEFINE u == Gateway!Updated(i, time)
             j == Gateway!Marked(i, payer, merchant, amount, tx, time)
  <1>1. /\ u \in [merchant : Addr, amount : InvoiceAmount, token : TokenName,
                  timestamp : Nat, expiry : 0..(TimeMod - 1), status : Gateway!Status,
                  paid : BOOLEAN, refunded : BOOLEAN,
                  payer : Addr \cup {NoPayer}, paidAt : Nat, txHash : Txs \cup {NoTx}]
        /\ Keeps(i, u) /\ SameEvidence(i, u) /\ Lapses(i, u, time)
    BY UpdatedKeeps DEF Gateway!Intent, Gateway!Updated, Gateway!Status
  <1>2. \/ j = u
        \/ /\ u.status = "pending" /\ merchant = u.merchant /\ amount >= u.amount
           /\ j = [u EXCEPT !.paid = TRUE, !.status = "paid", !.payer = payer,
                            !.paidAt = time, !.txHash = tx]
    BY DEF Gateway!Marked
  <1> HIDE DEF u
  <1>3. QED
    BY <1>1, <1>2 DEF Keeps, SameEvidence, Lapses

\* The intents after a step, seen from one of them.
LEMMA IntentSteps ==
  ASSUME TypeInv, [Next]_vars, ~Crash
  PROVE  /\ Gateway!Id \subseteq Gateway!Id'
         /\ \A id \in Gateway!Id :
              /\ Keeps(intents[id], intents'[id]) /\ Lapses(intents[id], intents'[id], now)
              /\ \/ SameEvidence(intents[id], intents'[id])
                 \/ /\ pc = "mark" /\ MarkPaid /\ id = Current.intent
                    /\ MarkedBy(intents[id], intents'[id], Current)
         /\ \A id \in Gateway!Id' \ Gateway!Id :
              intents'[id].txHash = NoTx /\ intents'[id].status = "pending"
         /\ now' \in Nat /\ now \in Nat /\ now <= now'
  <1>0. /\ intents \in [Gateway!Id -> Gateway!Intent] /\ counter \in Nat /\ now \in Nat
        /\ Gateway!Id = 1..counter /\ Gateway!Id' = 1..counter'
    BY DEF TypeInv, TypeOK, Gateway!TypeOK, Gateway!Id
  <1>1. \A id \in Gateway!Id :
           /\ Keeps(intents[id], intents[id]) /\ SameEvidence(intents[id], intents[id])
           /\ Lapses(intents[id], intents[id], now)
    BY DEF Keeps, SameEvidence, Lapses
  <1>2. CASE UNCHANGED gateVars
    BY <1>0, <1>1, <1>2 DEF gateVars
  <1>3. CASE \E id \in Gateway!Id : Gateway!GetIntent(id)
    <2>1. PICK id \in Gateway!Id : Gateway!GetIntent(id)
      BY <1>3
    <2>2. /\ intents' = [intents EXCEPT ![id] = Gateway!Updated(intents[id], now)]
          /\ UNCHANGED <<counter, now>>
      BY <2>1 DEF Gateway!GetIntent, Gateway!Replace
    <2>3. intents[id] \in Gateway!Intent
      BY <1>0
    <2>4. QED
      BY <1>0, <1>1, <2>2, <2>3, UpdatedKeeps
  <1>4. CASE MarkPaid /\ ~UNCHANGED gateVars
    <2>1. /\ pc = "mark"
          /\ Gateway!MarkPaidFromTx(Current.intent, Sender(Current), Current.to, Current.value,
                                    Current, block.time)
      BY <1>4 DEF MarkPaid
    <2> DEFINE id == Current.intent
    <2>2. /\ intents' = [intents EXCEPT ![id] =
                Gateway!Marked(intents[id], Sender(Current), Current.to, Current.value,
                               Current, block.time)]
          /\ UNCHANGED <<counter, now>> /\ id \in Gateway!Id
      BY <2>1 DEF Gateway!MarkPaidFromTx, Gateway!Replace
    <2>3. intents[id] \in Gateway!Intent
      BY <1>0, <2>2
    <2>4. /\ Keeps(intents[id], intents'[id]) /\ Lapses(intents[id], intents'[id], block.time)
          /\ \/ SameEvidence(intents[id], intents'[id])
             \/ MarkedBy(intents[id], intents'[id], Current)
      BY <1>0, <2>2, <2>3, MarkedKeeps DEF MarkedBy
    <2>7. Lapses(intents[id], intents'[id], now)
      <3>1. block.time \in 1..now /\ intents[id].expiry \in Int
        BY <2>1, <2>3, IntentAssumption DEF TypeInv, WorkInv, Building, Gateway!Intent
      <3>2. QED
        BY <1>0, <2>4, <3>1 DEF Lapses
    <2>5. \A k \in Gateway!Id : k # id => intents'[k] = intents[k]
      BY <1>0, <2>2
    <2> HIDE DEF id
    <2>6. QED
      BY <1>0, <1>1, <1>4, <2>1, <2>2, <2>4, <2>5, <2>7 DEF id
  <1>5. CASE UseGateway
    <2>1. CASE Gateway!Tick
      BY <1>0, <1>1, <2>1 DEF Gateway!Tick
    <2>2. CASE \E m \in Addr, a \in InvoiceAmount, t \in TokenName : Gateway!CreateIntent(m, a, t, now)
      <3>1. PICK m \in Addr, a \in InvoiceAmount, t \in TokenName : Gateway!CreateIntent(m, a, t, now)
        BY <2>2
      <3>2. /\ counter' = counter + 1 /\ UNCHANGED now
            /\ \A id \in 1..counter' :
                 IF id \in Gateway!Id THEN intents'[id] = intents[id]
                 ELSE intents'[id].txHash = NoTx /\ intents'[id].status = "pending"
        BY <3>1 DEF Gateway!CreateIntent
      <3>3. QED
        BY <1>0, <1>1, <3>2
    <2>3. CASE \E m \in Addr : Gateway!ListMerchantPayments(m)
      <3>1. UNCHANGED <<counter, now>>
            /\ \A id \in Gateway!Id : intents'[id] \in {intents[id], Gateway!Updated(intents[id], now)}
        BY <2>3 DEF Gateway!ListMerchantPayments
      <3>2. \A id \in Gateway!Id : intents[id] \in Gateway!Intent
        BY <1>0
      <3>3. QED
        BY <1>0, <1>1, <3>1, <3>2, UpdatedKeeps
    <2>4. QED
      BY <1>5, <2>1, <2>2, <2>3 DEF UseGateway
  <1>6. CASE \E tx \in Txs : ProcessPayment(tx) \/ Skip(tx)
    <2>1. (\E id \in Gateway!Id : Gateway!GetIntent(id)) \/ UNCHANGED gateVars
      BY <1>6 DEF ProcessPayment, Payable, Skip
    <2>2. QED
      BY <1>2, <1>3, <2>1
  <1>7. CASE \/ Produce \/ \E tx \in Txs : ProcessGORR(tx)
             \/ WriteBalance \/ Include \/ SetHead
    BY <1>2, <1>7 DEF Produce, ProcessGORR, WriteBalance, Include, SetHead
  <1>8. CASE \/ TruncateIndex \/ FillIndex \/ FailIndex
             \/ TruncateBlock \/ FillBlock \/ FailBlock
             \/ TruncateHead \/ FillHead \/ FailHead
             \/ TruncateReceipts \/ FillReceipts \/ FailReceipts
    BY <1>2, <1>8 DEF TruncateIndex, FillIndex, FailIndex, TruncateBlock, FillBlock, FailBlock,
       TruncateHead, FillHead, FailHead, TruncateReceipts, FillReceipts, FailReceipts,
       Truncate, Fill, Fail
  <1>9. CASE Submit \/ Rest \/ UNCHANGED vars
    BY <1>2, <1>9 DEF Submit, Rest, vars
  <1>10. QED
    BY <1>2, <1>4, <1>5, <1>6, <1>7, <1>8, <1>9 DEF Next, Produces

\* Where the transaction that paid is: about to be included, in the block at
\* hand, or in a saved block below it.
Witness(tx, time) ==
    \/ pc = "include" /\ Current = tx /\ block.time = time
    \/ block.num >= 1 /\ block.time = time /\ Contains(block.txs, tx)
    \/ \E m \in 1..(block.num - 1) :
         Saved(m) /\ disk.block[m].time = time /\ Contains(disk.block[m].txs, tx)

PaidInv ==
    \A id \in Gateway!Id :
        LET i == intents[id] IN
        i.txHash # NoTx =>
            /\ Sender(i.txHash) = i.payer /\ i.txHash.to = i.merchant
            /\ i.txHash.value >= i.amount /\ i.txHash.intent = id
            /\ Witness(i.txHash, i.paidAt)

LEMMA ContainsAppend ==
  ASSUME NEW s \in Seq(Txs), NEW e \in Txs
  PROVE  /\ Contains(Append(s, e), e)
         /\ \A tx : Contains(s, tx) => Contains(Append(s, e), tx)
         /\ \A tx : Contains(Append(s, e), tx) => tx = e \/ Contains(s, tx)
  <1> DEFINE t == Append(s, e)
  <1>1. /\ Len(s) \in Nat /\ Len(t) = Len(s) + 1 /\ t[Len(s) + 1] = e
        /\ \A i \in 1..Len(s) : t[i] = s[i]
    OBVIOUS
  <1> HIDE DEF t
  <1>2. /\ Len(s) + 1 \in 1..Len(t)
        /\ \A i \in 1..Len(s) : i \in 1..Len(t)
        /\ \A i \in 1..Len(t) : i \in 1..Len(s) \/ i = Len(s) + 1
    BY <1>1
  <1>3. Contains(t, e)
    BY <1>1, <1>2 DEF Contains
  <1>4. \A tx : Contains(s, tx) => Contains(t, tx)
    BY <1>1, <1>2 DEF Contains
  <1>5. \A tx : Contains(t, tx) => tx = e \/ Contains(s, tx)
    BY <1>1, <1>2 DEF Contains
  <1>6. QED
    BY <1>3, <1>4, <1>5 DEF t

LEMMA FilesBelow ==
  ASSUME TypeInv, [Next]_vars, NEW m \in 0..MaxBlocks, m # block.num
  PROVE  disk'.block[m] = disk.block[m]
  <1>0. Files /\ IsHeader(head) /\ IsHeader(block)
    BY DEF TypeInv, NumberInv
  <1>1. CASE TruncateBlock \/ FillBlock
    BY <1>0, <1>1, FileSteps DEF Files
  <1>2. CASE Quiet \/ Produce \/ SetHead \/ Crash
    BY <1>0, <1>2, ChainSteps, CrashStep DEF Quiet
  <1>3. CASE \/ TruncateIndex \/ FillIndex \/ FailIndex
             \/ TruncateReceipts \/ FillReceipts \/ FailReceipts
             \/ TruncateHead \/ FillHead \/ FailBlock \/ FailHead
    BY <1>0, <1>3, FileSteps
  <1>4. QED
    BY <1>0, <1>1, <1>2, <1>3, QuietSteps DEF Next, Produces

\* What the steps do to the block at hand, and to the transaction under way.
LEMMA BlockSteps ==
  ASSUME TypeInv, [Next]_vars, ~Crash
  PROVE  \/ Produce
         \/ /\ Include /\ pc = "include" /\ pc' = "index" /\ Current \in Txs
            /\ block.txs \in Seq(Txs) /\ block'.txs = Append(block.txs, Current)
            /\ block'.time = block.time /\ block'.num = block.num /\ UNCHANGED <<disk, batch>>
         \/ UNCHANGED block /\ (pc = "include" => pc' = pc /\ UNCHANGED <<batch, disk>>)
  <1>1. CASE Include
    <2>1. Accounts /\ Lists /\ Places /\ IsBlock(block)
      BY TypeParts DEF TypeInv
    <2>2. /\ pc = "include" /\ batch # <<>> /\ pc' = "index" /\ UNCHANGED <<disk, batch>>
          /\ block' = [block EXCEPT !.txs = Append(block.txs, Current)]
      BY <1>1, <2>1 DEF Include, Goto, Places
    <2>3. Current \in Txs /\ block.txs \in Seq(Txs)
      BY <2>1, <2>2, CurrentTx DEF Lists, IsBlock
    <2>4. Append(block.txs, Current) \in Seq(Txs)
      BY <2>3
    <2>5. QED
      BY <1>1, <2>1, <2>2, <2>3, <2>4, BlockWithTxs
  <1>2. CASE \E tx \in Txs : ProcessGORR(tx) \/ ProcessPayment(tx) \/ Skip(tx)
    BY <1>2 DEF ProcessGORR, ProcessPayment, Skip, Considers
  <1>3. CASE WriteBalance \/ MarkPaid \/ SetHead
    BY <1>3 DEF WriteBalance, MarkPaid, SetHead, workVars
  <1>4. CASE Submit \/ UseGateway \/ Rest \/ UNCHANGED vars
    BY <1>4 DEF Submit, UseGateway, Rest, vars, workVars
  <1>5. CASE \/ TruncateIndex \/ FillIndex \/ FailIndex
             \/ TruncateBlock \/ FillBlock \/ FailBlock
             \/ TruncateHead \/ FillHead \/ FailHead
             \/ TruncateReceipts \/ FillReceipts \/ FailReceipts
    BY <1>5 DEF TruncateIndex, FillIndex, FailIndex, TruncateBlock, FillBlock, FailBlock,
       TruncateHead, FillHead, FailHead, TruncateReceipts, FillReceipts, FailReceipts,
       Truncate, Fill, Fail, FinishTx, workVars
  <1>6. QED
    BY <1>1, <1>2, <1>3, <1>4, <1>5 DEF Next, Produces

\* Only a restart loses the transaction that paid, as long as no write fails.
LEMMA WitnessStays ==
  ASSUME TypeInv, ChainInv, [Next]_vars, ~Crash, NEW tx, NEW time, Witness(tx, time)
  PROVE  Witness(tx, time)'
  <1>0. /\ Files /\ IsHeader(block) /\ block.num \in Nat /\ block.num <= MaxBlocks
        /\ pc \notin Building => block = head
    BY Bounds DEF TypeInv, NumberInv, IsHeader, WorkInv
  <1>1. \A m \in 1..(block.num - 1) : m \in 0..MaxBlocks /\ m # block.num
    BY <1>0, Bounds
  <1>2. \A m \in 1..(block.num - 1) : disk'.block[m] = disk.block[m] /\ (Saved(m) => Saved(m)')
    BY <1>1, FilesBelow DEF Saved
  <1>3. CASE Produce
    <2>1. /\ pc = "idle" /\ block'.num = block.num + 1 /\ UNCHANGED disk /\ block = head
      BY <1>0, <1>3, ChainSteps DEF TypeInv, NumberInv, Building
    <2>2. Stored(head)
      BY <2>1 DEF ChainInv, SavingBlock, SavingHead
    <2>3. Saved(block.num) /\ disk.block[block.num] = block
      BY <1>0, <2>1, <2>2 DEF Stored, Linked
    <2>4. CASE block.num >= 1 /\ block.time = time /\ Contains(block.txs, tx)
      <3>1. block.num \in 1..(block'.num - 1)
        BY <1>0, <2>1, <2>4
      <3>2. disk'.block[block.num] \notin {Absent, Torn} /\ disk'.block[block.num] = block
        BY <2>1, <2>3 DEF Saved
      <3>3. \E m \in 1..(block'.num - 1) :
               /\ disk'.block[m] \notin {Absent, Torn}
               /\ disk'.block[m].time = time /\ Contains(disk'.block[m].txs, tx)
        BY <2>4, <3>1, <3>2
      <3>4. QED
        BY <3>3 DEF Witness, Saved
    <2>5. CASE \E m \in 1..(block.num - 1) :
                 Saved(m) /\ disk.block[m].time = time /\ Contains(disk.block[m].txs, tx)
      <3>1. \A m \in 1..(block.num - 1) : m \in 1..(block'.num - 1)
        BY <1>0, <2>1
      <3>2. QED
        BY <1>2, <2>5, <3>1 DEF Witness
    <2>6. QED
      BY <2>1, <2>4, <2>5 DEF Witness
  <1>4. CASE /\ Include /\ pc = "include" /\ pc' = "index" /\ Current \in Txs
             /\ block.txs \in Seq(Txs) /\ block'.txs = Append(block.txs, Current)
             /\ block'.time = block.time /\ block'.num = block.num /\ UNCHANGED <<disk, batch>>
    <2>1. block.num >= 1
      BY <1>0, <1>4, Bounds DEF TypeInv, NumberInv, Building, IsHeader
    <2>2. /\ Contains(block'.txs, Current)
          /\ Contains(block.txs, tx) => Contains(block'.txs, tx)
      BY <1>4, ContainsAppend
    <2>3. QED
      BY <1>2, <1>4, <2>1, <2>2 DEF Witness
  <1>5. CASE UNCHANGED block /\ (pc = "include" => pc' = pc /\ UNCHANGED <<batch, disk>>)
    BY <1>2, <1>5 DEF Witness, Current
  <1>6. QED
    BY <1>3, <1>4, <1>5, BlockSteps

LEMMA StepPaid ==
  ASSUME TypeInv, ChainInv, PaidInv, [Next]_vars
  PROVE  PaidInv'
  <1>1. CASE Crash
    BY <1>1 DEF Crash, Gateway!Restart, Gateway!Id, PaidInv
  <1>2. CASE ~Crash
    <2> SUFFICES ASSUME NEW id \in Gateway!Id', NEW tx, NEW time, tx # NoTx,
                        intents'[id].txHash = tx, intents'[id].paidAt = time
                 PROVE  LET i == intents'[id] IN
                        /\ Sender(tx) = i.payer /\ tx.to = i.merchant
                        /\ tx.value >= i.amount /\ tx.intent = id
                        /\ Witness(tx, time)'
      BY DEF PaidInv, Witness, Sender
    <2>1. id \in Gateway!Id /\ Keeps(intents[id], intents'[id])
      BY <1>2, IntentSteps
    <2>2. CASE SameEvidence(intents[id], intents'[id])
      <3>1. tx = intents[id].txHash /\ time = intents[id].paidAt
        BY <2>2 DEF SameEvidence
      <3>2. /\ Sender(tx) = intents[id].payer /\ tx.to = intents[id].merchant
            /\ tx.value >= intents[id].amount /\ tx.intent = id /\ Witness(tx, time)
        BY <2>1, <3>1 DEF PaidInv
      <3>3. Witness(tx, time)'
        BY <1>2, <3>2, WitnessStays
      <3>4. QED
        BY <2>1, <2>2, <3>2, <3>3 DEF Keeps, SameEvidence
    <2>3. CASE /\ pc = "mark" /\ MarkPaid /\ id = Current.intent
               /\ MarkedBy(intents[id], intents'[id], Current)
      <3>1. pc' = "include" /\ UNCHANGED <<batch, block>>
        BY <2>3 DEF MarkPaid, Goto, workVars
      <3>2. /\ tx = Current /\ time = block.time
            /\ intents'[id].payer = Sender(Current) /\ Current.to = intents[id].merchant
            /\ Current.value >= intents[id].amount
        BY <2>3 DEF MarkedBy
      <3>3. Witness(tx, time)'
        BY <3>1, <3>2 DEF Witness, Current
      <3>4. QED
        BY <2>1, <2>3, <3>2, <3>3 DEF Keeps
    <2>4. QED
      BY <1>2, <2>1, <2>2, <2>3, IntentSteps
  <1>3. QED
    BY <1>1, <1>2

\* An intent that names a transaction was paid by it, in a block of the chain:
\* no crash leaves a payment that the chain does not have, for any number of
\* blocks, intents and crashes, as long as no write fails.
THEOREM PaymentsAreInChain ==
  ASSUME MaxFailures = 0, BlocksAreTold
  PROVE  Spec => []PaidIntentInChain
  <1>1. Init => TypeInv /\ ChainInv /\ PaidInv
    BY InitTypes, InitChain DEF Init, PaidInv, Gateway!Init, Gateway!Id
  <1>2. TypeInv /\ ChainInv /\ PaidInv /\ [Next]_vars => (TypeInv /\ ChainInv /\ PaidInv)'
    BY StepTypes, StepChain, StepPaid DEF TypeInv
  <1>3. TypeInv /\ PaidInv => PaidIntentInChain
    <2> SUFFICES ASSUME TypeInv, PaidInv, NEW id \in Gateway!Id, intents[id].txHash # NoTx
                 PROVE  LET i  == intents[id]
                            tx == i.txHash
                        IN  /\ Sender(tx) = i.payer /\ tx.to = i.merchant /\ tx.value >= i.amount
                            /\ tx.intent = id
                            /\ \/ pc = "include" /\ Current = tx /\ block.time = i.paidAt
                               \/ \E b \in SavedChain \cup {block} :
                                    b.time = i.paidAt /\ Contains(b.txs, tx)
      BY DEF PaidIntentInChain
    <2> DEFINE i == intents[id]
    <2>1. /\ Sender(i.txHash) = i.payer /\ i.txHash.to = i.merchant /\ i.txHash.value >= i.amount
          /\ i.txHash.intent = id /\ Witness(i.txHash, i.paidAt)
      BY DEF PaidInv
    <2>2. \A m \in 1..(block.num - 1) : m \in 1..head.num
      BY Bounds DEF TypeInv, WorkInv, NumberInv, IsHeader
    <2>3. \A m \in 1..(block.num - 1) : Saved(m) => disk.block[m] \in SavedChain
      BY <2>2 DEF SavedChain
    <2> HIDE DEF i
    <2>4. \/ pc = "include" /\ Current = i.txHash /\ block.time = i.paidAt
          \/ \E b \in SavedChain \cup {block} : b.time = i.paidAt /\ Contains(b.txs, i.txHash)
      BY <2>1, <2>3 DEF Witness
    <2>5. QED
      BY <2>1, <2>4 DEF i
  <1>4. QED
    BY <1>1, <1>2, <1>3, PTL DEF Spec

-----------------------------------------------------------------------------
(* Payments close their intents *)

\* A transaction without an intent, one that pays too little, or one whose
\* intent is paid or was found expired.
Closed(tx) ==
    tx.intent # 0 =>
        /\ tx.intent \in Gateway!Id
        /\ tx.value >= intents[tx.intent].amount =>
             intents[tx.intent].paid \/ intents[tx.intent].status = "expired"

ClosedInv ==
    /\ crashes \in Nat
    /\ \A id \in Gateway!Id : intents[id].status = "expired" => now > intents[id].expiry
    /\ pc \in {"write", "mark"} /\ Current.intent # 0 =>
         intents[Current.intent].merchant = Current.to
    /\ crashes = 0 =>
         /\ pc = "include" => Closed(Current)
         /\ \A tx : Contains(block.txs, tx) => Closed(tx)
         /\ \A m \in 0..MaxBlocks : \A tx :
              Saved(m) /\ Contains(disk.block[m].txs, tx) => Closed(tx)

\* MarkPaidFromTx refuses a payment of the whole amount to the merchant only if
\* the intent is closed already.
LEMMA MarkedCloses ==
  ASSUME NEW i \in Gateway!Intent, GatewayProofs!Agree(i), NEW payer, NEW merchant, NEW amount,
         NEW tx, NEW time, merchant = i.merchant, amount >= i.amount
  PROVE  LET j == Gateway!Marked(i, payer, merchant, amount, tx, time) IN
         j.paid \/ j.status = "expired"
  <1> DEFINE u == Gateway!Updated(i, time)
  <1>1. /\ u.merchant = i.merchant /\ u.amount = i.amount /\ u.paid = i.paid
        /\ u.status = i.status \/ u.status = "expired"
    BY DEF Gateway!Intent, Gateway!Updated
  <1>2. u.status = "pending" => [u EXCEPT !.paid = TRUE, !.status = "paid", !.payer = payer,
                                          !.paidAt = time, !.txHash = tx].paid
    BY DEF Gateway!Intent, Gateway!Updated
  <1>3. u.paid \/ u.status \in {"pending", "expired"}
    BY <1>1 DEF GatewayProofs!Agree, Gateway!Intent, Gateway!Status
  <1> HIDE DEF u
  <1>4. QED
    BY <1>1, <1>2, <1>3 DEF Gateway!Marked, u

LEMMA ClosedStays ==
  ASSUME TypeInv, [Next]_vars, ~Crash, NEW tx, Closed(tx)
  PROVE  Closed(tx)'
  BY IntentSteps DEF Closed, Keeps

LEMMA CrashCount ==
  ASSUME [Next]_vars
  PROVE  (Crash /\ crashes' = crashes + 1) \/ crashes' = crashes
  <1>1. CASE \/ Produce \/ \E tx \in Txs : ProcessGORR(tx) \/ ProcessPayment(tx) \/ Skip(tx)
             \/ WriteBalance \/ MarkPaid \/ Include \/ SetHead
    BY <1>1 DEF Produce, ProcessGORR, ProcessPayment, Skip, WriteBalance, MarkPaid, Include,
       SetHead, envVars
  <1>2. CASE \/ TruncateIndex \/ FillIndex \/ FailIndex
             \/ TruncateBlock \/ FillBlock \/ FailBlock
             \/ TruncateHead \/ FillHead \/ FailHead
             \/ TruncateReceipts \/ FillReceipts \/ FailReceipts
    BY <1>2 DEF TruncateIndex, FillIndex, FailIndex, TruncateBlock, FillBlock, FailBlock,
       TruncateHead, FillHead, FailHead, TruncateReceipts, FillReceipts, FailReceipts,
       Truncate, Fill, Fail, envVars
  <1>3. CASE Submit \/ UseGateway \/ Crash \/ Rest \/ UNCHANGED vars
    BY <1>3 DEF Submit, UseGateway, Crash, Rest, vars, envVars
  <1>4. QED
    BY <1>1, <1>2, <1>3 DEF Next, Produces

\* How the goroutine gets to the places where it works on a payment.
LEMMA PaymentSteps ==
  ASSUME TypeInv, [Next]_vars, ~Crash, pc' \in {"write", "mark", "include"}
  PROVE  /\ UNCHANGED batch
         /\ \/ pc' = pc
            \/ pc = "write" /\ pc' = "mark"
            \/ pc = "write" /\ pc' = "include" /\ Current.intent = 0
            \/ pc = "mark" /\ MarkPaid /\ pc' = "include"
            \/ /\ pc = "next" /\ pc' = "write"
               /\ Current.intent # 0 =>
                    /\ Current.intent \in Gateway!Id
                    /\ intents[Current.intent].merchant = Current.to
  <1>1. CASE \E tx \in Txs : ProcessGORR(tx) \/ ProcessPayment(tx)
    BY <1>1 DEF ProcessGORR, ProcessPayment, Payable, Considers, Goto
  <1>2. CASE WriteBalance \/ MarkPaid
    BY <1>2 DEF WriteBalance, MarkPaid, Goto, workVars
  <1>3. CASE Produce \/ Include \/ SetHead \/ \E tx \in Txs : Skip(tx)
    BY <1>3 DEF Produce, Include, SetHead, Skip, Considers, Goto
  <1>4. CASE \/ TruncateIndex \/ FillIndex \/ FailIndex
             \/ TruncateBlock \/ FillBlock \/ FailBlock
             \/ TruncateHead \/ FillHead \/ FailHead
             \/ TruncateReceipts \/ FillReceipts \/ FailReceipts
    BY <1>4 DEF TruncateIndex, FillIndex, FailIndex, TruncateBlock, FillBlock, FailBlock,
       TruncateHead, FillHead, FailHead, TruncateReceipts, FillReceipts, FailReceipts,
       Truncate, Fill, Fail, Goto
  <1>5. CASE Submit \/ UseGateway \/ Rest \/ UNCHANGED vars
    BY <1>5 DEF Submit, UseGateway, Rest, vars, workVars
  <1>6. QED
    BY <1>1, <1>2, <1>3, <1>4, <1>5 DEF Next, Produces

\* A block file holds what it held, or the block at hand, or is torn.
LEMMA BlockFiles ==
  ASSUME TypeInv, [Next]_vars, NEW m \in 0..MaxBlocks
  PROVE  \/ disk'.block[m] \in {disk.block[m], Torn}
         \/ disk'.block[m] = block /\ UNCHANGED block
  <1>0. Files /\ IsHeader(head) /\ IsHeader(block)
    BY DEF TypeInv, NumberInv
  <1>1. CASE m = block.num /\ (TruncateBlock \/ FillBlock)
    BY <1>0, <1>1, FileSteps DEF Files
  <1>2. CASE m # block.num
    BY <1>2, FilesBelow
  <1>3. CASE Quiet \/ Produce \/ SetHead \/ Crash
    BY <1>0, <1>3, ChainSteps, CrashStep DEF Quiet
  <1>4. CASE \/ TruncateIndex \/ FillIndex \/ FailIndex
             \/ TruncateReceipts \/ FillReceipts \/ FailReceipts
             \/ TruncateHead \/ FillHead \/ FailBlock \/ FailHead
    BY <1>0, <1>4, FileSteps
  <1>5. QED
    BY <1>0, <1>1, <1>2, <1>3, <1>4, QuietSteps DEF Next, Produces

LEMMA MarkPaidCloses ==
  ASSUME TypeInv, ClosedInv, MarkPaid
  PROVE  Closed(Current)'
  <1>0. /\ pc = "mark" /\ Current.intent # 0 /\ Current.intent \in Gateway!Id
        /\ batch # <<>> /\ batch \in Seq(Txs) /\ UNCHANGED batch
        /\ intents \in [Gateway!Id -> Gateway!Intent]
        /\ Current.to = intents[Current.intent].merchant
    BY DEF MarkPaid, TypeInv, WorkInv, TypeOK, Gateway!TypeOK, ClosedInv, workVars
  <1>1. Current \in Txs /\ Current.value \in Nat
    BY <1>0, CurrentTx, TxFields
  <1> DEFINE id == Current.intent
             i  == intents[id]
  <1>2. i \in Gateway!Intent /\ i.amount \in Nat /\ i.amount > 0
    <2>1. i \in Gateway!Intent
      BY <1>0
    <2>2. i.amount \in InvoiceAmount
      BY <2>1 DEF Gateway!Intent
    <2>3. \A a \in InvoiceAmount : a \in Nat /\ a > 0
      BY IntentAssumption
    <2>4. QED
      BY <2>1, <2>2, <2>3
  <1>3. GatewayProofs!Agree(i)
    <2>1. Gateway!Id = GatewayProofs!Id
      BY SameGateway
    <2>2. GatewayProofs!FlagsAgree
      BY DEF TypeInv, GatewayProofs!Consistent
    <2>3. QED
      BY <1>0, <2>1, <2>2 DEF GatewayProofs!FlagsAgree
  <1>4. UNCHANGED counter /\ (Current.value > 0 \/ UNCHANGED intents)
    BY DEF MarkPaid, Gateway!MarkPaidFromTx, Gateway!Replace, gateVars
  <1>5. CASE Current.value > 0
    <2>1. intents' = [intents EXCEPT ![id] =
              Gateway!Marked(i, Sender(Current), Current.to, Current.value, Current, block.time)]
      BY <1>5 DEF MarkPaid, Gateway!MarkPaidFromTx, Gateway!Replace
    <2>2. intents'[id] = Gateway!Marked(i, Sender(Current), Current.to, Current.value, Current, block.time)
      BY <1>0, <2>1
    <2>3. intents'[id].amount = i.amount
      BY <1>2, <2>2, MarkedKeeps DEF Keeps
    <2>4. Current.value >= i.amount => intents'[id].paid \/ intents'[id].status = "expired"
      BY <1>0, <1>2, <1>3, <2>2, MarkedCloses
    <2>5. QED
      BY <1>0, <1>4, <2>3, <2>4 DEF Closed, Current, Gateway!Id
  <1>6. CASE ~(Current.value > 0)
    <2>1. Current' = Current /\ UNCHANGED intents /\ Gateway!Id' = Gateway!Id
      BY <1>0, <1>4, <1>6 DEF Current, Gateway!Id
    <2>2. ~(Current.value >= i.amount)
      BY <1>1, <1>2, <1>6
    <2>3. QED
      BY <1>0, <2>1, <2>2 DEF Closed
  <1>7. QED
    BY <1>5, <1>6

LEMMA StepClosed ==
  ASSUME TypeInv, ClosedInv, [Next]_vars
  PROVE  ClosedInv'
  <1>1. CASE Crash
    <2>1. crashes' \in Nat /\ crashes' # 0
      BY <1>1 DEF ClosedInv, Crash
    <2>2. pc' \notin {"write", "mark"} /\ Gateway!Id' = {}
      BY <1>1 DEF Crash, Goto, Gateway!Restart, Gateway!Id
    <2>3. QED
      BY <2>1, <2>2 DEF ClosedInv
  <1>2. CASE ~Crash
    <2>1. crashes' \in Nat /\ crashes' = crashes
      BY <1>2, CrashCount DEF ClosedInv
    <2>2. ASSUME NEW id \in Gateway!Id', intents'[id].status = "expired"
          PROVE  now' > intents'[id].expiry
      <3>1. id \in Gateway!Id
        BY <1>2, <2>2, IntentSteps
      <3>2. /\ intents[id].status = "expired" \/ now > intents[id].expiry
            /\ intents'[id].expiry = intents[id].expiry /\ now \in Nat /\ now' \in Nat /\ now <= now'
        BY <1>2, <2>2, <3>1, IntentSteps DEF Lapses, Keeps
      <3>3. intents[id].expiry \in Int
        BY <3>1, IntentAssumption DEF TypeInv, TypeOK, Gateway!TypeOK, Gateway!Intent
      <3>4. QED
        BY <3>1, <3>2, <3>3 DEF ClosedInv
    <2>3. ASSUME pc' \in {"write", "mark"}, Current'.intent # 0
          PROVE  intents'[Current'.intent].merchant = Current'.to
      <3>1. /\ Current' = Current /\ Current.intent \in Gateway!Id
            /\ intents[Current.intent].merchant = Current.to
        BY <1>2, <2>3, PaymentSteps DEF ClosedInv, Current, TypeInv, WorkInv
      <3>2. QED
        BY <1>2, <3>1, IntentSteps DEF Keeps
    <2>4. ASSUME crashes = 0, pc' = "include" PROVE Closed(Current)'
      <3>1. CASE pc' = pc
        <4>1. Closed(Current) /\ UNCHANGED batch
          BY <1>2, <2>4, <3>1, PaymentSteps DEF ClosedInv
        <4>2. \A tx : Closed(tx) => Closed(tx)'
          BY <1>2, ClosedStays
        <4>3. QED
          BY <4>1, <4>2 DEF Closed, Current
      <3>2. CASE Current.intent = 0 /\ UNCHANGED batch
        BY <3>2 DEF Closed, Current
      <3>3. CASE MarkPaid
        BY <3>3, MarkPaidCloses
      <3>4. QED
        BY <1>2, <2>4, <3>1, <3>2, <3>3, PaymentSteps
    <2>5. ASSUME crashes = 0, NEW tx, Contains(block'.txs, tx) PROVE Closed(tx)'
      <3>1. CASE Produce
        BY <2>5, <3>1 DEF Produce, NewBlock, Contains
      <3>2. CASE pc = "include" /\ block.txs \in Seq(Txs) /\ Current \in Txs
                 /\ block'.txs = Append(block.txs, Current)
        <4>1. tx = Current \/ Contains(block.txs, tx)
          BY <2>5, <3>2, ContainsAppend
        <4>2. Closed(tx)
          BY <2>5, <3>2, <4>1 DEF ClosedInv
        <4>3. QED
          BY <1>2, <4>2, ClosedStays
      <3>3. CASE UNCHANGED block
        BY <1>2, <2>5, <3>3, ClosedStays DEF ClosedInv
      <3>4. QED
        BY <1>2, <3>1, <3>2, <3>3, BlockSteps
    <2>6. ASSUME crashes = 0, NEW m \in 0..MaxBlocks, NEW tx, Saved(m)',
                 Contains(disk'.block[m].txs, tx)
          PROVE  Closed(tx)'
      <3>1. Closed(tx)
        BY <2>6, BlockFiles DEF ClosedInv, Saved
      <3>2. QED
        BY <1>2, <3>1, ClosedStays
    <2>7. QED
      BY <2>1, <2>2, <2>3, <2>4, <2>5, <2>6 DEF ClosedInv
  <1>3. QED
    BY <1>1, <1>2

LEMMA InitClosed == Init => ClosedInv
  <1> SUFFICES ASSUME Init PROVE ClosedInv
    OBVIOUS
  <1>1. /\ crashes = 0 /\ pc = "idle" /\ Gateway!Id = {} /\ block.txs = <<>>
        /\ \A m \in 0..MaxBlocks : disk.block[m] \in {Absent, Genesis}
    BY DEF Init, Gateway!Init, Gateway!Id, Genesis, NewBlock
  <1>2. \A tx : ~Contains(<<>>, tx) /\ ~Contains(Genesis.txs, tx)
    BY DEF Contains, Genesis, NewBlock
  <1>3. QED
    BY <1>1, <1>2 DEF ClosedInv, Saved

\* A payment of the whole amount that is in the chain has closed its intent:
\* money that moved is refused by the gateway only if it came too late, twice or
\* too short, wherever the pool holds the payments and whatever writes fail.
THEOREM PaymentsClose == Spec => []FullPaymentClosesIntent
  <1>1. Init => TypeInv /\ ClosedInv
    BY InitTypes, InitClosed
  <1>2. TypeInv /\ ClosedInv /\ [Next]_vars => (TypeInv /\ ClosedInv)'
    BY StepTypes, StepClosed
  <1>3. TypeInv /\ ClosedInv => FullPaymentClosesIntent
    <2> SUFFICES ASSUME TypeInv, ClosedInv, crashes = 0, NEW b \in SavedChain, NEW tx \in Txs,
                        Contains(b.txs, tx), tx.intent # 0, tx.value >= intents[tx.intent].amount
                 PROVE  \/ intents[tx.intent].paid
                        \/ intents[tx.intent].status = "expired" /\ now > intents[tx.intent].expiry
      BY DEF FullPaymentClosesIntent
    <2>1. \A m \in 1..head.num : m \in 0..MaxBlocks
      BY Bounds DEF TypeInv, NumberInv, IsHeader
    <2>2. PICK m \in 1..head.num : Saved(m) /\ b = disk.block[m]
      BY DEF SavedChain
    <2>3. Closed(tx)
      BY <2>1, <2>2 DEF ClosedInv
    <2>4. QED
      BY <2>3 DEF Closed, ClosedInv
  <1>4. QED
    BY <1>1, <1>2, <1>3, PTL DEF Spec

-----------------------------------------------------------------------------
(* The transaction index and the receipts *)

\* What tells a file that holds an index from one that is missing or torn.
IndexIsTold ==
    \A S \in SUBSET Txs : \A f \in [S -> 0..MaxBlocks] : f \notin {Absent, Torn}

\* The index in use: SaveTxIndex holds what it loaded while the file is torn.
Loaded ==
    IF pc = "indexFill" THEN index
    ELSE IF disk.index \in {Absent, Torn} THEN NoIndex ELSE disk.index

\* The transactions of the blocks so far, in their files or still at hand.
Numbers == 1..block.num \cup {block.num}
ChainTxs == [m \in Numbers |-> IF m = block.num THEN block.txs ELSE disk.block[m].txs]

Indexing == {"index", "indexFill"}

\* An index entry names a block that has its transaction.
Located(lookup, chain, num) ==
    \A tx \in DOMAIN lookup : lookup[tx] \in 1..num /\ Contains(chain[lookup[tx]], tx)

\* A transaction is in the index, with the last block that has it, unless it
\* is in the last block and still missing.
Found(lookup, chain, num, missing) ==
    \A m \in 1..num : \A tx :
        Contains(chain[m], tx) =>
            \/ tx \in DOMAIN lookup /\ lookup[tx] >= m
            \/ m = num /\ tx \in missing

\* The transaction that was included and is not indexed yet.
Missing == IF pc \in Indexing THEN {Current} ELSE {}

IndexInv ==
    /\ DOMAIN Loaded \subseteq Txs /\ Loaded \in [DOMAIN Loaded -> 0..MaxBlocks]
    /\ pc = "index" => index = Loaded
    /\ pc \in Indexing => block.txs # <<>> /\ block.txs[Len(block.txs)] = Current
    /\ Located(Loaded, ChainTxs, block.num)
    /\ Found(Loaded, ChainTxs, block.num, Missing)

ReceiptsOf(txs, num, n) ==
    [k \in 1..n |-> [tx |-> txs[k], block |-> num, index |-> k - 1]]

\* Receipts are written for the block at hand once its files are saved.
ReceiptInv ==
    /\ \A m \in 1..(block.num - 1) : disk.receipts[m] = ReceiptsOf(ChainTxs[m], m, Len(ChainTxs[m]))
    /\ pc \in Indexing => receipts = ReceiptsOf(block.txs, block.num, Len(block.txs) - 1)
    /\ pc \notin Indexing \cup {"idle"} => receipts = ReceiptsOf(block.txs, block.num, Len(block.txs))
    /\ pc = "idle" /\ block.num >= 1 =>
         disk.receipts[block.num] = ReceiptsOf(block.txs, block.num, Len(block.txs))

LookupInv == crashes \in Nat /\ (crashes = 0 => pc # "down" /\ IndexInv /\ ReceiptInv)

\* Between transactions, and while files other than the index are written, all
\* that the two invariants speak of stays.
Apart ==
    /\ UNCHANGED <<block, receipts>> /\ disk'.index = disk.index
    /\ pc = "idle" => pc' = "idle"
    /\ \/ pc \in Indexing /\ pc' = pc /\ UNCHANGED <<batch, index>>
       \/ pc \notin Indexing /\ pc' \notin Indexing

LEMMA ChainStays ==
  ASSUME TypeInv, [Next]_vars, UNCHANGED block
  PROVE  ChainTxs' = ChainTxs
  <1>1. \A m \in Numbers : m \in 0..MaxBlocks
    BY Bounds DEF TypeInv, NumberInv, IsHeader, Numbers
  <1>2. \A m \in Numbers : m # block.num => disk'.block[m] = disk.block[m]
    BY <1>1, FilesBelow
  <1>3. QED
    BY <1>2 DEF ChainTxs, Numbers

LEMMA ReceiptFileStays ==
  ASSUME TypeInv, [Next]_vars, NEW m \in 0..MaxBlocks
  PROVE  \/ disk'.receipts[m] = disk.receipts[m]
         \/ /\ m = block.num /\ pc \in {"receipts", "receiptsFill"} /\ UNCHANGED <<block, receipts>>
            /\ pc' = "idle" => FillReceipts \/ FailReceipts
  <1>0. Files /\ ReceiptFiles /\ IsHeader(block)
    BY DEF TypeInv, NumberInv
  <1>1. CASE TruncateReceipts \/ FillReceipts
    BY <1>0, <1>1 DEF TruncateReceipts, FillReceipts, Truncate, Fill, Goto, workVars, Files, ReceiptFiles
  <1>2. CASE TruncateIndex \/ FillIndex \/ TruncateBlock \/ FillBlock \/ TruncateHead \/ FillHead
    BY <1>0, <1>2 DEF TruncateIndex, FillIndex, TruncateBlock, FillBlock, TruncateHead, FillHead, Files
  <1>3. CASE FailIndex \/ FailBlock \/ FailHead \/ FailReceipts
    BY <1>3 DEF FailIndex, FailBlock, FailHead, FailReceipts, Fail
  <1>4. CASE Quiet \/ Produce \/ SetHead \/ Crash
    BY <1>4, CrashStep DEF Quiet, Produce, SetHead
  <1>5. QED
    BY <1>0, <1>1, <1>2, <1>3, <1>4, QuietSteps DEF Next, Produces

\* The steps, seen from the index and the receipts.
LEMMA LookupSteps ==
  ASSUME TypeInv, [Next]_vars, ~Crash, ~FailIndex
  PROVE  \/ Produce \/ Include \/ TruncateIndex \/ FillIndex
         \/ /\ Apart /\ (pc # "down" => pc' # "down")
            /\ pc' = "idle" => \/ pc = "idle" /\ UNCHANGED disk
                               \/ FillReceipts \/ FailReceipts
  <1>0. Files
    BY DEF TypeInv, NumberInv
  <1>1. CASE \E tx \in Txs : ProcessGORR(tx) \/ ProcessPayment(tx) \/ Skip(tx)
    BY <1>1 DEF ProcessGORR, ProcessPayment, Skip, Considers, Goto, Apart, Indexing
  <1>2. CASE WriteBalance \/ MarkPaid \/ SetHead
    BY <1>2 DEF WriteBalance, MarkPaid, SetHead, Goto, workVars, Apart, Indexing
  <1>3. CASE Submit \/ UseGateway \/ Rest \/ UNCHANGED vars
    BY <1>3 DEF Submit, UseGateway, Rest, vars, workVars, Apart, Indexing
  <1>4. CASE \/ TruncateBlock \/ FillBlock \/ FailBlock
             \/ TruncateHead \/ FillHead \/ FailHead
             \/ TruncateReceipts \/ FillReceipts \/ FailReceipts
    <2>1. UNCHANGED workVars /\ disk'.index = disk.index
      BY <1>0, <1>4 DEF TruncateBlock, FillBlock, FailBlock, TruncateHead, FillHead, FailHead,
         TruncateReceipts, FillReceipts, FailReceipts, Truncate, Fill, Fail, Files
    <2>2. /\ pc \notin Indexing \cup {"idle"} /\ pc' \notin Indexing \cup {"down"}
          /\ pc' = "idle" => FillReceipts \/ FailReceipts
      BY <1>4 DEF TruncateBlock, FillBlock, FailBlock, TruncateHead, FillHead, FailHead,
         TruncateReceipts, FillReceipts, FailReceipts, Truncate, Fill, Fail, Goto, Indexing
    <2>3. QED
      BY <2>1, <2>2 DEF Apart, workVars
  <1>5. QED
    BY <1>1, <1>2, <1>3, <1>4 DEF Next, Produces

LEMMA ApartIndex ==
  ASSUME TypeInv, IndexInv, [Next]_vars, Apart
  PROVE  IndexInv'
  <1>1. ChainTxs' = ChainTxs /\ UNCHANGED block
    BY ChainStays DEF Apart
  <1>2. Loaded' = Loaded /\ Missing' = Missing
    BY DEF Apart, Indexing, Loaded, Missing, Current
  <1>3. pc' \in Indexing => pc' = pc /\ UNCHANGED index /\ Current' = Current
    BY DEF Apart, Current
  <1>4. QED
    BY <1>1, <1>2, <1>3 DEF IndexInv, Indexing, Located, Found

LEMMA ApartReceipts ==
  ASSUME TypeInv, ReceiptInv, [Next]_vars, Apart, pc # "down",
         pc' = "idle" => (pc = "idle" /\ UNCHANGED disk) \/ FillReceipts
  PROVE  ReceiptInv'
  <1>0. /\ block.num \in Nat /\ block.num <= MaxBlocks /\ MaxBlocks \in Nat
        /\ UNCHANGED <<block, receipts>> /\ ReceiptFiles /\ Files
        /\ (pc \in Indexing <=> pc' \in Indexing)
    BY Bounds DEF TypeInv, NumberInv, IsHeader, Apart
  <1>1. ChainTxs' = ChainTxs
    BY <1>0, ChainStays
  <1>2. \A m \in 1..(block.num - 1) : m \in 0..MaxBlocks /\ m # block.num
    BY <1>0
  <1>3. \A m \in 1..(block.num - 1) : disk'.receipts[m] = disk.receipts[m]
    BY <1>2, ReceiptFileStays
  <1>4. pc' \in Indexing => receipts' = ReceiptsOf(block.txs, block.num, Len(block.txs) - 1)
    BY <1>0 DEF ReceiptInv
  <1>5. pc' \notin Indexing \cup {"idle"} =>
          receipts' = ReceiptsOf(block.txs, block.num, Len(block.txs))
    <2>1. CASE pc = "idle" /\ pc' # "idle"
      BY <2>1 DEF Apart
    <2>2. QED
      BY <1>0, <2>1 DEF ReceiptInv
  <1>6. pc' = "idle" /\ block.num >= 1 =>
          disk'.receipts[block.num] = ReceiptsOf(block.txs, block.num, Len(block.txs))
    <2>1. CASE FillReceipts
      <3>1. /\ pc = "receiptsFill"
            /\ disk'.receipts = [disk.receipts EXCEPT ![block.num] = receipts]
        BY <1>0, <2>1 DEF FillReceipts, Fill, Files
      <3>2. disk'.receipts[block.num] = receipts
        BY <1>0, <3>1 DEF ReceiptFiles
      <3>3. QED
        BY <3>1, <3>2 DEF ReceiptInv, Indexing
    <2>2. QED
      BY <2>1 DEF ReceiptInv
  <1>7. QED
    BY <1>0, <1>1, <1>3, <1>4, <1>5, <1>6 DEF ReceiptInv

\* A new block: the last one is in its file, under its number, with its receipts.
LEMMA ProduceLookup ==
  ASSUME TypeInv, ChainInv, IndexInv, ReceiptInv, Produce
  PROVE  IndexInv' /\ ReceiptInv'
  <1>1. /\ pc = "idle" /\ pc' = "next" /\ UNCHANGED <<head, disk, index>>
        /\ block'.num = head.num + 1 /\ block'.txs = <<>> /\ receipts' = <<>> /\ block = head
    BY DEF Produce, NewBlock, Goto, TypeInv, WorkInv, Building
  <1>2. head.num \in Nat /\ block'.num \in Nat /\ head.num >= 0
    BY <1>1, Bounds DEF TypeInv, NumberInv, IsHeader
  <1>3. disk.block[head.num] = head
    BY <1>1 DEF ChainInv, SavingBlock, SavingHead, Stored, Linked
  <1>4. /\ Loaded' = Loaded /\ Missing' = {} /\ Missing = {}
        /\ pc \notin Indexing /\ pc' \notin Indexing
    BY <1>1 DEF Loaded, Missing, Indexing
  <1>5. /\ \A m \in 1..head.num : m \in Numbers /\ m \in Numbers' /\ ChainTxs'[m] = ChainTxs[m]
        /\ ChainTxs'[head.num + 1] = <<>>
    BY <1>1, <1>2, <1>3 DEF ChainTxs, Numbers
  <1>6. Located(Loaded, ChainTxs', head.num + 1)
    <2>1. \A n \in 1..head.num : n \in 1..(head.num + 1)
      BY <1>2
    <2>2. QED
      BY <1>1, <1>5, <2>1 DEF IndexInv, Located
  <1>7. Found(Loaded, ChainTxs', head.num + 1, {})
    <2> SUFFICES ASSUME NEW m \in 1..(head.num + 1), NEW tx, Contains(ChainTxs'[m], tx)
                 PROVE  \/ tx \in DOMAIN Loaded /\ Loaded[tx] >= m
                        \/ m = head.num + 1 /\ tx \in {}
      BY DEF Found
    <2>1. ~Contains(<<>>, tx)
      BY DEF Contains
    <2>2. m \in 1..head.num
      BY <1>2, <1>5, <2>1
    <2>3. QED
      BY <1>1, <1>4, <1>5, <2>2 DEF IndexInv, Found
  <1>8. IndexInv'
    BY <1>1, <1>4, <1>6, <1>7 DEF IndexInv, Indexing
  <1>9. \A m \in 1..head.num : disk'.receipts[m] = ReceiptsOf(ChainTxs'[m], m, Len(ChainTxs'[m]))
    <2>1. TAKE m \in 1..head.num
    <2>2. CASE m = head.num
      <3>1. ChainTxs[m] = block.txs
        BY <1>1, <2>2 DEF ChainTxs, Numbers
      <3>2. QED
        BY <1>1, <1>2, <1>5, <2>2, <3>1 DEF ReceiptInv
    <2>3. CASE m # head.num
      <3>1. m \in 1..(head.num - 1)
        BY <1>2, <2>3
      <3>2. QED
        BY <1>1, <1>5, <3>1 DEF ReceiptInv
    <2>4. QED
      BY <2>2, <2>3
  <1>10. ReceiptsOf(block'.txs, block'.num, Len(block'.txs)) = receipts'
    BY <1>1 DEF ReceiptsOf
  <1>11. block'.num - 1 = head.num
    BY <1>1, <1>2
  <1>12. ReceiptInv'
    BY <1>1, <1>4, <1>9, <1>10, <1>11 DEF ReceiptInv
  <1>13. QED
    BY <1>8, <1>12

LEMMA IncludeLookup ==
  ASSUME TypeInv, IndexInv, ReceiptInv, Include
  PROVE  IndexInv' /\ ReceiptInv'
  <1>0. Accounts /\ Lists /\ Places /\ IsBlock(block) /\ block.num \in Nat
    BY TypeParts, Bounds DEF TypeInv, IsBlock
  <1>1. /\ pc = "include" /\ pc' = "index" /\ UNCHANGED <<disk, batch, receipts>>
        /\ index' = IF disk.index \in {Absent, Torn} THEN NoIndex ELSE disk.index
        /\ block' = [block EXCEPT !.txs = Append(block.txs, Current)]
        /\ Current \in Txs /\ block.txs \in Seq(Txs)
    BY <1>0, CurrentTx DEF Include, Goto, Places, Lists, IsBlock
  <1>2. /\ block'.txs = Append(block.txs, Current) /\ block'.num = block.num
        /\ block'.txs \in Seq(Txs) /\ Len(block'.txs) = Len(block.txs) + 1 /\ Len(block.txs) \in Nat
        /\ block'.txs[Len(block'.txs)] = Current
        /\ \A k \in 1..Len(block.txs) : block'.txs[k] = block.txs[k]
    <2>1. Append(block.txs, Current) \in Seq(Txs)
      BY <1>1
    <2>2. block'.txs = Append(block.txs, Current) /\ block'.num = block.num
      BY <1>0, <1>1, <2>1, BlockWithTxs
    <2>3. QED
      BY <1>1, <2>1, <2>2
  <1>3. /\ Loaded' = Loaded /\ index' = Loaded /\ Missing' = {Current} /\ Missing = {}
        /\ Current' = Current
    BY <1>1 DEF Loaded, Missing, Indexing, Current
  <1>4. /\ ChainTxs'[block.num] = block'.txs /\ ChainTxs[block.num] = block.txs
        /\ \A m \in 1..(block.num - 1) : m \in 1..block.num /\ ChainTxs'[m] = ChainTxs[m]
    BY <1>0, <1>1, <1>2 DEF ChainTxs, Numbers
  <1>5. \A m \in 1..block.num : m = block.num \/ m \in 1..(block.num - 1)
    BY <1>0
  <1>6. \A m \in 1..block.num : \A tx :
           /\ Contains(ChainTxs[m], tx) => Contains(ChainTxs'[m], tx)
           /\ Contains(ChainTxs'[m], tx) => Contains(ChainTxs[m], tx) \/ (m = block.num /\ tx = Current)
    <2>1. TAKE m \in 1..block.num
    <2>2. CASE m = block.num
      <3>1. ChainTxs'[m] = Append(block.txs, Current) /\ ChainTxs[m] = block.txs
        BY <1>2, <1>4, <2>2
      <3>2. QED
        BY <1>1, <2>2, <3>1, ContainsAppend
    <2>3. CASE m # block.num
      BY <1>4, <1>5, <2>3
    <2>4. QED
      BY <2>2, <2>3
  <1>7. Located(Loaded, ChainTxs', block.num)
    BY <1>6 DEF IndexInv, Located
  <1>8. Found(Loaded, ChainTxs', block.num, {Current})
    <2> SUFFICES ASSUME NEW m \in 1..block.num, NEW tx, Contains(ChainTxs'[m], tx)
                 PROVE  \/ tx \in DOMAIN Loaded /\ Loaded[tx] >= m
                        \/ m = block.num /\ tx \in {Current}
      BY DEF Found
    <2>1. CASE Contains(ChainTxs[m], tx)
      BY <1>3, <2>1 DEF IndexInv, Found
    <2>2. QED
      BY <1>6, <2>1
  <1>9. block'.txs # <<>>
    BY <1>2
  <1>10. IndexInv'
    BY <1>1, <1>2, <1>3, <1>7, <1>8, <1>9 DEF IndexInv
  <1>11. ReceiptsOf(block'.txs, block.num, Len(block'.txs) - 1)
           = ReceiptsOf(block.txs, block.num, Len(block.txs))
    BY <1>2 DEF ReceiptsOf
  <1>12. receipts = ReceiptsOf(block.txs, block.num, Len(block.txs))
    BY <1>1 DEF ReceiptInv, Indexing
  <1>13. ReceiptInv'
    BY <1>1, <1>2, <1>4, <1>11, <1>12 DEF ReceiptInv, Indexing
  <1>14. QED
    BY <1>10, <1>13

LEMMA TruncateLookup ==
  ASSUME TypeInv, IndexInv, ReceiptInv, [Next]_vars, TruncateIndex
  PROVE  IndexInv' /\ ReceiptInv'
  <1>1. /\ pc = "index" /\ pc' = "indexFill" /\ UNCHANGED <<batch, block, receipts, index>>
        /\ disk'.receipts = disk.receipts
    BY DEF TruncateIndex, Truncate, Goto, workVars, TypeInv, NumberInv, Files
  <1>2. ChainTxs' = ChainTxs
    BY <1>1, ChainStays
  <1>3. Loaded' = Loaded /\ Missing' = Missing /\ Current' = Current
    BY <1>1 DEF IndexInv, Loaded, Missing, Indexing, Current
  <1>4. QED
    BY <1>1, <1>2, <1>3 DEF IndexInv, ReceiptInv, Indexing

LEMMA FillLookup ==
  ASSUME IndexIsTold, TypeInv, IndexInv, ReceiptInv, [Next]_vars, FillIndex
  PROVE  IndexInv' /\ ReceiptInv'
  <1>0. Lists /\ Places /\ IsBlock(block) /\ Files
    BY TypeParts DEF TypeInv, NumberInv
  <1>1. /\ pc = "indexFill" /\ pc' = "next" /\ UNCHANGED block
        /\ disk'.index = [tx \in DOMAIN index \cup {Current} |->
                            IF tx = Current THEN block.num ELSE index[tx]]
        /\ disk'.receipts = disk.receipts
        /\ receipts' = Append(receipts, [tx |-> Current, block |-> block.num,
                                          index |-> Len(block.txs) - 1])
    BY <1>0 DEF FillIndex, FinishTx, Goto, Files
  <1>2. Loaded = index /\ Missing = {Current} /\ Missing' = {}
    BY <1>1 DEF Loaded, Missing, Indexing
  <1>3. /\ Current \in Txs /\ block.txs \in Seq(Txs) /\ block.num \in Nat
        /\ block.num \in 0..MaxBlocks /\ block.num >= 1 /\ block.num \in 1..block.num
        /\ block.txs # <<>> /\ block.txs[Len(block.txs)] = Current
    <2>1. Current \in Txs
      BY <1>0, <1>1, CurrentTx DEF Places, Lists
    <2>2. /\ block.num = head.num + 1 /\ head.num \in Nat /\ block.num \in Nat
          /\ block.num \in 0..MaxBlocks
      BY <1>1, Bounds DEF TypeInv, NumberInv, Building, IsHeader
    <2>3. QED
      BY <1>0, <1>1, <2>1, <2>2 DEF IsBlock, IndexInv, Indexing
  <1> DEFINE entries == [tx \in DOMAIN index \cup {Current} |->
                            IF tx = Current THEN block.num ELSE index[tx]]
  <1>4. /\ DOMAIN entries = DOMAIN index \cup {Current} /\ entries[Current] = block.num
        /\ \A tx \in DOMAIN index : tx # Current => entries[tx] = index[tx]
        /\ DOMAIN entries \subseteq Txs /\ entries \in [DOMAIN entries -> 0..MaxBlocks]
    BY <1>2, <1>3 DEF IndexInv
  <1>5. Loaded' = entries
    <2>1. entries \notin {Absent, Torn}
      BY <1>4 DEF IndexIsTold
    <2>2. QED
      BY <1>1, <2>1 DEF Loaded
  <1> HIDE DEF entries
  <1>6. ChainTxs' = ChainTxs /\ ChainTxs[block.num] = block.txs
    BY <1>1, ChainStays DEF ChainTxs, Numbers
  <1>7. Contains(block.txs, Current)
    <2>1. Len(block.txs) \in 1..Len(block.txs)
      BY <1>3
    <2>2. QED
      BY <1>3, <2>1 DEF Contains
  <1>8. Located(entries, ChainTxs, block.num)
    BY <1>2, <1>3, <1>4, <1>6, <1>7 DEF IndexInv, Located
  <1>9. Found(entries, ChainTxs, block.num, {})
    <2> SUFFICES ASSUME NEW m \in 1..block.num, NEW tx, Contains(ChainTxs[m], tx)
                 PROVE  \/ tx \in DOMAIN entries /\ entries[tx] >= m
                        \/ m = block.num /\ tx \in {}
      BY DEF Found
    <2>1. CASE tx = Current
      BY <1>3, <1>4, <2>1
    <2>2. CASE tx # Current
      BY <1>2, <1>4, <2>2 DEF IndexInv, Found
    <2>3. QED
      BY <2>1, <2>2
  <1>10. IndexInv'
    BY <1>1, <1>2, <1>4, <1>5, <1>6, <1>8, <1>9 DEF IndexInv, Indexing
  <1>11. receipts' = ReceiptsOf(block.txs, block.num, Len(block.txs))
    <2> DEFINE n == Len(block.txs) - 1
               r == [tx |-> Current, block |-> block.num, index |-> n]
    <2>1. n \in Nat /\ Len(block.txs) = n + 1
      BY <1>3
    <2>2. receipts = ReceiptsOf(block.txs, block.num, n)
      BY <1>1 DEF ReceiptInv, Indexing
    <2>3. receipts \in Seq(Receipt) /\ Len(receipts) = n
          /\ \A k \in 1..n : receipts[k] = [tx |-> block.txs[k], block |-> block.num, index |-> k - 1]
      BY <1>0, <2>1, <2>2 DEF Lists, ReceiptsOf
    <2> HIDE DEF n
    <2>4. receipts' = Append(receipts, r)
      BY <1>1 DEF n
    <2>5. Append(receipts, r) = [k \in 1..(n + 1) |-> IF k = n + 1 THEN r ELSE receipts[k]]
      BY <2>1, <2>3
    <2>6. \A k \in 1..(n + 1) :
            (IF k = n + 1 THEN r ELSE receipts[k])
              = [tx |-> block.txs[k], block |-> block.num, index |-> k - 1]
      <3>1. TAKE k \in 1..(n + 1)
      <3>2. CASE k = n + 1
        <4>1. block.txs[k] = Current /\ k - 1 = n
          BY <1>3, <2>1, <3>2
        <4>2. QED
          BY <3>2, <4>1
      <3>3. CASE k # n + 1
        <4>1. k \in 1..n
          BY <2>1, <3>3
        <4>2. QED
          BY <2>3, <3>3, <4>1
      <3>4. QED
        BY <3>2, <3>3
    <2>7. QED
      BY <2>1, <2>4, <2>5, <2>6 DEF ReceiptsOf
  <1>12. ReceiptInv'
    BY <1>1, <1>6, <1>11 DEF ReceiptInv, Indexing
  <1>13. QED
    BY <1>10, <1>12

LEMMA StepLookup ==
  ASSUME MaxFailures = 0, IndexIsTold, TypeInv, ChainInv, LookupInv, [Next]_vars
  PROVE  LookupInv'
  <1>1. crashes' \in Nat /\ (crashes' = 0 => crashes = 0 /\ ~Crash)
    BY CrashCount DEF LookupInv, Crash
  <1>2. ASSUME crashes' = 0 PROVE pc' # "down" /\ IndexInv' /\ ReceiptInv'
    <2>1. pc # "down" /\ IndexInv /\ ReceiptInv /\ ~Crash
      BY <1>1, <1>2 DEF LookupInv
    <2>2. ~FailIndex /\ ~FailReceipts
      BY NothingFails DEF ChainInv
    <2>3. CASE Produce
      BY <2>1, <2>3, ProduceLookup DEF Produce, Goto
    <2>4. CASE Include
      BY <2>1, <2>4, IncludeLookup DEF Include, Goto
    <2>5. CASE TruncateIndex
      BY <2>1, <2>5, TruncateLookup DEF TruncateIndex, Truncate, Goto
    <2>6. CASE FillIndex
      BY <2>1, <2>6, FillLookup DEF FillIndex, Goto
    <2>7. CASE /\ Apart /\ pc' # "down"
               /\ pc' = "idle" => (pc = "idle" /\ UNCHANGED disk) \/ FillReceipts
      BY <2>1, <2>7, ApartIndex, ApartReceipts
    <2>8. QED
      BY <2>1, <2>2, <2>3, <2>4, <2>5, <2>6, <2>7, LookupSteps
  <1>3. QED
    BY <1>1, <1>2 DEF LookupInv

LEMMA InitLookup == Init => LookupInv
  <1> SUFFICES ASSUME Init PROVE LookupInv
    OBVIOUS
  <1>1. /\ crashes = 0 /\ pc = "idle" /\ block.num = 0 /\ disk.index = Absent
        /\ index = NoIndex
    BY DEF Init, Genesis, NewBlock
  <1>2. Loaded = NoIndex /\ DOMAIN NoIndex = {}
    BY <1>1 DEF Loaded, NoIndex
  <1>3. NoIndex \in [{} -> 0..MaxBlocks]
    BY DEF NoIndex
  <1>4. IndexInv
    BY <1>1, <1>2, <1>3 DEF IndexInv, Indexing, Located, Found
  <1>5. ReceiptInv
    BY <1>1 DEF ReceiptInv, Indexing
  <1>6. QED
    BY <1>1, <1>4, <1>5 DEF LookupInv

\* Without a crash and without a failing write, what the RPC server looks up is
\* what the chain holds, for any number of blocks and any pool: the index finds
\* every included transaction in the last block that has it, and nothing else,
\* and the receipts of a block are those of its transactions in their order.
THEOREM LookupIsConsistent ==
  ASSUME MaxFailures = 0, BlocksAreTold, IndexIsTold
  PROVE  Spec => []LookupConsistent
  <1>1. Init => TypeInv /\ ChainInv /\ LookupInv
    BY InitTypes, InitChain, InitLookup
  <1>2. TypeInv /\ ChainInv /\ LookupInv /\ [Next]_vars => (TypeInv /\ ChainInv /\ LookupInv)'
    BY StepTypes, StepChain, StepLookup DEF TypeInv
  <1>3. TypeInv /\ ChainInv /\ LookupInv => LookupConsistent
    <2> SUFFICES ASSUME TypeInv, ChainInv, LookupInv, pc = "idle", crashes = 0
                 PROVE  /\ \A tx \in DOMAIN Loaded :
                             \E b \in SavedChain : b.num = Loaded[tx] /\ Contains(b.txs, tx)
                        /\ \A b \in SavedChain :
                             /\ \A tx \in Txs : Contains(b.txs, tx)
                                                => tx \in DOMAIN Loaded /\ Loaded[tx] >= b.num
                             /\ disk.receipts[b.num] =
                                  [k \in DOMAIN b.txs |->
                                     [tx |-> b.txs[k], block |-> b.num, index |-> k - 1]]
      BY DEF LookupConsistent, Loaded
    <2>1. block = head /\ Stored(head) /\ IndexInv /\ ReceiptInv /\ DiskTypes /\ Missing = {}
      BY TypeParts DEF TypeInv, WorkInv, Building, ChainInv, SavingBlock, SavingHead, LookupInv,
         Missing, Indexing
    <2>2. head.num \in Nat /\ head.num <= MaxBlocks
      BY <2>1, Bounds DEF Stored, IsHeader
    <2>3. ASSUME NEW m \in 1..head.num
          PROVE  /\ Saved(m) /\ disk.block[m].num = m /\ ChainTxs[m] = disk.block[m].txs
                 /\ disk.block[m] \in SavedChain /\ disk.block[m].txs \in Seq(Txs)
      <3>1. m \in 0..head.num /\ m \in 0..MaxBlocks
        BY <2>2, Bounds
      <3>2. Saved(m) /\ disk.block[m].num = m /\ disk.block[head.num] = head
        BY <2>1, <3>1 DEF Stored, Linked
      <3>3. ChainTxs[m] = disk.block[m].txs
        BY <2>1, <3>2 DEF ChainTxs, Numbers
      <3>4. IsBlock(disk.block[m])
        BY <2>1, <3>1, <3>2 DEF DiskTypes, Saved
      <3>5. QED
        BY <3>2, <3>3, <3>4 DEF SavedChain, IsBlock
    <2>4. ASSUME NEW tx \in DOMAIN Loaded
          PROVE  \E b \in SavedChain : b.num = Loaded[tx] /\ Contains(b.txs, tx)
      <3>1. Loaded[tx] \in 1..head.num /\ Contains(ChainTxs[Loaded[tx]], tx)
        BY <2>1 DEF IndexInv, Located
      <3>2. QED
        BY <2>3, <3>1
    <2>5. ASSUME NEW b \in SavedChain
          PROVE  /\ \A tx \in Txs : Contains(b.txs, tx) => tx \in DOMAIN Loaded /\ Loaded[tx] >= b.num
                 /\ disk.receipts[b.num] = [k \in DOMAIN b.txs |->
                                     [tx |-> b.txs[k], block |-> b.num, index |-> k - 1]]
      <3>1. PICK m \in 1..head.num : b = disk.block[m]
        BY DEF SavedChain
      <3>2. b.num = m /\ ChainTxs[m] = b.txs /\ b.txs \in Seq(Txs)
        BY <2>3, <3>1
      <3>3. \A tx \in Txs : Contains(b.txs, tx) => tx \in DOMAIN Loaded /\ Loaded[tx] >= m
        BY <2>1, <3>2 DEF IndexInv, Found
      <3>4. disk.receipts[m] = ReceiptsOf(b.txs, m, Len(b.txs))
        <4>1. CASE m = head.num
          BY <2>1, <2>2, <3>1, <3>2, <4>1 DEF ReceiptInv, ChainTxs, Numbers
        <4>2. CASE m # head.num
          <5>1. m \in 1..(head.num - 1)
            BY <2>2, <4>2
          <5>2. QED
            BY <2>1, <3>2, <5>1 DEF ReceiptInv
        <4>3. QED
          BY <4>1, <4>2
      <3>5. DOMAIN b.txs = 1..Len(b.txs)
        BY <3>2
      <3>6. QED
        BY <3>2, <3>3, <3>4, <3>5 DEF ReceiptsOf
    <2>6. QED
      BY <2>4, <2>5
  <1>4. QED
    BY <1>1, <1>2, <1>3, PTL DEF Spec
=============================================================================
