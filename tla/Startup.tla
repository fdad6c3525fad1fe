------------------------------ MODULE Startup ------------------------------
(***************************************************************************)
(* Starting the node over what an earlier process left on disk             *)
(* (core/blockchain/blockchain.go, node/node.go).                          *)
(*                                                                         *)
(* NewBlockchain reads head.json; without one it creates the genesis:      *)
(* wallets.json, three balances, block_0.json and head.json, one after the *)
(* other.  The process may die at any point and is started again.          *)
(* os.WriteFile truncates the file before it writes; a failing write is    *)
(* ignored during genesis and ends SetHead later.  The balances are in     *)
(* leveldb, whose writes are atomic.  While the node runs, requests move   *)
(* funds and the producer puts blocks on the chain.                        *)
(***************************************************************************)
EXTENDS Integers, Sequences, FiniteSets, Sums

CONSTANTS
    Addr,
    AdminKey, TreasuryKey,   \* addresses deriveKey gives for indexes 0 and 1
    EvmUser,
    Zero,                    \* common.Address{}: the address in an empty WalletsFile
    AdminAlloc, TreasuryAlloc, EvmFund,
    MaxStarts,               \* bound: starts of the process
    MaxFailures,             \* bound: failing writes
    MaxBlocks,               \* bound: blocks above genesis
    MaxTransfers             \* bound: transfers

\* No such file; a file that is not valid JSON.
Absent == [content |-> "none"]
Torn == [content |-> "invalid"]

\* The content of wallets.json, and a WalletsFile that was never filled in.
Keys == [admin |-> AdminKey, treasury |-> TreasuryKey]
NoKeys == [admin |-> Zero, treasury |-> Zero]

ASSUME StartupAssumption ==
    /\ {AdminKey, TreasuryKey, EvmUser, Zero} \subseteq Addr
    /\ IsFiniteSet(Addr) /\ Cardinality({AdminKey, TreasuryKey, EvmUser, Zero}) = 4
    /\ {AdminAlloc, TreasuryAlloc, EvmFund} \subseteq Nat
    /\ {MaxStarts, MaxFailures, MaxBlocks, MaxTransfers} \subseteq Nat

VARIABLES
    db,         \* leveldb: GORR balances
    wallets,    \* wallets.json: Absent, Torn, or the two addresses
    headFile,   \* head.json
    blockFile,  \* block_<n>.json
    mode,       \* "off", "genesis", "loading", "running", or "failed" to start
    todo,       \* writes the goroutine still has to do
    open,       \* the file at the head of todo is truncated
    admin, treasury,   \* bc.AdminAddr, bc.TreasuryAddr
    head,       \* bc.head
    starts, failures, transfers,   \* counters for the bounds
    failed      \* history: which writes have failed so far

disk == <<db, wallets, headFile, blockFile>>
counters == <<starts, failures, transfers>>
vars == <<disk, mode, todo, open, admin, treasury, head, counters, failed>>

NoHash == <<>>
Hash(b) == <<b.num, b.time, b.parent>>
NewBlock(num, parent) == [num |-> num, time |-> starts, parent |-> parent]
NoBlock == [num |-> 0, time |-> 0, parent |-> NoHash]

Init ==
    /\ db = [a \in Addr |-> 0]
    /\ wallets = Absent /\ headFile = Absent
    /\ blockFile = [n \in 0..MaxBlocks |-> Absent]
    /\ mode = "off" /\ todo = <<>> /\ open = FALSE
    /\ admin = Zero /\ treasury = Zero /\ head = NoBlock
    /\ starts = 0 /\ failures = 0 /\ transfers = 0
    /\ failed = {}

-----------------------------------------------------------------------------
(* NewBlockchain *)

\* loadSystemWallets: read the file, or derive the same keys again and write it.
WalletWrites == IF wallets = Absent THEN <<"wallets">> ELSE <<>>

\* Mutant of GenesisWrites: the head is saved before the accounts are funded.
GenesisWritesHeadFirst ==
    WalletWrites \o <<"block", "head", "fundAdmin", "fundTreasury", "fundEvm">>

GenesisWrites ==
    WalletWrites \o <<"fundAdmin", "fundTreasury", "fundEvm", "block", "head">>

\* Mutant of StartGenesis: an error of loadSystemWallets is ignored, as it is
\* when there is a head.
StartGenesisAnyway ==
    /\ headFile = Absent
    /\ LET w == IF wallets = Torn THEN NoKeys ELSE Keys IN
       admin' = w.admin /\ treasury' = w.treasury
    /\ mode' = "genesis" /\ todo' = GenesisWrites
    /\ head' = [NoBlock EXCEPT !.time = starts']

\* Mutant of StartGenesis: a directory that holds a wallet file is not taken.
StartGenesisFresh ==
    /\ headFile = Absent
    /\ IF wallets # Absent
       THEN mode' = "failed" /\ UNCHANGED <<todo, admin, treasury, head>>
       ELSE /\ mode' = "genesis" /\ todo' = GenesisWrites
            /\ admin' = Keys.admin /\ treasury' = Keys.treasury
            /\ head' = [NoBlock EXCEPT !.time = starts']

\* No head: genesis, with the time of this start.
StartGenesis ==
    /\ headFile = Absent
    /\ IF wallets = Torn
       THEN mode' = "failed" /\ UNCHANGED <<todo, admin, treasury, head>>
       ELSE /\ mode' = "genesis" /\ todo' = GenesisWrites
            /\ admin' = Keys.admin /\ treasury' = Keys.treasury
            /\ head' = [NoBlock EXCEPT !.time = starts']

\* A head: the wallets are loaded and an error of that is ignored.
StartLoaded ==
    /\ headFile \notin {Absent, Torn}
    /\ LET w == IF wallets = Torn THEN NoKeys ELSE Keys IN
       admin' = w.admin /\ treasury' = w.treasury
    /\ head' = headFile
    /\ mode' = "loading" /\ todo' = WalletWrites

\* loadHead cannot parse the file: the node reports it and does not start.
StartRefused ==
    /\ headFile = Torn
    /\ mode' = "failed" /\ UNCHANGED <<todo, admin, treasury, head>>

Start ==
    /\ mode = "off" /\ starts < MaxStarts
    /\ starts' = starts + 1
    /\ StartGenesis \/ StartLoaded \/ StartRefused
    /\ UNCHANGED <<disk, open, failures, transfers, failed>>

\* NewBlockchain returns and node.Start runs RPC server and producer.
Run ==
    /\ mode \in {"genesis", "loading"} /\ todo = <<>>
    /\ mode' = "running"
    /\ UNCHANGED <<disk, todo, open, admin, treasury, head, counters, failed>>

-----------------------------------------------------------------------------
(* Writes *)

Doing(write) == mode \in {"genesis", "loading", "running"} /\ todo # <<>> /\ Head(todo) = write

Done == todo' = Tail(todo) /\ open' = FALSE

InMemory == <<mode, admin, treasury, head, counters, failed>>

\* SetBalance sets the balance, whatever it was.
Fund(write, a, amount) ==
    /\ Doing(write) /\ Done
    /\ db' = [db EXCEPT ![a] = amount]
    /\ UNCHANGED <<wallets, headFile, blockFile, InMemory>>

FundAdmin == Fund("fundAdmin", admin, AdminAlloc)
FundTreasury == Fund("fundTreasury", treasury, TreasuryAlloc)
FundEvmUser == Fund("fundEvm", EvmUser, EvmFund)

\* os.WriteFile: the file is opened with truncation ...
TruncateFile ==
    /\ \E f \in {"wallets", "block", "head"} : Doing(f)
    /\ ~open /\ open' = TRUE
    /\ wallets' = IF Doing("wallets") THEN Torn ELSE wallets
    /\ blockFile' = IF Doing("block") THEN [blockFile EXCEPT ![head.num] = Torn] ELSE blockFile
    /\ headFile' = IF Doing("head") THEN Torn ELSE headFile
    /\ UNCHANGED <<db, todo, InMemory>>

\* Mutant of FillFile: the WalletsFile is saved before it has addresses.
FillFileEmptyWallets ==
    /\ open /\ Done
    /\ wallets' = IF Doing("wallets") THEN NoKeys ELSE wallets
    /\ blockFile' = IF Doing("block") THEN [blockFile EXCEPT ![head.num] = head] ELSE blockFile
    /\ headFile' = IF Doing("head") THEN head ELSE headFile
    /\ UNCHANGED <<db, InMemory>>

\* ... and written.
FillFile ==
    /\ open /\ Done
    /\ wallets' = IF Doing("wallets") THEN Keys ELSE wallets
    /\ blockFile' = IF Doing("block") THEN [blockFile EXCEPT ![head.num] = head] ELSE blockFile
    /\ headFile' = IF Doing("head") THEN head ELSE headFile
    /\ UNCHANGED <<db, InMemory>>

\* Opening the file fails, or writing it after the truncation.  Genesis and
\* loadSystemWallets ignore the error; SetHead returns it.
FailFile ==
    /\ \E f \in {"wallets", "block", "head"} :
          /\ Doing(f)
          /\ failed' = failed \cup {<<mode, f>>}
    /\ failures < MaxFailures /\ failures' = failures + 1
    /\ todo' = IF mode = "running" THEN <<>> ELSE Tail(todo)
    /\ open' = FALSE
    /\ UNCHANGED <<disk, mode, admin, treasury, head, starts, transfers>>

-----------------------------------------------------------------------------
(* The running node, and its end *)

\* Mutant of Produce: head.json before the block it names.
ProduceHeadFirst ==
    /\ mode = "running" /\ todo = <<>> /\ head.num < MaxBlocks
    /\ head' = NewBlock(head.num + 1, Hash(head))
    /\ todo' = <<"head", "block">>
    /\ UNCHANGED <<disk, mode, open, admin, treasury, counters, failed>>

\* Mutant of Produce: the number of the parent.
ProduceSameNumber ==
    /\ mode = "running" /\ todo = <<>> /\ head.num < MaxBlocks
    /\ head' = NewBlock(head.num, Hash(head))
    /\ todo' = <<"block", "head">>
    /\ UNCHANGED <<disk, mode, open, admin, treasury, counters, failed>>

\* produce, as far as this module goes: SetHead of a block on top of the head.
Produce ==
    /\ mode = "running" /\ todo = <<>> /\ head.num < MaxBlocks
    /\ head' = NewBlock(head.num + 1, Hash(head))
    /\ todo' = <<"block", "head">>
    /\ UNCHANGED <<disk, mode, open, admin, treasury, counters, failed>>

\* A request moves funds.
Transfer ==
    /\ mode = "running" /\ transfers < MaxTransfers
    /\ transfers' = transfers + 1
    /\ \E from, to \in Addr :
          /\ from # to /\ db[from] > 0
          /\ db' = [db EXCEPT ![from] = @ - 1, ![to] = @ + 1]
    /\ UNCHANGED <<wallets, headFile, blockFile, mode, todo, open, admin, treasury,
                   head, starts, failures, failed>>

\* The process dies: memory is empty.
Crash ==
    /\ mode \in {"genesis", "loading", "running"} /\ starts < MaxStarts
    /\ mode' = "off" /\ todo' = <<>> /\ open' = FALSE
    /\ admin' = Zero /\ treasury' = Zero /\ head' = NoBlock
    /\ UNCHANGED <<disk, counters, failed>>

\* The node did not start, or has done what the bounds allow.
Rest ==
    /\ \/ mode = "failed"
       \/ mode = "running" /\ todo = <<>> /\ head.num = MaxBlocks
    /\ UNCHANGED vars

Works ==
    \/ Start \/ Run
    \/ FundAdmin \/ FundTreasury \/ FundEvmUser
    \/ TruncateFile \/ FillFile

Next == Works \/ FailFile \/ Produce \/ Transfer \/ Crash \/ Rest

Spec == Init /\ [][Next]_vars

\* The operator starts a process that died; a process that has work does it.
FairSpec == Spec /\ WF_vars(Works)

-----------------------------------------------------------------------------
(* Properties *)

IsBlock(b) == DOMAIN b = {"num", "time", "parent"} /\ b.num \in 0..MaxBlocks /\ b.time \in 0..MaxStarts

\* A file is absent, torn or complete, and is truncated only while it is written.
TypeOK ==
    /\ db \in [Addr -> Nat]
    /\ wallets \in {Absent, Torn, Keys}
    /\ headFile \in {Absent, Torn} \/ IsBlock(headFile)
    /\ DOMAIN blockFile = 0..MaxBlocks
    /\ \A n \in 0..MaxBlocks :
          blockFile[n] \in {Absent, Torn} \/ (IsBlock(blockFile[n]) /\ blockFile[n].num = n)
    /\ mode \in {"off", "genesis", "loading", "running", "failed"}
    /\ todo \in Seq({"wallets", "fundAdmin", "fundTreasury", "fundEvm", "block", "head"})
    /\ open \in BOOLEAN /\ open => \E f \in {"wallets", "block", "head"} : Doing(f)
    /\ {admin, treasury} \subseteq Addr /\ IsBlock(head)
    /\ starts \in 0..MaxStarts /\ failures \in 0..MaxFailures /\ transfers \in 0..MaxTransfers
    /\ failed \subseteq {"genesis", "loading", "running"} \X {"wallets", "block", "head"}

WalletsFailed == \E m \in {"genesis", "loading"} : <<m, "wallets">> \in failed

\* A running node has the admin and the treasury that genesis funded, however
\* often it was started and wherever it died: a torn wallets.json stops a
\* genesis, and later starts never write one.  Only if the write of the file
\* itself failed can a later start run with the zero address as both.
WalletsStable ==
    mode = "running" /\ ~WalletsFailed => admin = AdminKey /\ treasury = TreasuryKey

Total == SumOver(db, Addr)
GenesisTotal == AdminAlloc + TreasuryAlloc + EvmFund

\* A genesis that was cut short is done again before the node runs and adds
\* nothing to what was funded already; once the node runs there is no second
\* genesis.  Only a genesis whose head.json could not be written is followed by
\* another one, which restores what was spent meanwhile.
FundedOnce ==
    <<"genesis", "head">> \notin failed =>
        /\ Total <= GenesisTotal
        /\ mode = "running" => Total = GenesisTotal

Saved(n) == blockFile[n] \notin {Absent, Torn}

\* Without failing writes, the node runs on a head whose chain is complete on
\* disk down to the genesis block it was built on, also if genesis was started
\* several times and block_0.json was written with different times.
RunsOnWholeChain ==
    mode = "running" /\ todo = <<>> /\ failed = {} =>
        /\ headFile = head
        /\ \A n \in 0..head.num : Saved(n)
        /\ blockFile[head.num] = head
        /\ \A n \in 1..head.num : blockFile[n].parent = Hash(blockFile[n - 1])

\* Once the head was saved, the genesis block of the chain is never written again.
GenesisIsFinal ==
    [][headFile \notin {Absent, Torn} => blockFile'[0] = blockFile[0]]_vars

\* A process that died is started until it runs, or until it left a torn
\* wallets.json or head.json behind, which no code repairs (the last start of the
\* bound does not die).  A torn block does not matter: blocks are not read here.
StartsUnlessTorn ==
    mode = "off" /\ starts < MaxStarts ~>
        mode = "running" \/ Torn \in {wallets, headFile}
=============================================================================
