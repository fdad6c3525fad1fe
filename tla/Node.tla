-------------------------------- MODULE Node --------------------------------
(***************************************************************************)
(* The node: the RPC handlers of RpcLedger and the block producer over one *)
(* account store, access by access.  node.go starts both in goroutines of  *)
(* one process and hands them the same Blockchain; the store has no lock.  *)
(* Of the producer this module has what touches accounts: the balances     *)
(* that processGORR and processPaymentGORR read, their SetBalance calls    *)
(* and IncreaseNonce, each two accesses of leveldb.  BlockProducer has the *)
(* rest.                                                                   *)
(*                                                                         *)
(* Two histories are kept beside the store: a ledger in which every write  *)
(* changes the balance by what its operation is about, and the accounts    *)
(* where a write fell between another operation's read and its write.      *)
(***************************************************************************)
EXTENDS RpcLedger

CONSTANTS
    BlockTxs,     \* transactions the producer may find in the pool
    MaxBlockTxs   \* bound: transactions the producer looks at

\* pays: the payload names an intent in GORR whose merchant is the receiver.
\* A sender whose signature does not recover is the admin.
BlockTx == [from : Addr, to : Addr, value : Nat, pays : BOOLEAN]

ASSUME NodeAssumption == BlockTxs \subseteq BlockTx /\ MaxBlockTxs \in Nat

treasuryFeeBps == 250
bpsDenominator == 10000

VARIABLES
    stage,      \* where the producer is
    sender,     \* sender of the transaction it applies
    legs,       \* balances still to read, with the change of each
    writes,     \* SetBalance calls still to do
    copy,       \* the account record it loaded last
    applied,    \* transactions looked at
    ideal,      \* history: InitialDb and the changes written since
    contended   \* history: accounts written inside another operation

workVars == <<stage, sender, legs, writes, copy, applied>>
ghostVars == <<ideal, contended>>
nodeVars == <<vars, workVars, ghostVars>>

NodeInit ==
    /\ Init
    /\ stage = "wait" /\ sender = Zero
    /\ legs = <<>> /\ writes = <<>>
    /\ copy = InitialDb[Zero]
    /\ applied = 0
    /\ ideal = InitialDb
    /\ contended = {}

-----------------------------------------------------------------------------
(* Operations on an account that have read it and have not written it yet *)

RpcOpen(p, a) == pc[p] \in {"load", "store"} /\ Cur(p).addr = a

ProducerOpen(a) ==
    \/ \E i \in DOMAIN writes : writes[i].addr = a
    \/ stage = "saveNonce" /\ sender = a

\* The change of the balance that the operation of p is about.
Change(p) == IF Cur(p).kind = "sub" THEN -Cur(p).amt ELSE Cur(p).amt

-----------------------------------------------------------------------------
(* RPC handlers *)

Handler(p) ==
    /\ Arrive(p) \/ Execute(p)
    /\ IF pc[p] = "store"
       THEN LET a == Cur(p).addr IN
            /\ ideal' = [ideal EXCEPT ![a][Cur(p).token] = @ + Change(p)]
            /\ contended' =
                 IF ProducerOpen(a) \/ \E q \in Procs \ {p} : RpcOpen(q, a)
                 THEN contended \cup {a} ELSE contended
       ELSE UNCHANGED ghostVars
    /\ UNCHANGED workVars

-----------------------------------------------------------------------------
(* The producer *)

Leg(a, delta) == [addr |-> a, delta |-> delta]

\* Mutant of LegsOf: the merchant gets the amount before the fee.
LegsOfGross(tx) ==
    LET fee == (tx.value * treasuryFeeBps) \div bpsDenominator IN
    IF tx.pays
    THEN <<Leg(tx.from, -tx.value), Leg(tx.to, tx.value), Leg(Treasury, fee)>>
    ELSE <<Leg(tx.from, -tx.value), Leg(tx.to, tx.value)>>

\* The balances a transaction changes, in the order they are read and written.
LegsOf(tx) ==
    LET fee == (tx.value * treasuryFeeBps) \div bpsDenominator IN
    IF tx.pays
    THEN <<Leg(tx.from, -tx.value), Leg(tx.to, tx.value - fee), Leg(Treasury, fee)>>
    ELSE <<Leg(tx.from, -tx.value), Leg(tx.to, tx.value)>>

\* A transaction of the snapshot with the right nonce; a payment needs a
\* treasury.
TakeTx ==
    /\ stage = "wait" /\ applied < MaxBlockTxs
    /\ \E tx \in BlockTxs :
          /\ tx.pays => Treasury # Zero
          /\ sender' = tx.from
          /\ legs' = LegsOf(tx)
    /\ applied' = applied + 1
    /\ stage' = "read"
    /\ UNCHANGED <<vars, writes, copy, ghostVars>>

\* Mutant of ReadBalance: the sender's balance is not compared with the value.
ReadBalanceUnchecked ==
    /\ stage = "read"
    /\ LET leg == Head(legs)
           new == db[leg.addr]["GORR"] + leg.delta
       IN /\ legs' = Tail(legs)
          /\ writes' = Append(writes, [addr |-> leg.addr, delta |-> leg.delta, new |-> new])
          /\ stage' = IF Tail(legs) = <<>> THEN "load" ELSE "read"
    /\ UNCHANGED <<vars, sender, copy, applied, ghostVars>>

\* GetBalance and the sum; a sender that cannot pay ends the transaction.
ReadBalance ==
    /\ stage = "read"
    /\ LET leg == Head(legs)
           new == db[leg.addr]["GORR"] + leg.delta
       IN IF new < 0
          THEN /\ stage' = "wait"
               /\ legs' = <<>> /\ writes' = <<>>
          ELSE /\ legs' = Tail(legs)
               /\ writes' = Append(writes, [addr |-> leg.addr, delta |-> leg.delta, new |-> new])
               /\ stage' = IF Tail(legs) = <<>> THEN "load" ELSE "read"
    /\ UNCHANGED <<vars, sender, copy, applied, ghostVars>>

\* SetBalance: GetAccount ...
LoadRecord ==
    /\ stage = "load"
    /\ copy' = db[Head(writes).addr]
    /\ stage' = "store"
    /\ UNCHANGED <<vars, sender, legs, writes, applied, ghostVars>>

\* Mutant of StoreRecord: the nonce is increased before the receiver is paid.
StoreRecordNonceFirst ==
    /\ stage = "store"
    /\ LET w == Head(writes) IN
       /\ db' = [db EXCEPT ![w.addr] = [copy EXCEPT !["GORR"] = w.new]]
       /\ ideal' = [ideal EXCEPT ![w.addr]["GORR"] = @ + w.delta]
    /\ writes' = Tail(writes)
    /\ stage' = "nonce"
    /\ UNCHANGED <<disk, memVars, pc, todo, regVars, callVars, reply, histVars,
                   sender, legs, copy, applied, contended>>

\* ... and SaveAccount.
StoreRecord ==
    /\ stage = "store"
    /\ LET w == Head(writes)
           a == w.addr
           others == Tail(writes)
       IN /\ db' = [db EXCEPT ![a] = [copy EXCEPT !["GORR"] = w.new]]
          /\ ideal' = [ideal EXCEPT ![a]["GORR"] = @ + w.delta]
          /\ contended' =
               IF (\E i \in DOMAIN others : others[i].addr = a) \/ \E q \in Procs : RpcOpen(q, a)
               THEN contended \cup {a} ELSE contended
          /\ writes' = others
          /\ stage' = IF others = <<>> THEN "nonce" ELSE "load"
    /\ UNCHANGED <<disk, memVars, pc, todo, regVars, callVars, reply, histVars,
                   sender, legs, copy, applied>>

\* Mutant of LoadNonce: the record that SetBalance loaded last is used.
LoadNonceCached ==
    /\ stage = "nonce"
    /\ stage' = "saveNonce"
    /\ UNCHANGED <<vars, sender, legs, writes, copy, applied, ghostVars>>

\* IncreaseNonce: GetAccount ...
LoadNonce ==
    /\ stage = "nonce"
    /\ copy' = db[sender]
    /\ stage' = "saveNonce"
    /\ UNCHANGED <<vars, sender, legs, writes, applied, ghostVars>>

\* ... and SaveAccount of the record as it was read.
SaveNonce ==
    /\ stage = "saveNonce"
    /\ db' = [db EXCEPT ![sender] = copy]
    /\ stage' = "wait"
    /\ UNCHANGED <<disk, memVars, pc, todo, regVars, callVars, reply, histVars,
                   sender, legs, writes, copy, applied, ghostVars>>

Producer ==
    TakeTx \/ ReadBalance \/ LoadRecord \/ StoreRecord \/ LoadNonce \/ SaveNonce

-----------------------------------------------------------------------------
\* The process dies with all its goroutines.
NodeRestart ==
    /\ Restart
    /\ stage' = "wait" /\ legs' = <<>> /\ writes' = <<>>
    /\ UNCHANGED <<sender, copy, applied, ghostVars>>

\* Every request and transaction the bounds allow is done.
NodeWait == Wait /\ stage = "wait" /\ applied = MaxBlockTxs /\ UNCHANGED nodeVars

NodeNext ==
    \/ \E p \in Procs : Handler(p)
    \/ Producer \/ NodeRestart \/ NodeWait

NodeSpec == NodeInit /\ [][NodeNext]_nodeVars

-----------------------------------------------------------------------------
(* Properties *)

\* While the producer applies a transaction it has balances to read or to write.
NodeTypeOK ==
    /\ TypeOK
    /\ stage \in {"wait", "read", "load", "store", "nonce", "saveNonce"}
    /\ sender \in Addr
    /\ legs \in Seq([addr : Addr, delta : Int])
    /\ writes \in Seq([addr : Addr, delta : Int, new : Int])
    /\ copy \in Account
    /\ applied \in 0..MaxBlockTxs
    /\ ideal \in [Addr -> [Token -> Int]]
    /\ contended \subseteq Addr
    /\ stage = "read" <=> legs # <<>>
    /\ stage \in {"load", "store"} => writes # <<>>
    /\ stage \in {"wait", "nonce", "saveNonce"} => writes = <<>>

\* An account holds exactly what was paid in and out, whatever the handlers, the
\* producer and restarts do to it, unless one of them wrote it between another
\* one's read and write: that window is the only way to lose or create funds.
UncontendedExact == \A a \in Addr \ contended : db[a] = ideal[a]

\* Requests and blocks together neither create nor lose funds, in whatever order
\* their accesses come, as long as no account is contended and the process does
\* not die; stated for methods that neither mint nor burn.
FundsConserved ==
    (/\ Methods \cap {"adminMint", "adminMintToTreasury", "adminBurn"} = {}
     /\ contended = {} /\ restarts = 0
     /\ stage = "wait" /\ \A p \in Procs : pc[p] = "idle")
        => \A t \in Token : Total(db, t) = Total(InitialDb, t)
=============================================================================
