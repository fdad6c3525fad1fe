------------------------------ MODULE RpcLedger ------------------------------
(***************************************************************************)
(* The balance-moving JSON-RPC handlers of rpc/methods.go and              *)
(* rpc/eth_rpc.go over the account store of state/.                        *)
(*                                                                         *)
(* net/http runs every request in a goroutine of its own and the store     *)
(* takes no lock, so a handler is a process p that executes a straight     *)
(* line of store operations, todo[p].  An operation on an account is three *)
(* accesses of leveldb: AddBalance / SubBalance read the balance, then     *)
(* SetBalance reads the whole account record again and writes it back.     *)
(* Other handlers may run between any two of them.  A restart loses what   *)
(* the process only kept in memory and keeps what leveldb holds.           *)
(***************************************************************************)
EXTENDS Integers, Sequences, FiniteSets, Sums

CONSTANTS
    Procs,           \* request goroutines that may be in flight at once
    Addr,            \* account addresses
    Admin,           \* bc.AdminAddr
    Treasury,        \* bc.TreasuryAddr
    Zero,            \* common.Address{}: a missing or malformed hex string
    InitialDb,       \* the accounts leveldb holds when the server starts
    InitialMeta,     \* the "_meta" record it holds then
    Unit,            \* base units in one token (1e18 in the code)
    MaxInt64,        \* largest int64
    Senders,         \* addresses that requests name as "from" / "target"
    Receivers,       \* addresses that requests name as "to"
    Amounts,         \* whole-token amounts that requests carry
    FeeRates,        \* merchantFeeBps values, as calculateFee's int64 reads them
    Methods,         \* methods the clients of this instance call
    MaxNonce,        \* largest nonce of a signed transaction
    MaxRequests,     \* bound: requests received
    MaxRestarts      \* bound: process restarts

Token == {"GORR", "USDCc"}

Method == {"sendTransaction", "sendUSDCc", "adminMint", "adminBurn",
           "adminMintToTreasury", "adminForceTransfer", "adminSetFees",
           "adminPauseTransfers", "adminWithdrawFees", "ethSendRaw"}

\* An account record is its Balances map.  The record's Nonce field is never
\* changed by any code (IncreaseNonce saves it as it was), so it is left out.
Account == [Token -> Int]

Meta == [bps : Int, fees : [Token -> Int]]

OpKind == {"need", "sub", "add", "supplyAdd", "supplySub", "feeAdd", "feeSub",
           "ethRecord", "unlessPaused", "fail"}

Op == [kind : OpKind, addr : Addr, token : Token, amt : Int]

\* nonce is that of a signed transaction, 0 in other requests.
Request == [method : Method, from : Addr, to : Addr, token : Token, amt : Int,
            nonce : Nat]

EthTx == [from : Addr, to : Addr, value : Int, nonce : Nat]

SignedTx(r) == [from |-> r.from, to |-> r.to, value |-> r.amt, nonce |-> r.nonce]

ASSUME AddressesAssumption ==
    /\ {Admin, Treasury, Zero} \cup Senders \cup Receivers \subseteq Addr
    /\ IsFiniteSet(Addr) /\ IsFiniteSet(Procs)
    /\ InitialDb \in [Addr -> [Token -> Nat]]
    /\ InitialMeta \in [bps : Nat, fees : [Token -> Nat]]

ASSUME NumbersAssumption ==
    /\ Unit \in Nat \ {0} /\ MaxInt64 \in Nat
    /\ Amounts \subseteq Int /\ FeeRates \subseteq Int
    /\ MaxNonce \in Nat /\ MaxRequests \in Nat /\ MaxRestarts \in Nat

ASSUME MethodsAssumption == Methods \subseteq Method

VARIABLES
    db,         \* leveldb: [Addr -> Account]
    disk,       \* leveldb: the "_meta" record
    meta,       \* StateDB.Meta, the copy in memory
    supply,     \* State.totalSupply, in memory only
    paused,     \* State.Paused, in memory only
    ethNonces,  \* ethRPC.nonces, in memory only
    ethTxs,     \* ethRPC.txs, in memory only
    pc,         \* p's place inside the operation at the head of todo[p]
    todo,       \* operations p's handler still has to do
    next,       \* the new value p computed and has not written yet
    rec,        \* the account record p loaded
    snap,       \* the "_meta" record p marshalled
    req,        \* the request p serves or last served
    reply,      \* what p answered
    served,     \* requests received (bounded by MaxRequests)
    restarts,   \* restarts so far (bounded by MaxRestarts)
    touched,    \* history: p's handler has written an account
    began,      \* history: accounts, fees and nonces when p's handler began
    owed,       \* history: fees collected minus fees withdrawn
    ethLog      \* history: signed transactions debited, in order

memVars   == <<meta, supply, paused, ethNonces, ethTxs>>
storeVars == <<db, disk, meta, supply, paused, ethNonces, ethTxs>>
regVars   == <<next, rec, snap>>
callVars  == <<req, served, restarts, began>>
histVars  == <<touched, owed, ethLog>>
vars == <<db, disk, memVars, pc, todo, regVars, callVars, reply, histVars>>

\* What a client can observe of the ledger.
View == [db |-> db, fees |-> meta.fees, nonces |-> ethNonces]

NoRequest == [method |-> "adminSetFees", from |-> Zero, to |-> Zero,
              token |-> "GORR", amt |-> 0, nonce |-> 0]

Init ==
    /\ db = InitialDb
    /\ disk = InitialMeta
    /\ meta = InitialMeta
    /\ supply = [t \in Token |-> 0]
    /\ paused = FALSE
    /\ ethNonces = [a \in Addr |-> 0]
    /\ ethTxs = {}
    /\ pc = [p \in Procs |-> "idle"]
    /\ todo = [p \in Procs |-> <<>>]
    /\ next = [p \in Procs |-> 0]
    /\ rec = [p \in Procs |-> InitialDb[Zero]]
    /\ snap = [p \in Procs |-> InitialMeta]
    /\ req = [p \in Procs |-> NoRequest]
    /\ reply = [p \in Procs |-> "none"]
    /\ served = 0
    /\ restarts = 0
    /\ touched = [p \in Procs |-> FALSE]
    /\ began = [p \in Procs |-> View]
    /\ owed = InitialMeta.fees
    /\ ethLog = <<>>

-----------------------------------------------------------------------------
(* Numbers *)

\* rpc/fees.go; Div rounds towards minus infinity for a positive divisor.
CalculateFee(amount, bps) == IF bps = 0 THEN 0 ELSE (amount * bps) \div 10000

\* int64(x * 1e18): out of range the result is the platform's choice, the
\* smallest int64 (amd64) or the nearest one (arm64).
FloatWei(x) ==
    LET wei == x * Unit IN
    IF wei > MaxInt64 THEN {-MaxInt64 - 1, MaxInt64}
    ELSE IF wei < -MaxInt64 - 1 THEN {-MaxInt64 - 1}
    ELSE {wei}

(* The operations a handler is made of *)

NewOp(kind, addr, token, amt) ==
    [kind |-> kind, addr |-> addr, token |-> token, amt |-> amt]
Need(a, t, amt) == NewOp("need", a, t, amt)  \* GetBalance and a comparison
Sub(a, t, amt)  == NewOp("sub", a, t, amt)   \* SubBalance / SubUSDCc
Add(a, t, amt)  == NewOp("add", a, t, amt)   \* AddBalance / AddUSDCc
Step(kind)      == NewOp(kind, Zero, "GORR", 0)

-----------------------------------------------------------------------------
(* Receiving a request: everything the handler does before its first access *)
(* of an account.  Each handler reads at most one shared variable there.    *)

NewRequest(method, from, to, token, amt) ==
    [method |-> method, from |-> from, to |-> to, token |-> token, amt |-> amt,
     nonce |-> 0]

Receive(p, r) ==
    /\ pc[p] = "idle" /\ served < MaxRequests /\ r.method \in Methods
    /\ served' = served + 1
    /\ req' = [req EXCEPT ![p] = r]
    /\ touched' = [touched EXCEPT ![p] = FALSE]
    /\ began' = [began EXCEPT ![p] = View]
    /\ UNCHANGED <<db, disk, supply, ethNonces, ethTxs, regVars, restarts,
                   owed, ethLog>>

\* The request passes the handler's checks and its operations are to be done.
Begin(p, r, ops) ==
    /\ Receive(p, r)
    /\ pc' = [pc EXCEPT ![p] = "run"]
    /\ todo' = [todo EXCEPT ![p] = ops]
    /\ reply' = [reply EXCEPT ![p] = "none"]
    /\ UNCHANGED <<meta, paused>>

\* The handler answers at once.
Answer(p, r, result) ==
    /\ Receive(p, r)
    /\ reply' = [reply EXCEPT ![p] = result]
    /\ UNCHANGED <<pc, todo>>

Refuse(p, r) == Answer(p, r, "error") /\ UNCHANGED <<meta, paused>>

BeginIf(ok, p, r, ops) == IF ok THEN Begin(p, r, ops) ELSE Refuse(p, r)

\* Mutant of SendNative: the receiver gets the amount before the fee.
SendNativeGross(p) ==
    \E from \in Senders, to \in Receivers, base \in Amounts :
        LET amount == base * Unit
            fee    == CalculateFee(amount, meta.bps)
            share  == IF fee > 0 THEN <<Add(Treasury, "GORR", fee),
                                        NewOp("feeAdd", Treasury, "GORR", fee)>>
                                 ELSE <<>>
        IN Begin(p, NewRequest("sendTransaction", from, to, "GORR", amount),
                 <<Sub(from, "GORR", amount), Add(to, "GORR", amount)>> \o share
                   \o <<Step("unlessPaused")>>)

SendNative(p) ==
    \E from \in Senders, to \in Receivers, base \in Amounts :
        LET amount == base * Unit
            fee    == CalculateFee(amount, meta.bps)
            split  == <<Sub(from, "GORR", amount), Add(to, "GORR", amount - fee)>>
            share  == IF fee > 0 THEN <<Add(Treasury, "GORR", fee),
                                        NewOp("feeAdd", Treasury, "GORR", fee)>>
                                 ELSE <<>>
        IN Begin(p, NewRequest("sendTransaction", from, to, "GORR", amount),
                 split \o share \o <<Step("unlessPaused")>>)

\* Mutant of SendUSDCc: the receiver is credited before the sender is debited.
SendUSDCcCreditFirst(p) ==
    \E from \in Senders, to \in Receivers, base \in Amounts :
        \E amount \in FloatWei(base) :
            BeginIf(~paused, p, NewRequest("sendUSDCc", from, to, "USDCc", amount),
                    <<Add(to, "USDCc", amount), Sub(from, "USDCc", amount)>>)

SendUSDCc(p) ==
    \E from \in Senders, to \in Receivers, base \in Amounts :
        \E amount \in FloatWei(base) :
            BeginIf(~paused, p, NewRequest("sendUSDCc", from, to, "USDCc", amount),
                    <<Sub(from, "USDCc", amount), Add(to, "USDCc", amount)>>)

AdminMint(p) ==
    \E from \in Senders, to \in Receivers, token \in Token, base \in Amounts :
        \E amount \in FloatWei(base) :
            BeginIf(from = Admin, p, NewRequest("adminMint", from, to, token, amount),
                    <<Add(to, token, amount), NewOp("supplyAdd", to, token, amount)>>)

AdminBurn(p) ==
    \E from \in Senders, token \in Token, base \in Amounts :
        \E amount \in FloatWei(base) :
            BeginIf(from = Admin, p, NewRequest("adminBurn", from, from, token, amount),
                    <<Sub(from, token, amount), NewOp("supplySub", from, token, amount)>>)

AdminMintToTreasury(p) ==
    \E from \in Senders, token \in Token, base \in Amounts :
        \E amount \in FloatWei(base) :
            BeginIf(from = Admin, p,
                    NewRequest("adminMintToTreasury", from, Treasury, token, amount),
                    <<Add(Treasury, token, amount)>>)

\* Mutant of AdminForceTransfer: the treasury is credited before the debit.
AdminForceTransferCreditFirst(p) ==
    \E caller \in Senders, target \in Senders, token \in Token, base \in Amounts :
        LET amount == base * Unit
        IN BeginIf(caller = Admin /\ base > 0, p,
                   NewRequest("adminForceTransfer", target, Treasury, token, amount),
                   <<Need(target, token, amount), Add(Treasury, token, amount),
                     Sub(target, token, amount)>>)

\* The caller is the admin or not; "from" of the request is the target.
\* The GORR branch rejects the zero target only after it has moved the funds.
AdminForceTransfer(p) ==
    \E caller \in Senders, target \in Senders, token \in Token, base \in Amounts :
        LET amount == base * Unit
            zeroCheck == IF token = "GORR" /\ target = Zero
                         THEN <<Step("fail")>> ELSE <<>>
        IN BeginIf(caller = Admin /\ base > 0, p,
                   NewRequest("adminForceTransfer", target, Treasury, token, amount),
                   <<Need(target, token, amount), Sub(target, token, amount),
                     Add(Treasury, token, amount)>> \o zeroCheck)

\* Mutant of AdminWithdrawFees: the pot is not looked at.
AdminWithdrawFeesUnchecked(p) ==
    \E from \in Senders, to \in Receivers, token \in Token :
        \E amount \in {base * Unit : base \in Amounts} \cup {meta.fees[token]} :
            BeginIf(from = Admin /\ amount > 0, p,
                    NewRequest("adminWithdrawFees", from, to, token, amount),
                    <<Need(Treasury, token, amount), Sub(Treasury, token, amount),
                      Add(to, token, amount),
                      NewOp("feeSub", Treasury, token, amount)>>)

\* The amount is optional: without it the whole pot is withdrawn.
AdminWithdrawFees(p) ==
    \E from \in Senders, to \in Receivers, token \in Token :
        \E amount \in {base * Unit : base \in Amounts} \cup {meta.fees[token]} :
            BeginIf(from = Admin /\ amount > 0 /\ meta.fees[token] >= amount, p,
                    NewRequest("adminWithdrawFees", from, to, token, amount),
                    <<Need(Treasury, token, amount), Sub(Treasury, token, amount),
                      Add(to, token, amount),
                      NewOp("feeSub", Treasury, token, amount)>>)

\* SetMerchantFeeBps changes the copy in memory only.
AdminSetFees(p) ==
    \E from \in Senders, bps \in FeeRates :
        LET r == NewRequest("adminSetFees", from, from, "GORR", bps) IN
        IF from = Admin
        THEN /\ Answer(p, r, "ok")
             /\ meta' = [meta EXCEPT !.bps = bps]
             /\ UNCHANGED paused
        ELSE Refuse(p, r)

AdminPauseTransfers(p) ==
    \E from \in Senders, flag \in BOOLEAN :
        LET r == NewRequest("adminPauseTransfers", from, from, "GORR", 0) IN
        IF from = Admin
        THEN Answer(p, r, "ok") /\ paused' = flag /\ UNCHANGED meta
        ELSE Refuse(p, r)

\* eth_sendRawTransaction: the signed transaction names its nonce, the value
\* is in base units, and the expected nonce is read under eth.mu, which is
\* released again before the transfer.
EthSendRaw(p) ==
    \E from \in Senders, to \in Receivers, base \in Amounts, nonce \in 0..MaxNonce :
        LET value == base * Unit IN
        BeginIf(nonce = ethNonces[from] /\ to # Zero /\ value > 0, p,
                [NewRequest("ethSendRaw", from, to, "GORR", value) EXCEPT !.nonce = nonce],
                <<Sub(from, "GORR", value), Add(to, "GORR", value), Step("ethRecord")>>)

Arrive(p) ==
    \/ SendNative(p) \/ SendUSDCc(p) \/ EthSendRaw(p)
    \/ AdminMint(p) \/ AdminBurn(p) \/ AdminMintToTreasury(p)
    \/ AdminForceTransfer(p) \/ AdminWithdrawFees(p)
    \/ AdminSetFees(p) \/ AdminPauseTransfers(p)

-----------------------------------------------------------------------------
(* Executing the operations *)

Cur(p) == Head(todo[p])

At(p, kind) == pc[p] = "run" /\ todo[p] # <<>> /\ Cur(p).kind = kind

Goto(p, place) == pc' = [pc EXCEPT ![p] = place] /\ UNCHANGED <<todo, reply>>

\* Mutant of Advance: the place inside the operation is not reset.
AdvanceKeepsPlace(p) ==
    /\ todo' = [todo EXCEPT ![p] = Tail(todo[p])]
    /\ UNCHANGED <<pc, reply>>

\* The operation at the head is finished.
Advance(p) ==
    /\ todo' = [todo EXCEPT ![p] = Tail(todo[p])]
    /\ pc' = [pc EXCEPT ![p] = "run"]
    /\ UNCHANGED reply

\* The handler returns.
Return(p, result) ==
    /\ reply' = [reply EXCEPT ![p] = result]
    /\ pc' = [pc EXCEPT ![p] = "idle"]
    /\ todo' = [todo EXCEPT ![p] = <<>>]

\* Mutant of CheckFunds: the handler polls until the funds are there.
CheckFundsPolling(p) ==
    /\ At(p, "need")
    /\ IF db[Cur(p).addr][Cur(p).token] < Cur(p).amt
       THEN UNCHANGED <<pc, todo, reply>> ELSE Advance(p)
    /\ UNCHANGED <<storeVars, regVars, callVars, histVars>>

CheckFunds(p) ==
    /\ At(p, "need")
    /\ IF db[Cur(p).addr][Cur(p).token] < Cur(p).amt THEN Return(p, "error")
                                                    ELSE Advance(p)
    /\ UNCHANGED <<storeVars, regVars, callVars, histVars>>

\* Mutants of Debit: no underflow check; the caller ignores the error.
DebitUnchecked(p) ==
    /\ At(p, "sub")
    /\ IF Cur(p).amt < 0
       THEN Return(p, "error") /\ UNCHANGED next
       ELSE /\ Goto(p, "load")
            /\ next' = [next EXCEPT ![p] = db[Cur(p).addr][Cur(p).token] - Cur(p).amt]
    /\ UNCHANGED <<storeVars, rec, snap, callVars, histVars>>

DebitErrorIgnored(p) ==
    /\ At(p, "sub")
    /\ LET balance == db[Cur(p).addr][Cur(p).token] IN
       IF Cur(p).amt < 0 \/ balance < Cur(p).amt
       THEN Advance(p) /\ UNCHANGED next
       ELSE Goto(p, "load") /\ next' = [next EXCEPT ![p] = balance - Cur(p).amt]
    /\ UNCHANGED <<storeVars, rec, snap, callVars, histVars>>

\* SubBalance / SubUSDCc up to the call of SetBalance; its error ends the handler.
Debit(p) ==
    /\ At(p, "sub")
    /\ LET balance == db[Cur(p).addr][Cur(p).token] IN
       IF Cur(p).amt < 0 \/ balance < Cur(p).amt
       THEN Return(p, "error") /\ UNCHANGED next
       ELSE Goto(p, "load") /\ next' = [next EXCEPT ![p] = balance - Cur(p).amt]
    /\ UNCHANGED <<storeVars, rec, snap, callVars, histVars>>

\* AddBalance / AddUSDCc up to the call of SetBalance; every caller ignores its error.
Credit(p) ==
    /\ At(p, "add")
    /\ IF Cur(p).amt < 0
       THEN Advance(p) /\ UNCHANGED next
       ELSE /\ Goto(p, "load")
            /\ next' = [next EXCEPT ![p] = db[Cur(p).addr][Cur(p).token] + Cur(p).amt]
    /\ UNCHANGED <<storeVars, rec, snap, callVars, histVars>>

\* SetBalance / SetUSDCcBalance: GetAccount ...
LoadAccount(p) ==
    /\ pc[p] = "load"
    /\ rec' = [rec EXCEPT ![p] = db[Cur(p).addr]]
    /\ Goto(p, "store")
    /\ UNCHANGED <<storeVars, next, snap, callVars, histVars>>

\* ... and SaveAccount of the whole record, both tokens.
StoreAccount(p) ==
    /\ pc[p] = "store"
    /\ db' = [db EXCEPT ![Cur(p).addr] = [rec[p] EXCEPT ![Cur(p).token] = next[p]]]
    /\ Advance(p)
    /\ touched' = [touched EXCEPT ![p] = TRUE]
    /\ owed' = IF Cur(p).kind = "sub" /\ req[p].method = "adminWithdrawFees"
               THEN [owed EXCEPT ![Cur(p).token] = @ - Cur(p).amt] ELSE owed
    /\ ethLog' = IF Cur(p).kind = "sub" /\ req[p].method = "ethSendRaw"
                 THEN Append(ethLog, SignedTx(req[p])) ELSE ethLog
    /\ UNCHANGED <<disk, memVars, regVars, callVars>>

\* AddSupply / SubSupply: an unsynchronised read and write of a map entry.
\* SubSupply of more than the known supply does nothing.
ReadSupply(p) ==
    /\ At(p, "supplyAdd") \/ At(p, "supplySub")
    /\ LET known == supply[Cur(p).token] IN
       IF Cur(p).kind = "supplySub" /\ known < Cur(p).amt
       THEN Advance(p) /\ UNCHANGED next
       ELSE /\ Goto(p, "supply")
            /\ next' = [next EXCEPT ![p] = IF Cur(p).kind = "supplyAdd"
                                           THEN known + Cur(p).amt
                                           ELSE known - Cur(p).amt]
    /\ UNCHANGED <<storeVars, rec, snap, callVars, histVars>>

WriteSupply(p) ==
    /\ pc[p] = "supply"
    /\ supply' = [supply EXCEPT ![Cur(p).token] = next[p]]
    /\ Advance(p)
    /\ UNCHANGED <<db, disk, meta, paused, ethNonces, ethTxs, regVars, callVars,
                   histVars>>

\* AddCollectedFee / SubCollectedFee: read and write the pot in memory,
\* then SaveMeta marshals Meta and puts it.  SubCollectedFee clamps at zero.
ReadFees(p) ==
    /\ At(p, "feeAdd") \/ At(p, "feeSub")
    /\ LET pot == meta.fees[Cur(p).token] IN
       next' = [next EXCEPT ![p] = IF Cur(p).kind = "feeAdd" THEN pot + Cur(p).amt
                                   ELSE IF pot < Cur(p).amt THEN 0
                                   ELSE pot - Cur(p).amt]
    /\ owed' = IF Cur(p).kind = "feeAdd"
               THEN [owed EXCEPT ![Cur(p).token] = @ + Cur(p).amt] ELSE owed
    /\ Goto(p, "fees")
    /\ UNCHANGED <<storeVars, rec, snap, callVars, touched, ethLog>>

\* Mutant of WriteFees: the pot is changed in memory and never saved.
WriteFeesUnsaved(p) ==
    /\ pc[p] = "fees"
    /\ meta' = [meta EXCEPT !.fees[Cur(p).token] = next[p]]
    /\ Advance(p)
    /\ UNCHANGED <<db, disk, supply, paused, ethNonces, ethTxs, regVars, callVars,
                   histVars>>

WriteFees(p) ==
    /\ pc[p] = "fees"
    /\ meta' = [meta EXCEPT !.fees[Cur(p).token] = next[p]]
    /\ Goto(p, "marshal")
    /\ UNCHANGED <<db, disk, supply, paused, ethNonces, ethTxs, regVars, callVars,
                   histVars>>

MarshalMeta(p) ==
    /\ pc[p] = "marshal"
    /\ snap' = [snap EXCEPT ![p] = meta]
    /\ Goto(p, "put")
    /\ UNCHANGED <<storeVars, next, rec, callVars, histVars>>

PutMeta(p) ==
    /\ pc[p] = "put"
    /\ disk' = snap[p]
    /\ Advance(p)
    /\ UNCHANGED <<db, memVars, regVars, callVars, histVars>>

\* Mutant of RecordEthTx: the nonce is incremented instead of set to expected + 1.
RecordEthTxIncrement(p) ==
    /\ At(p, "ethRecord")
    /\ ethTxs' = ethTxs \cup {SignedTx(req[p])}
    /\ ethNonces' = [ethNonces EXCEPT ![req[p].from] = @ + 1]
    /\ Advance(p)
    /\ UNCHANGED <<db, disk, meta, supply, paused, regVars, callVars, histVars>>

\* Under eth.mu: keep the record and set the nonce to expected + 1.
RecordEthTx(p) ==
    /\ At(p, "ethRecord")
    /\ ethTxs' = ethTxs \cup {SignedTx(req[p])}
    /\ ethNonces' = [ethNonces EXCEPT ![req[p].from] = req[p].nonce + 1]
    /\ Advance(p)
    /\ UNCHANGED <<db, disk, meta, supply, paused, regVars, callVars, histVars>>

\* HandleSendNative looks at Paused after the transfer.
CheckPaused(p) ==
    /\ At(p, "unlessPaused")
    /\ IF paused THEN Return(p, "error") ELSE Advance(p)
    /\ UNCHANGED <<storeVars, regVars, callVars, histVars>>

RejectZeroTarget(p) ==
    /\ At(p, "fail")
    /\ Return(p, "error")
    /\ UNCHANGED <<storeVars, regVars, callVars, histVars>>

Succeed(p) ==
    /\ pc[p] = "run" /\ todo[p] = <<>>
    /\ Return(p, "ok")
    /\ UNCHANGED <<storeVars, regVars, callVars, histVars>>

Execute(p) ==
    \/ CheckFunds(p) \/ Debit(p) \/ Credit(p) \/ LoadAccount(p) \/ StoreAccount(p)
    \/ ReadSupply(p) \/ WriteSupply(p)
    \/ ReadFees(p) \/ WriteFees(p) \/ MarshalMeta(p) \/ PutMeta(p)
    \/ RecordEthTx(p) \/ CheckPaused(p) \/ RejectZeroTarget(p) \/ Succeed(p)

\* The process dies at any point and is started again: requests in flight are
\* gone, memory is empty, Meta is loaded from leveldb.
Restart ==
    /\ restarts < MaxRestarts
    /\ restarts' = restarts + 1
    /\ meta' = disk
    /\ supply' = [t \in Token |-> 0]
    /\ paused' = FALSE
    /\ ethNonces' = [a \in Addr |-> 0]
    /\ ethTxs' = {}
    /\ pc' = [p \in Procs |-> "idle"]
    /\ todo' = [p \in Procs |-> <<>>]
    /\ reply' = [p \in Procs |-> "none"]
    /\ UNCHANGED <<db, disk, regVars, req, served, began, histVars>>

\* Every request the bound allows has been answered: the server waits for more.
Wait == served = MaxRequests /\ (\A p \in Procs : pc[p] = "idle") /\ UNCHANGED vars

Next == Restart \/ Wait \/ \E p \in Procs : Arrive(p) \/ Execute(p)

Spec == Init /\ [][Next]_vars

\* The Go scheduler runs every goroutine that is ready; requests may never come.
FairSpec == Spec /\ \A p \in Procs : WF_vars(Execute(p))

-----------------------------------------------------------------------------
(* Properties *)

\* The store holds accounts and Meta, a handler inside an operation still has that
\* operation at hand, and counters stay within their bounds.
TypeOK ==
    /\ db \in [Addr -> Account]
    /\ disk \in Meta /\ meta \in Meta
    /\ supply \in [Token -> Int]
    /\ paused \in BOOLEAN
    /\ ethNonces \in [Addr -> Nat]
    /\ ethTxs \subseteq EthTx
    /\ pc \in [Procs -> {"idle", "run", "load", "store", "supply", "fees",
                         "marshal", "put"}]
    /\ todo \in [Procs -> Seq(Op)]
    /\ \A p \in Procs : pc[p] \notin {"idle", "run"} => todo[p] # <<>>
    /\ next \in [Procs -> Int]
    /\ rec \in [Procs -> Account]
    /\ snap \in [Procs -> Meta]
    /\ req \in [Procs -> Request]
    /\ reply \in [Procs -> {"none", "ok", "error"}]
    /\ served \in 0..MaxRequests /\ restarts \in 0..MaxRestarts
    /\ touched \in [Procs -> BOOLEAN]
    /\ began \in [Procs -> [db : [Addr -> Account], fees : [Token -> Int],
                            nonces : [Addr -> Nat]]]
    /\ owed \in [Token -> Int]
    /\ ethLog \in Seq(EthTx)

\* No interleaving of handlers, lost update or restart makes a balance
\* negative: SubBalance's check and the two reads around it are enough for
\* that, although not for conservation (state/balance_helpers.go, SubBalance
\* "met underflow check").
NonNegative == \A a \in Addr, t \in Token : db[a][t] >= 0

\* eth_getTransactionCount never promises a nonce that leaves a hole: for every
\* nonce below ethRPC.nonces[a] there is a stored transaction, however the
\* unlocked window between the nonce check and the record interleaves.
NonceGapFree ==
    \A a \in Addr : \A n \in 0..(ethNonces[a] - 1) :
        \E tx \in ethTxs : tx.from = a /\ tx.nonce = n

\* An eth transaction that clients can look up was debited from its sender:
\* no interleaving stores a record for a transfer that SubBalance refused.
RecordedWasDebited ==
    \A tx \in ethTxs : \E i \in DOMAIN ethLog : ethLog[i] = tx

\* An error answer means that the handler moved nothing, except in the two
\* handlers that check too late: sendTransaction while paused, and a GORR
\* forced transfer from the zero address.
NoPartialError ==
    \A p \in Procs :
        reply[p] = "error" /\ touched[p] =>
            \/ req[p].method = "sendTransaction"
            \/ req[p].method = "adminForceTransfer" /\ req[p].from = Zero

\* Sum of token t over the accounts of d.
Total(d, t) == SumOver([a \in Addr |-> d[a][t]], Addr)

Mints(r, t) ==
    IF r.method \in {"adminMint", "adminMintToTreasury"} /\ r.token = t /\ r.amt > 0
    THEN r.amt ELSE 0

\* One request at a time, a restart after any access of the store may destroy
\* funds in flight but never creates them: every handler debits first.
NothingCreated ==
    \A p \in Procs, t \in Token :
        Total(db, t) <= Total(began[p].db, t) + Mints(req[p], t)

\* One request at a time, the fee pot on disk is the one in memory whenever no
\* handler runs: AddCollectedFee and SubCollectedFee both end with SaveMeta.
FeesDurable ==
    (\A p \in Procs : pc[p] = "idle") => disk.fees = meta.fees

\* Amounts in base units: up to all there is, and what a mint may add.
Wei == 0..Total(InitialDb, "GORR") \cup (UNION {FloatWei(x) : x \in Amounts} \cap Nat)

\* The ledger as a client sees it when requests come one at a time: a
\* handler's effects appear together when it answers.
Visible ==
    IF \A p \in Procs : pc[p] = "idle" THEN View
    ELSE began[CHOOSE p \in Procs : pc[p] # "idle"]

Ideal == INSTANCE IdealLedger
         WITH Value <- Wei, InitialPot <- InitialMeta.fees, bal <- Visible.db, pot <- Visible.fees, nonces <- Visible.nonces

\* One request at a time, the chain of store operations of every handler
\* amounts to one atomic step of the ideal ledger.
SerialHandlersAreAtomic == Ideal!Spec

\* No handler stays unanswered: none waits for another one.
HandlersReturn == \A p \in Procs : pc[p] # "idle" ~> pc[p] = "idle"

\* adminWithdrawFees: "cannot withdraw more than collected".  One request at a
\* time, no sequence of transfers, rate changes and withdrawals takes out more
\* than was put in; two withdrawals at once both pass the check of the pot, and
\* so does one after a crash between its debit and SubCollectedFee.
WithdrawWithinCollected == \A t \in Token : owed[t] >= 0

\* The nonce check admits a signed transaction once.
EthAppliedOnce ==
    \A i, j \in DOMAIN ethLog :
        ethLog[i].from = ethLog[j].from /\ ethLog[i].nonce = ethLog[j].nonce => i = j
=============================================================================
