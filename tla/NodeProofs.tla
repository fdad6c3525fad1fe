----------------------------- MODULE NodeProofs -----------------------------
(* Theorems about Node for every set of request goroutines, addresses,     *)
(* requests and block transactions.  What RpcLedgerProofs shows of a step  *)
(* of a handler is used for the steps of handlers here.                    *)
EXTENDS Node, RpcFundsProofs

-----------------------------------------------------------------------------
(* Types *)

LegType == [addr : Addr, delta : Int]
WriteType == [addr : Addr, delta : Int, new : Int]

\* The balances a transaction changes are those of known addresses.
LEMMA LegsType == ASSUME NEW tx \in BlockTxs
                  PROVE  LegsOf(tx) \in Seq(LegType) /\ LegsOf(tx) # <<>>
  <1> DEFINE fee == (tx.value * treasuryFeeBps) \div bpsDenominator
  <1>1. tx \in BlockTx /\ Treasury \in Addr
    BY NodeAssumption, AddressesAssumption
  <1>2. fee \in Int
    BY <1>1 DEF BlockTx, treasuryFeeBps, bpsDenominator
  <1>3. /\ Leg(tx.from, -tx.value) \in LegType /\ Leg(tx.to, tx.value - fee) \in LegType
        /\ Leg(Treasury, fee) \in LegType /\ Leg(tx.to, tx.value) \in LegType
    <2> HIDE DEF fee
    <2> QED BY <1>1, <1>2 DEF BlockTx, Leg, LegType
  <1>4. /\ <<Leg(tx.from, -tx.value), Leg(tx.to, tx.value - fee), Leg(Treasury, fee)>>
             \in Seq(LegType)
        /\ <<Leg(tx.from, -tx.value), Leg(tx.to, tx.value)>> \in Seq(LegType)
    <2> HIDE DEF fee
    <2> QED BY <1>3
  <1>5. QED
    BY <1>4 DEF LegsOf

\* The types of what only the composition adds.
WorkOK ==
    /\ stage \in {"wait", "read", "load", "store", "nonce", "saveNonce"}
    /\ sender \in Addr
    /\ legs \in Seq(LegType) /\ writes \in Seq(WriteType)
    /\ copy \in Account /\ applied \in 0..MaxBlockTxs
    /\ ideal \in [Addr -> [Token -> Int]] /\ contended \subseteq Addr
    /\ stage = "read" <=> legs # <<>>
    /\ stage \in {"load", "store"} => writes # <<>>
    /\ stage \in {"wait", "nonce", "saveNonce"} => writes = <<>>

\* NodeTypeOK is TypeOK of the handlers and the types of the rest.
LEMMA TypeParts == NodeTypeOK <=> TypeOK /\ WorkOK
  BY DEF NodeTypeOK, WorkOK, LegType, WriteType

\* A handler inside SetBalance has the address it writes at hand.
LEMMA StoreTarget ==
  ASSUME TypeOK, NEW p \in Procs, pc[p] \in {"load", "store"}
  PROVE  /\ Cur(p).addr \in Addr /\ Cur(p).token \in Token /\ Cur(p).amt \in Int
         /\ Change(p) \in Int
  <1>1. todo[p] # <<>>
    BY DEF TypeOK
  <1>2. QED
    BY <1>1, CurType DEF Change

\* A step of a handler keeps every type.
LEMMA HandlerType ==
  ASSUME NodeTypeOK, NEW p \in Procs, Handler(p)
  PROVE  NodeTypeOK'
  <1>1. TypeOK /\ WorkOK
    BY TypeParts
  <1>2. TypeOK'
    BY <1>1, ArriveType, ExecuteType DEF Handler
  <1>3. WorkOK'
    <2>1. CASE pc[p] = "store"
      <3>1. Cur(p).addr \in Addr /\ Cur(p).token \in Token /\ Change(p) \in Int
        BY <1>1, <2>1, StoreTarget
      <3>2. ideal' = [ideal EXCEPT ![Cur(p).addr][Cur(p).token] = @ + Change(p)]
        BY <2>1 DEF Handler
      <3>3. contended' \in {contended, contended \cup {Cur(p).addr}}
        BY <2>1 DEF Handler
      <3>4. ideal' \in [Addr -> [Token -> Int]]
        BY <1>1, <3>1, <3>2 DEF WorkOK
      <3>5. UNCHANGED workVars
        BY DEF Handler
      <3>6. QED
        BY <1>1, <3>1, <3>3, <3>4, <3>5 DEF WorkOK, workVars
    <2>2. CASE pc[p] # "store"
      BY <1>1, <2>2 DEF Handler, WorkOK, workVars, ghostVars
    <2>3. QED
      BY <2>1, <2>2
  <1>4. QED
    BY <1>2, <1>3 DEF NodeTypeOK, WorkOK, LegType, WriteType

\* A step that leaves the variables of the handlers alone keeps their types.
LEMMA SameVarsType == ASSUME TypeOK, UNCHANGED vars PROVE TypeOK'
  BY StutterType

\* A step of the producer that writes an account keeps the handlers' types.
LEMMA WriteAccountType ==
  ASSUME TypeOK, NEW a \in Addr, NEW r \in Account,
         db' = [db EXCEPT ![a] = r],
         UNCHANGED <<disk, memVars, pc, todo, regVars, callVars, reply, histVars>>
  PROVE  TypeOK'
  BY DEF TypeOK, memVars, regVars, callVars, histVars, Cur

\* A step of the producer keeps every type.
LEMMA ProducerType ==
  ASSUME NodeTypeOK, Producer
  PROVE  NodeTypeOK'
  <1>1. TypeOK /\ WorkOK
    BY TypeParts
  <1> USE DEF WorkOK, ghostVars
  <1>2. CASE TakeTx
    <2>1. TypeOK'
      BY <1>1, <1>2, SameVarsType DEF TakeTx
    <2>2. PICK tx \in BlockTxs : sender' = tx.from /\ legs' = LegsOf(tx)
      BY <1>2 DEF TakeTx
    <2>3. tx.from \in Addr
      BY NodeAssumption DEF BlockTx
    <2>4. applied' \in 0..MaxBlockTxs
      BY <1>1, <1>2, NodeAssumption DEF TakeTx
    <2>5. WorkOK'
      BY <1>1, <1>2, <2>2, <2>3, <2>4, LegsType DEF TakeTx
    <2>6. QED
      BY <2>1, <2>5 DEF NodeTypeOK, LegType, WriteType
  <1>3. CASE ReadBalance
    <2>1. TypeOK'
      BY <1>1, <1>3, SameVarsType DEF ReadBalance
    <2> DEFINE leg == Head(legs)
               new == db[leg.addr]["GORR"] + leg.delta
               w   == [addr |-> leg.addr, delta |-> leg.delta, new |-> new]
    <2>2. leg \in LegType /\ Tail(legs) \in Seq(LegType)
      BY <1>1, <1>3 DEF ReadBalance
    <2>3. w \in WriteType
      <3>1. leg.addr \in Addr /\ leg.delta \in Int
        BY <2>2 DEF LegType
      <3>2. db[leg.addr]["GORR"] \in Int
        <4>1. db \in [Addr -> [Token -> Int]] /\ "GORR" \in Token
          BY <1>1 DEF TypeOK, Account, Token
        <4> HIDE DEF leg
        <4> QED BY <3>1, <4>1
      <3> HIDE DEF leg
      <3> QED BY <3>1, <3>2 DEF WriteType
    <2>4. Append(writes, w) \in Seq(WriteType) /\ Append(writes, w) # <<>>
      <3>1. writes \in Seq(WriteType)
        BY <1>1
      <3> HIDE DEF w
      <3>2. Append(writes, w) \in Seq(WriteType) /\ Len(Append(writes, w)) = Len(writes) + 1
        BY <2>3, <3>1
      <3>3. Len(writes) \in Nat
        BY <3>1
      <3>4. QED
        BY <3>2, <3>3
    <2>5. /\ legs' \in Seq(LegType) /\ writes' \in Seq(WriteType)
          /\ \/ stage' = "wait" /\ legs' = <<>> /\ writes' = <<>>
             \/ stage' = "load" /\ legs' = <<>> /\ writes' # <<>>
             \/ stage' = "read" /\ legs' # <<>>
      <3>1. CASE new < 0
        BY <1>3, <3>1 DEF ReadBalance
      <3>2. CASE ~(new < 0)
        <4>1. /\ legs' = Tail(legs) /\ writes' = Append(writes, w)
              /\ stage' = IF Tail(legs) = <<>> THEN "load" ELSE "read"
          BY <1>3, <3>2 DEF ReadBalance
        <4> HIDE DEF leg, w, new
        <4>2. QED
          BY <2>2, <2>4, <4>1
      <3>3. QED
        BY <3>1, <3>2
    <2>6. WorkOK'
      <3>1. UNCHANGED <<sender, copy, applied, ideal, contended>>
        BY <1>3 DEF ReadBalance
      <3>2. QED
        BY <1>1, <2>5, <3>1
    <2>7. QED
      BY <2>1, <2>6 DEF NodeTypeOK, LegType, WriteType
  <1>4. CASE LoadRecord
    <2>1. TypeOK'
      BY <1>1, <1>4, SameVarsType DEF LoadRecord
    <2>2. Head(writes).addr \in Addr
      <3>1. writes \in Seq(WriteType) /\ writes # <<>>
        BY <1>1, <1>4 DEF LoadRecord
      <3>2. Head(writes) \in WriteType
        BY <3>1
      <3>3. QED
        BY <3>2 DEF WriteType
    <2>3. WorkOK'
      BY <1>1, <1>4, <2>2 DEF LoadRecord, TypeOK
    <2>4. QED
      BY <2>1, <2>3 DEF NodeTypeOK, LegType, WriteType
  <1>5. CASE StoreRecord
    <2> DEFINE w == Head(writes)
    <2>1. w \in WriteType /\ Tail(writes) \in Seq(WriteType)
      BY <1>1, <1>5 DEF StoreRecord
    <2>2. w.addr \in Addr /\ w.new \in Int /\ w.delta \in Int
      BY <2>1 DEF WriteType
    <2> HIDE DEF w
    <2>3. [copy EXCEPT !["GORR"] = w.new] \in Account
      BY <1>1, <2>2 DEF Account
    <2>4. TypeOK'
      BY <1>1, <1>5, <2>2, <2>3, WriteAccountType DEF StoreRecord, w
    <2>5. /\ ideal' \in [Addr -> [Token -> Int]] /\ contended' \subseteq Addr
      BY <1>1, <1>5, <2>2 DEF StoreRecord, w, Token
    <2>6. WorkOK'
      BY <1>1, <1>5, <2>1, <2>5 DEF StoreRecord
    <2>7. QED
      BY <2>4, <2>6 DEF NodeTypeOK, LegType, WriteType
  <1>6. CASE LoadNonce
    <2>1. TypeOK'
      BY <1>1, <1>6, SameVarsType DEF LoadNonce
    <2>2. WorkOK'
      BY <1>1, <1>6 DEF LoadNonce, TypeOK
    <2>3. QED
      BY <2>1, <2>2 DEF NodeTypeOK, LegType, WriteType
  <1>7. CASE SaveNonce
    <2>1. TypeOK'
      BY <1>1, <1>7, WriteAccountType DEF SaveNonce
    <2>2. WorkOK'
      BY <1>1, <1>7 DEF SaveNonce
    <2>3. QED
      BY <2>1, <2>2 DEF NodeTypeOK, LegType, WriteType
  <1>8. QED
    BY <1>2, <1>3, <1>4, <1>5, <1>6, <1>7 DEF Producer

\* NodeTypeOK is inductive.
LEMMA NodeNextType == NodeTypeOK /\ [NodeNext]_nodeVars => NodeTypeOK'
  <1> SUFFICES ASSUME NodeTypeOK, [NodeNext]_nodeVars PROVE NodeTypeOK'
    OBVIOUS
  <1>1. CASE NodeRestart
    <2>1. TypeOK'
      BY <1>1, TypeParts, RestartType DEF NodeRestart
    <2>2. WorkOK'
      BY <1>1, TypeParts DEF NodeRestart, WorkOK, ghostVars
    <2>3. QED
      BY <2>1, <2>2 DEF NodeTypeOK, WorkOK, LegType, WriteType
  <1>2. CASE UNCHANGED nodeVars
    <2>1. TypeOK'
      BY <1>2, TypeParts, StutterType DEF nodeVars
    <2>2. WorkOK'
      BY <1>2, TypeParts DEF nodeVars, WorkOK, workVars, ghostVars
    <2>3. QED
      BY <2>1, <2>2 DEF NodeTypeOK, WorkOK, LegType, WriteType
  <1>3. QED
    BY <1>1, <1>2, HandlerType, ProducerType DEF NodeNext, NodeWait

\* The node starts well typed.
LEMMA NodeInitType == NodeInit => NodeTypeOK
  <1> SUFFICES ASSUME NodeInit PROVE TypeOK /\ WorkOK
    BY TypeParts
  <1>1. TypeOK
    BY InitType DEF NodeInit
  <1>2. WorkOK
    BY AddressesAssumption, NodeAssumption DEF NodeInit, WorkOK, Account
  <1>3. QED
    BY <1>1, <1>2

\* Every reachable state of the node is well typed; while the producer applies
\* a transaction it has balances left to read or to write.
THEOREM NodeTypeCorrect == NodeSpec => []NodeTypeOK
  BY NodeInitType, NodeNextType, PTL DEF NodeSpec

-----------------------------------------------------------------------------
(* Balances *)

\* The producer holds no negative number either: what it computed from the
\* balances it read, and the record it loaded.
ProducerNonNegative ==
    /\ \A i \in DOMAIN writes : writes[i].new >= 0
    /\ stage \in {"store", "saveNonce"} => \A t \in Token : copy[t] >= 0

NodeBalanceInv == NodeTypeOK /\ BalanceInv /\ ProducerNonNegative

\* What the producer does to the handlers' accounts and registers keeps them
\* non-negative.
LEMMA ProducerBalance ==
  ASSUME NodeBalanceInv, Producer
  PROVE  NonNegative' /\ InFlightNonNegative' /\ ProducerNonNegative'
  <1>1. TypeOK /\ WorkOK /\ NonNegative /\ InFlightNonNegative /\ ProducerNonNegative
    BY TypeParts DEF NodeBalanceInv, BalanceInv
  <1>2. ASSUME UNCHANGED vars PROVE NonNegative' /\ InFlightNonNegative'
    BY <1>1, <1>2 DEF vars, regVars, NonNegative, InFlightNonNegative
  <1>3. CASE TakeTx
    BY <1>1, <1>2, <1>3 DEF TakeTx, ProducerNonNegative
  <1>4. CASE ReadBalance
    <2> DEFINE leg == Head(legs)
               new == db[leg.addr]["GORR"] + leg.delta
               w   == [addr |-> leg.addr, delta |-> leg.delta, new |-> new]
    <2>1. new \in Int
      <3>1. leg \in LegType
        BY <1>1, <1>4 DEF ReadBalance, WorkOK
      <3>2. db \in [Addr -> [Token -> Int]] /\ "GORR" \in Token
        BY <1>1 DEF TypeOK, Account, Token
      <3> HIDE DEF leg
      <3> QED BY <3>1, <3>2 DEF LegType
    <2>2. \/ writes' = <<>>
          \/ writes' = Append(writes, w) /\ ~(new < 0)
      BY <1>4 DEF ReadBalance
    <2>3. \A i \in DOMAIN writes' : writes'[i].new >= 0
      <3>1. w.new = new
        OBVIOUS
      <3>2. writes \in Seq(WriteType)
        BY <1>1 DEF WorkOK
      <3> HIDE DEF new, w
      <3>3. QED
        BY <1>1, <2>1, <2>2, <3>1, <3>2 DEF ProducerNonNegative
    <2>4. UNCHANGED vars /\ stage' \notin {"store", "saveNonce"}
      BY <1>4 DEF ReadBalance
    <2>5. QED
      BY <1>2, <2>3, <2>4 DEF ProducerNonNegative
  <1>5. CASE LoadRecord
    <2>1. Head(writes) \in WriteType
      BY <1>1, <1>5 DEF LoadRecord, WorkOK
    <2>2. \A t \in Token : copy'[t] >= 0
      BY <1>1, <1>5, <2>1 DEF LoadRecord, WriteType, NonNegative
    <2>3. QED
      BY <1>1, <1>2, <1>5, <2>2 DEF LoadRecord, ProducerNonNegative
  <1>6. CASE StoreRecord
    <2> DEFINE w == Head(writes)
    <2>1. writes \in Seq(WriteType) /\ writes # <<>>
      BY <1>1, <1>6 DEF StoreRecord, WorkOK
    <2>2. w.addr \in Addr /\ w.new >= 0
      <3>1. w = writes[1] /\ 1 \in DOMAIN writes /\ w \in WriteType
        BY <2>1
      <3>2. QED
        BY <1>1, <3>1 DEF ProducerNonNegative, WriteType
    <2>3. \A i \in DOMAIN Tail(writes) : Tail(writes)[i] = writes[i + 1] /\ i + 1 \in DOMAIN writes
      BY <2>1
    <2>4. \A t \in Token : [copy EXCEPT !["GORR"] = w.new][t] >= 0
      BY <1>1, <1>6, <2>2 DEF StoreRecord, ProducerNonNegative, WorkOK, Account
    <2>5. db' = [db EXCEPT ![w.addr] = [copy EXCEPT !["GORR"] = w.new]]
      BY <1>6 DEF StoreRecord
    <2>6. NonNegative'
      <3> HIDE DEF w
      <3> QED BY <1>1, <2>2, <2>4, <2>5 DEF NonNegative, TypeOK
    <2>7. InFlightNonNegative'
      BY <1>1, <1>6 DEF StoreRecord, regVars, InFlightNonNegative
    <2>8. writes' = Tail(writes) /\ stage' \notin {"store", "saveNonce"}
      BY <1>6 DEF StoreRecord
    <2>9. ProducerNonNegative'
      BY <1>1, <2>3, <2>8 DEF ProducerNonNegative
    <2>10. QED
      BY <2>6, <2>7, <2>9
  <1>7. CASE LoadNonce
    <2>1. \A t \in Token : copy'[t] >= 0
      BY <1>1, <1>7 DEF LoadNonce, WorkOK, NonNegative
    <2>2. QED
      BY <1>1, <1>2, <1>7, <2>1 DEF LoadNonce, ProducerNonNegative
  <1>8. CASE SaveNonce
    <2>1. NonNegative'
      BY <1>1, <1>8 DEF SaveNonce, ProducerNonNegative, NonNegative, TypeOK, WorkOK
    <2>2. InFlightNonNegative'
      BY <1>1, <1>8 DEF SaveNonce, regVars, InFlightNonNegative
    <2>3. QED
      BY <1>1, <1>8, <2>1, <2>2 DEF SaveNonce, ProducerNonNegative
  <1>9. QED
    BY <1>3, <1>4, <1>5, <1>6, <1>7, <1>8 DEF Producer

\* Every step of the node keeps balances and values in flight non-negative.
LEMMA NodeNextBalance == NodeBalanceInv /\ [NodeNext]_nodeVars => NodeBalanceInv'
  <1> SUFFICES ASSUME NodeBalanceInv, [NodeNext]_nodeVars
               PROVE  NonNegative' /\ InFlightNonNegative' /\ ProducerNonNegative'
    BY NodeNextType, TypeParts DEF NodeBalanceInv, BalanceInv, NodeTypeOK
  <1>1. ASSUME [Next]_vars PROVE NonNegative' /\ InFlightNonNegative'
    BY <1>1, NextBalance DEF NodeBalanceInv, BalanceInv
  <1>2. ASSUME NEW p \in Procs, Handler(p)
        PROVE  NonNegative' /\ InFlightNonNegative' /\ ProducerNonNegative'
    BY <1>1, <1>2 DEF Handler, Next, workVars, NodeBalanceInv, ProducerNonNegative
  <1>3. CASE NodeRestart
    BY <1>1, <1>3 DEF NodeRestart, Next, ProducerNonNegative
  <1>4. CASE UNCHANGED nodeVars
    BY <1>1, <1>4 DEF nodeVars, workVars, NodeBalanceInv, ProducerNonNegative
  <1>5. QED
    BY <1>2, <1>3, <1>4, ProducerBalance DEF NodeNext, NodeWait

\* No balance is ever negative although requests and blocks change the same
\* accounts without a lock.
THEOREM NodeNonNegative == NodeSpec => []NonNegative
  <1>1. NodeInit => NodeBalanceInv
    BY InitBalance, NodeInitType DEF NodeInit, NodeBalanceInv, ProducerNonNegative
  <1>2. NodeBalanceInv => NonNegative
    BY DEF NodeBalanceInv, BalanceInv
  <1>3. QED
    BY <1>1, <1>2, NodeNextBalance, PTL DEF NodeSpec

-----------------------------------------------------------------------------
(* Uncontended accounts *)

\* What a handler inside SetBalance holds is still what the store says, changed
\* by the operation's amount, unless the account is contended.
HandlersExact ==
    \A p \in Procs : pc[p] \in {"load", "store"} /\ Cur(p).addr \notin contended =>
        /\ next[p] = db[Cur(p).addr][Cur(p).token] + Change(p)
        /\ pc[p] = "store" => rec[p] = db[Cur(p).addr]

\* So is what the producer holds.
ProducerExact ==
    /\ \A i \in DOMAIN writes : writes[i].addr \notin contended =>
          writes[i].new = db[writes[i].addr]["GORR"] + writes[i].delta
    /\ stage = "store" /\ Head(writes).addr \notin contended =>
          copy = db[Head(writes).addr]
    /\ stage = "saveNonce" /\ sender \notin contended => copy = db[sender]

ExactInv == NodeTypeOK /\ UncontendedExact /\ HandlersExact /\ ProducerExact

\* The other goroutines stay where they are.
OthersStay(p) == \A q \in Procs \ {p} : todo'[q] = todo[q] /\ pc'[q] = pc[q]

\* Receiving a request changes the list of operations of that goroutine only.
LEMMA ArriveControl ==
  ASSUME TypeOK, NEW p \in Procs, Arrive(p)
  PROVE  OthersStay(p)
  <1>1. ASSUME NEW r, NEW ops, Begin(p, r, ops) PROVE OthersStay(p)
    BY <1>1 DEF Begin, TypeOK, OthersStay
  <1>2. ASSUME NEW r, NEW result, Answer(p, r, result) PROVE OthersStay(p)
    BY <1>2 DEF Answer, TypeOK, OthersStay
  <1>3. ASSUME NEW r, Refuse(p, r) PROVE OthersStay(p)
    BY <1>2, <1>3 DEF Refuse
  <1>4. ASSUME NEW ok, NEW r, NEW ops, BeginIf(ok, p, r, ops) PROVE OthersStay(p)
    BY <1>1, <1>3, <1>4 DEF BeginIf
  <1>5. CASE SendNative(p)
    BY <1>1, <1>5 DEF SendNative
  <1>6. CASE SendUSDCc(p)
    BY <1>4, <1>6 DEF SendUSDCc
  <1>7. CASE AdminMint(p)
    BY <1>4, <1>7 DEF AdminMint
  <1>8. CASE AdminBurn(p)
    BY <1>4, <1>8 DEF AdminBurn
  <1>9. CASE AdminMintToTreasury(p)
    BY <1>4, <1>9 DEF AdminMintToTreasury
  <1>10. CASE AdminForceTransfer(p)
    BY <1>4, <1>10 DEF AdminForceTransfer
  <1>11. CASE AdminWithdrawFees(p)
    BY <1>4, <1>11 DEF AdminWithdrawFees
  <1>12. CASE AdminSetFees(p)
    BY <1>2, <1>3, <1>12 DEF AdminSetFees
  <1>13. CASE AdminPauseTransfers(p)
    BY <1>2, <1>3, <1>13 DEF AdminPauseTransfers
  <1>14. CASE EthSendRaw(p)
    BY <1>4, <1>14 DEF EthSendRaw
  <1>15. QED
    BY <1>5, <1>6, <1>7, <1>8, <1>9, <1>10, <1>11, <1>12, <1>13, <1>14 DEF Arrive

\* A step of p's handler that writes no account and opens no operation on one
\* keeps everything exact.
LEMMA ExactFrame ==
  ASSUME ExactInv, NEW p \in Procs, UNCHANGED <<db, rec, workVars, ghostVars>>,
         pc'[p] \notin {"load", "store"},
         \A q \in Procs \ {p} : /\ todo'[q] = todo[q] /\ pc'[q] = pc[q]
                                /\ next'[q] = next[q]
  PROVE  UncontendedExact' /\ HandlersExact' /\ ProducerExact'
  BY DEF ExactInv, UncontendedExact, HandlersExact, ProducerExact, Cur, Change,
         workVars, ghostVars

\* A store operation changes the state of its own handler only.
LEMMA ExecuteOthers ==
  ASSUME TypeOK, NEW p \in Procs, Execute(p)
  PROVE  \A q \in Procs \ {p} : /\ todo'[q] = todo[q] /\ pc'[q] = pc[q]
                                /\ next'[q] = next[q] /\ rec'[q] = rec[q]
  BY DEF Execute, Advance, Goto, Return, TypeOK, regVars, storeVars, memVars,
         CheckFunds, Debit, Credit, LoadAccount, StoreAccount, ReadSupply, WriteSupply,
         ReadFees, WriteFees, MarshalMeta, PutMeta, RecordEthTx, CheckPaused,
         RejectZeroTarget, Succeed

\* A store operation that is no part of SubBalance or AddBalance touches no
\* account.
LEMMA ExecuteElsewhere ==
  ASSUME TypeOK, NEW p \in Procs, Execute(p),
         ~Debit(p), ~Credit(p), ~LoadAccount(p), ~StoreAccount(p)
  PROVE  UNCHANGED <<db, rec>> /\ pc'[p] \notin {"load", "store"} /\ pc[p] # "store"
  <1> USE DEF Advance, Goto, Return, TypeOK, regVars, storeVars, memVars, At
  <1>1. CASE CheckFunds(p)
    BY <1>1 DEF CheckFunds
  <1>2. CASE ReadSupply(p)
    BY <1>2 DEF ReadSupply
  <1>3. CASE WriteSupply(p)
    BY <1>3 DEF WriteSupply
  <1>4. CASE ReadFees(p)
    BY <1>4 DEF ReadFees
  <1>5. CASE WriteFees(p)
    BY <1>5 DEF WriteFees
  <1>6. CASE MarshalMeta(p)
    BY <1>6 DEF MarshalMeta
  <1>7. CASE PutMeta(p)
    BY <1>7 DEF PutMeta
  <1>8. CASE RecordEthTx(p)
    BY <1>8 DEF RecordEthTx
  <1>9. CASE CheckPaused(p)
    BY <1>9 DEF CheckPaused
  <1>10. CASE RejectZeroTarget(p)
    BY <1>10 DEF RejectZeroTarget
  <1>11. CASE Succeed(p)
    BY <1>11 DEF Succeed
  <1>12. QED
    BY <1>1, <1>2, <1>3, <1>4, <1>5, <1>6, <1>7, <1>8, <1>9, <1>10, <1>11 DEF Execute

\* Each SetBalance call still to do is well typed.
LEMMA WritesType ==
  ASSUME WorkOK, NEW i \in DOMAIN writes
  PROVE  /\ writes[i] \in WriteType
         /\ writes[i].addr \in Addr /\ writes[i].delta \in Int /\ writes[i].new \in Int
  <1>1. writes \in Seq(WriteType)
    BY DEF WorkOK
  <1>2. writes[i] \in WriteType
    BY <1>1
  <1>3. QED
    BY <1>2 DEF WriteType

\* SubBalance and AddBalance: what is computed from the balance read is exact
\* then, and stays so until the account is written.
LEMMA OpenExact ==
  ASSUME ExactInv, NEW p \in Procs, Debit(p) \/ Credit(p),
         UNCHANGED <<workVars, ghostVars>>
  PROVE  UncontendedExact' /\ HandlersExact' /\ ProducerExact'
  <1>1. TypeOK /\ Execute(p)
    BY TypeParts DEF ExactInv, Execute
  <1>2. \A q \in Procs \ {p} : /\ todo'[q] = todo[q] /\ pc'[q] = pc[q]
                               /\ next'[q] = next[q] /\ rec'[q] = rec[q]
    BY <1>1, ExecuteOthers
  <1>3. UNCHANGED <<db, rec>>
    BY DEF Debit, Credit, storeVars
  <1>4. CASE pc'[p] \notin {"load", "store"}
    BY <1>2, <1>3, <1>4, ExactFrame
  <1>5. CASE pc'[p] \in {"load", "store"}
    <2>1. /\ pc'[p] = "load" /\ todo' = todo
          /\ next'[p] = db[Cur(p).addr][Cur(p).token] + Change(p)
      <3>1. Cur(p).amt \in Int /\ db[Cur(p).addr][Cur(p).token] \in Int
        BY <1>1, CurType DEF Debit, Credit, At, TypeOK, Account
      <3>2. CASE Debit(p)
        BY <1>1, <1>5, <3>1, <3>2 DEF Debit, At, Goto, Return, TypeOK, Change
      <3>3. CASE Credit(p)
        BY <1>1, <1>5, <3>1, <3>3 DEF Credit, At, Goto, Advance, TypeOK, Change
      <3>4. QED
        BY <3>2, <3>3
    <2>2. HandlersExact'
      BY <1>2, <1>3, <2>1 DEF ExactInv, HandlersExact, Cur, Change, ghostVars
    <2>3. QED
      BY <1>3, <2>2 DEF ExactInv, UncontendedExact, ProducerExact, workVars, ghostVars
  <1>6. QED
    BY <1>4, <1>5

\* GetAccount of SetBalance loads the record as it is.
LEMMA LoadExact ==
  ASSUME ExactInv, NEW p \in Procs, LoadAccount(p), UNCHANGED <<workVars, ghostVars>>
  PROVE  UncontendedExact' /\ HandlersExact' /\ ProducerExact'
  <1>1. TypeOK /\ Execute(p)
    BY TypeParts DEF ExactInv, Execute
  <1>2. \A q \in Procs \ {p} : rec'[q] = rec[q] /\ pc'[q] = pc[q]
    BY <1>1, ExecuteOthers
  <1>3. /\ UNCHANGED <<db, next, todo>> /\ pc[p] = "load"
        /\ pc'[p] = "store" /\ rec'[p] = db[Cur(p).addr]
    BY <1>1 DEF LoadAccount, Goto, storeVars, TypeOK
  <1>4. HandlersExact'
    BY <1>2, <1>3 DEF ExactInv, HandlersExact, Cur, Change, ghostVars
  <1>5. QED
    BY <1>3, <1>4 DEF ExactInv, UncontendedExact, ProducerExact, workVars, ghostVars

\* SaveAccount of SetBalance: if nobody else has the account open, the store
\* gets the old balance and the change; if somebody has, it is contended now.
LEMMA StoreExact ==
  ASSUME ExactInv, NEW p \in Procs, StoreAccount(p), Handler(p)
  PROVE  UncontendedExact' /\ HandlersExact' /\ ProducerExact'
  <1> DEFINE a == Cur(p).addr
             t == Cur(p).token
  <1>1. TypeOK /\ WorkOK /\ Execute(p) /\ pc[p] = "store"
    BY TypeParts DEF ExactInv, Execute, StoreAccount
  <1>2. a \in Addr /\ t \in Token /\ Change(p) \in Int
    BY <1>1, StoreTarget
  <1>3. /\ db' = [db EXCEPT ![a] = [rec[p] EXCEPT ![t] = next[p]]]
        /\ ideal' = [ideal EXCEPT ![a][t] = @ + Change(p)]
        /\ contended \subseteq contended'
        /\ a \notin contended' => ~ProducerOpen(a) /\ \A q \in Procs \ {p} : ~RpcOpen(q, a)
        /\ UNCHANGED workVars
    BY <1>1 DEF StoreAccount, Handler
  <1>4. /\ pc'[p] = "run"
        /\ \A q \in Procs \ {p} : /\ todo'[q] = todo[q] /\ pc'[q] = pc[q]
                                  /\ next'[q] = next[q] /\ rec'[q] = rec[q]
    BY <1>1, ExecuteOthers DEF StoreAccount, Advance, TypeOK
  <1>5. \A b \in Addr : b # a => db'[b] = db[b] /\ ideal'[b] = ideal[b]
    BY <1>1, <1>2, <1>3 DEF TypeOK, WorkOK
  <1>6. a \notin contended' => db'[a] = ideal'[a]
    <2> HAVE a \notin contended'
    <2>1. a \notin contended
      BY <1>3
    <2>2. /\ db[a] = ideal[a] /\ rec[p] = db[a] /\ next[p] = db[a][t] + Change(p)
      BY <1>1, <1>2, <2>1 DEF ExactInv, UncontendedExact, HandlersExact
    <2>3. db'[a] = [db[a] EXCEPT ![t] = db[a][t] + Change(p)]
      BY <1>1, <1>2, <1>3, <2>2 DEF TypeOK
    <2>4. ideal'[a] = [ideal[a] EXCEPT ![t] = ideal[a][t] + Change(p)]
      BY <1>1, <1>2, <1>3 DEF WorkOK
    <2>5. QED
      BY <2>2, <2>3, <2>4
  <1>7. UncontendedExact'
    BY <1>3, <1>5, <1>6 DEF ExactInv, UncontendedExact
  <1>8. ASSUME NEW q \in Procs, pc'[q] \in {"load", "store"}, Cur(q)'.addr \notin contended'
        PROVE  /\ next'[q] = db'[Cur(q)'.addr][Cur(q)'.token] + Change(q)'
               /\ pc'[q] = "store" => rec'[q] = db'[Cur(q)'.addr]
    <2>1. q # p /\ Cur(q)' = Cur(q) /\ Change(q)' = Change(q) /\ pc'[q] = pc[q]
      BY <1>4, <1>8 DEF Cur, Change
    <2>2. Cur(q).addr \in Addr /\ Cur(q).addr \notin contended
      BY <1>1, <1>3, <1>8, <2>1, StoreTarget
    <2>3. Cur(q).addr # a
      BY <1>3, <1>8, <2>1 DEF RpcOpen
    <2>4. db'[Cur(q).addr] = db[Cur(q).addr]
      BY <1>5, <2>2, <2>3
    <2>5. QED
      BY <1>4, <1>8, <2>1, <2>2, <2>4 DEF ExactInv, HandlersExact
  <1>9. HandlersExact'
    BY <1>8 DEF HandlersExact
  <1>10. ProducerExact'
    <2>1. \A i \in DOMAIN writes : writes[i].addr \in Addr
      BY <1>1, WritesType
    <2>2. \A i \in DOMAIN writes : writes[i].addr \notin contended' =>
             writes[i].addr # a /\ writes[i].addr \notin contended
      BY <1>3 DEF ProducerOpen
    <2>3. stage = "store" => Head(writes).addr \in Addr /\ 1 \in DOMAIN writes /\ Head(writes) = writes[1]
      BY <1>1, <2>1 DEF WorkOK
    <2>4. stage = "saveNonce" /\ sender \notin contended' => sender # a /\ sender \notin contended
      BY <1>3 DEF ProducerOpen
    <2>5. sender \in Addr
      BY <1>1 DEF WorkOK
    <2>6. UNCHANGED <<writes, stage, sender, copy>>
      BY <1>3 DEF workVars
    <2> HIDE DEF a
    <2>7. QED
      BY <1>5, <2>1, <2>2, <2>3, <2>4, <2>5, <2>6 DEF ExactInv, ProducerExact
  <1>11. QED
    BY <1>7, <1>9, <1>10

\* A step of a handler keeps everything exact.
LEMMA HandlerExact ==
  ASSUME ExactInv, NEW p \in Procs, Handler(p)
  PROVE  UncontendedExact' /\ HandlersExact' /\ ProducerExact'
  <1>1. TypeOK /\ UNCHANGED workVars
    BY TypeParts DEF ExactInv, Handler
  <1>2. pc[p] # "store" => UNCHANGED ghostVars
    BY DEF Handler
  <1>3. CASE Arrive(p)
    <2>1. PICK r : /\ Receive(p, r)
                   /\ pc' = pc \/ pc' = [pc EXCEPT ![p] = "run"]
      BY <1>1, <1>3, ArriveFrame
    <2>2. UNCHANGED <<db, next, rec>> /\ pc[p] = "idle" /\ pc'[p] \notin {"load", "store"}
      BY <1>1, <2>1 DEF Receive, regVars, TypeOK
    <2>3. QED
      BY <1>1, <1>2, <1>3, <2>2, ArriveControl, ExactFrame DEF OthersStay
  <1>4. CASE Debit(p) \/ Credit(p)
    BY <1>1, <1>2, <1>4, OpenExact DEF Debit, Credit, At
  <1>5. CASE LoadAccount(p)
    BY <1>1, <1>2, <1>5, LoadExact DEF LoadAccount
  <1>6. CASE StoreAccount(p)
    BY <1>6, StoreExact
  <1>7. CASE /\ Execute(p)
             /\ ~Debit(p) /\ ~Credit(p) /\ ~LoadAccount(p) /\ ~StoreAccount(p)
    BY <1>1, <1>2, <1>7, ExecuteElsewhere, ExecuteOthers, ExactFrame
  <1>8. QED
    BY <1>3, <1>4, <1>5, <1>6, <1>7 DEF Handler

\* The producer's SaveAccount of a balance, in the same way.
LEMMA StoreRecordExact ==
  ASSUME ExactInv, StoreRecord
  PROVE  UncontendedExact' /\ HandlersExact' /\ ProducerExact'
  <1> DEFINE w == Head(writes)
             a == w.addr
             others == Tail(writes)
  <1>1. TypeOK /\ WorkOK /\ stage = "store"
    BY TypeParts DEF ExactInv, StoreRecord
  <1>2. /\ writes \in Seq(WriteType) /\ w = writes[1] /\ 1 \in DOMAIN writes
        /\ \A i \in DOMAIN others : others[i] = writes[i + 1] /\ i + 1 \in DOMAIN writes
    BY <1>1 DEF WorkOK
  <1>3. a \in Addr /\ w.delta \in Int /\ w.new \in Int
    BY <1>1, <1>2, WritesType
  <1>4. /\ db' = [db EXCEPT ![a] = [copy EXCEPT !["GORR"] = w.new]]
        /\ ideal' = [ideal EXCEPT ![a]["GORR"] = @ + w.delta]
        /\ contended \subseteq contended'
        /\ a \notin contended' => /\ \A i \in DOMAIN others : others[i].addr # a
                                  /\ \A q \in Procs : ~RpcOpen(q, a)
        /\ writes' = others /\ stage' \in {"nonce", "load"}
        /\ UNCHANGED <<pc, todo, next, rec>>
    BY DEF StoreRecord, regVars
  <1>5. \A b \in Addr : b # a => db'[b] = db[b] /\ ideal'[b] = ideal[b]
    BY <1>1, <1>3, <1>4 DEF TypeOK, WorkOK
  <1>6. a \notin contended' => db'[a] = ideal'[a]
    <2> HAVE a \notin contended'
    <2>1. a \notin contended
      BY <1>4
    <2>2. db[a] = ideal[a] /\ copy = db[a] /\ w.new = db[a]["GORR"] + w.delta
      BY <1>1, <1>2, <1>3, <2>1 DEF ExactInv, UncontendedExact, ProducerExact
    <2>3. db'[a] = [db[a] EXCEPT !["GORR"] = db[a]["GORR"] + w.delta]
      BY <1>1, <1>3, <1>4, <2>2 DEF TypeOK
    <2>4. ideal'[a] = [ideal[a] EXCEPT !["GORR"] = ideal[a]["GORR"] + w.delta]
      BY <1>1, <1>3, <1>4 DEF WorkOK
    <2>5. QED
      BY <2>2, <2>3, <2>4
  <1>7. UncontendedExact'
    BY <1>4, <1>5, <1>6 DEF ExactInv, UncontendedExact
  <1>8. HandlersExact'
    <2>1. ASSUME NEW q \in Procs, pc[q] \in {"load", "store"}, Cur(q).addr \notin contended'
          PROVE  db'[Cur(q).addr] = db[Cur(q).addr] /\ Cur(q).addr \notin contended
      BY <1>1, <1>4, <1>5, <2>1, StoreTarget DEF RpcOpen
    <2>2. \A q \in Procs : Cur(q)' = Cur(q) /\ Change(q)' = Change(q)
      BY <1>4 DEF Cur, Change
    <2>3. QED
      BY <1>4, <2>1, <2>2 DEF ExactInv, HandlersExact
  <1>9. ProducerExact'
    <2>1. ASSUME NEW i \in DOMAIN others, others[i].addr \notin contended'
          PROVE  others[i].new = db'[others[i].addr]["GORR"] + others[i].delta
      <3>1. /\ others[i] = writes[i + 1] /\ i + 1 \in DOMAIN writes
            /\ others[i].addr # a /\ others[i].addr \notin contended
        BY <1>2, <1>4, <2>1
      <3>2. others[i].addr \in Addr
        BY <1>1, <3>1, WritesType
      <3>3. db'[others[i].addr] = db[others[i].addr]
        BY <1>5, <3>1, <3>2
      <3>4. QED
        BY <3>1, <3>3 DEF ExactInv, ProducerExact
    <2>2. QED
      BY <1>4, <2>1 DEF ProducerExact
  <1>10. QED
    BY <1>7, <1>8, <1>9

\* A step of the producer keeps everything exact; IncreaseNonce writes back what
\* it read, which changes nothing unless the account is contended.
LEMMA ProducerStepExact ==
  ASSUME ExactInv, Producer
  PROVE  UncontendedExact' /\ HandlersExact' /\ ProducerExact'
  <1>1. TypeOK /\ WorkOK
    BY TypeParts DEF ExactInv
  <1>2. ASSUME UNCHANGED <<vars, ghostVars>> PROVE UncontendedExact' /\ HandlersExact'
    BY <1>2 DEF vars, regVars, ghostVars, ExactInv, UncontendedExact, HandlersExact, Cur, Change
  <1>3. CASE TakeTx
    BY <1>1, <1>2, <1>3 DEF TakeTx, WorkOK, ExactInv, ProducerExact
  <1>4. CASE ReadBalance
    <2> DEFINE leg == Head(legs)
               new == db[leg.addr]["GORR"] + leg.delta
               w   == [addr |-> leg.addr, delta |-> leg.delta, new |-> new]
    <2>1. writes' \in {<<>>, Append(writes, w)} /\ UNCHANGED <<vars, ghostVars>>
          /\ stage' \notin {"store", "saveNonce"}
      BY <1>4 DEF ReadBalance
    <2>2. w.new = db[w.addr]["GORR"] + w.delta
      OBVIOUS
    <2>3. writes \in Seq(WriteType)
      BY <1>1 DEF WorkOK
    <2>4. \A i \in DOMAIN writes' : writes'[i] = w \/ (i \in DOMAIN writes /\ writes'[i] = writes[i])
      <3> HIDE DEF w
      <3> QED BY <2>1, <2>3
    <2>5. ProducerExact'
      <3>1. UNCHANGED <<db, contended>>
        BY <2>1 DEF vars, ghostVars
      <3> HIDE DEF w
      <3> QED BY <2>1, <2>2, <2>4, <3>1 DEF ExactInv, ProducerExact
    <2>6. QED
      BY <1>2, <2>1, <2>5
  <1>5. CASE LoadRecord
    <2>1. ProducerExact'
      BY <1>5 DEF LoadRecord, vars, ghostVars, ExactInv, ProducerExact
    <2>2. QED
      BY <1>2, <1>5, <2>1 DEF LoadRecord
  <1>6. CASE StoreRecord
    BY <1>6, StoreRecordExact
  <1>7. CASE LoadNonce
    <2>1. ProducerExact'
      BY <1>7 DEF LoadNonce, vars, ghostVars, ExactInv, ProducerExact
    <2>2. QED
      BY <1>2, <1>7, <2>1 DEF LoadNonce
  <1>8. CASE SaveNonce
    <2>1. sender \in Addr /\ writes = <<>>
      BY <1>1, <1>8 DEF SaveNonce, WorkOK
    <2>2. \A b \in Addr \ contended : db'[b] = db[b]
      BY <1>1, <1>8, <2>1 DEF SaveNonce, ExactInv, ProducerExact, TypeOK
    <2>3. UNCHANGED <<pc, todo, next, rec, ideal, contended, writes>> /\ stage' = "wait"
      BY <1>8 DEF SaveNonce, regVars, ghostVars
    <2>4. \A q \in Procs : pc[q] \in {"load", "store"} => Cur(q).addr \in Addr
      BY <1>1, StoreTarget
    <2>5. \A q \in Procs : Cur(q)' = Cur(q) /\ Change(q)' = Change(q)
      BY <2>3 DEF Cur, Change
    <2>6. HandlersExact'
      BY <2>2, <2>3, <2>4, <2>5 DEF ExactInv, HandlersExact
    <2>7. QED
      BY <2>1, <2>2, <2>3, <2>6 DEF ExactInv, UncontendedExact, ProducerExact
  <1>9. QED
    BY <1>3, <1>4, <1>5, <1>6, <1>7, <1>8 DEF Producer

\* ExactInv is inductive.
LEMMA NodeNextExact == ExactInv /\ [NodeNext]_nodeVars => ExactInv'
  <1> SUFFICES ASSUME ExactInv, [NodeNext]_nodeVars
               PROVE  UncontendedExact' /\ HandlersExact' /\ ProducerExact'
    BY NodeNextType DEF ExactInv
  <1>1. CASE NodeRestart
    BY <1>1 DEF NodeRestart, Restart, ghostVars, ExactInv, UncontendedExact,
                HandlersExact, ProducerExact
  <1>2. CASE UNCHANGED nodeVars
    BY <1>2 DEF nodeVars, vars, regVars, workVars, ghostVars, ExactInv,
                UncontendedExact, HandlersExact, ProducerExact, Cur, Change
  <1>3. QED
    BY <1>1, <1>2, HandlerExact, ProducerStepExact DEF NodeNext, NodeWait

\* Whatever handlers, blocks and restarts interleave, an account that nobody
\* wrote inside somebody else's operation holds what was paid in and out.
THEOREM UncontendedAccountsExact == NodeSpec => []UncontendedExact
  <1>1. NodeInit => ExactInv
    BY NodeInitType DEF NodeInit, Init, ExactInv, UncontendedExact, HandlersExact,
                        ProducerExact
  <1>2. ExactInv => UncontendedExact
    BY DEF ExactInv
  <1>3. QED
    BY <1>1, <1>2, NodeNextExact, PTL DEF NodeSpec

-----------------------------------------------------------------------------
(* What the producer still has to write *)

\* The changes in a list of legs or of writes; no transaction has more than three.
DeltaAt(s, i) == IF i \in 1..Len(s) THEN s[i].delta ELSE 0
Deltas(s) == DeltaAt(s, 1) + DeltaAt(s, 2) + DeltaAt(s, 3)

LEMMA DeltasType ==
  ASSUME NEW S, \A e \in S : e.delta \in Int, NEW s \in Seq(S)
  PROVE  (\A i \in Int : DeltaAt(s, i) \in Int) /\ Deltas(s) \in Int
  <1>1. \A i \in 1..Len(s) : s[i] \in S
    BY ElementOfSeq
  <1>2. \A i \in Int : DeltaAt(s, i) \in Int
    BY <1>1 DEF DeltaAt
  <1>3. DeltaAt(s, 1) \in Int /\ DeltaAt(s, 2) \in Int /\ DeltaAt(s, 3) \in Int
    BY <1>2
  <1>4. QED
    BY <1>2, <1>3 DEF Deltas

LEMMA NoDeltas == Deltas(<<>>) = 0
  BY DEF Deltas, DeltaAt

LEMMA DeltasOfTail ==
  ASSUME NEW S, \A e \in S : e.delta \in Int, NEW s \in Seq(S), s # <<>>, Len(s) <= 3
  PROVE  /\ Deltas(s) = Head(s).delta + Deltas(Tail(s))
         /\ Len(Tail(s)) = Len(s) - 1 /\ Tail(s) \in Seq(S)
  <1>1. /\ Len(s) \in Nat \ {0} /\ Head(s) = s[1] /\ Len(Tail(s)) = Len(s) - 1
        /\ \A i \in 1..Len(Tail(s)) : Tail(s)[i] = s[i + 1]
        /\ Tail(s) \in Seq(S)
    BY HeadTailProperties, LenProperties, EmptySeq
  <1>2. DeltaAt(s, 1) = Head(s).delta
    BY <1>1 DEF DeltaAt
  <1>3. ASSUME NEW i \in 1..2, NEW j \in 2..3, j = i + 1
        PROVE  DeltaAt(Tail(s), i) = DeltaAt(s, j)
    <2>1. i \in 1..Len(Tail(s)) <=> j \in 1..Len(s)
      BY <1>1, <1>3
    <2>2. QED
      BY <1>1, <1>3, <2>1 DEF DeltaAt
  <1>4. DeltaAt(Tail(s), 3) = 0
    BY <1>1 DEF DeltaAt
  <1>5. DeltaAt(Tail(s), 1) = DeltaAt(s, 2) /\ DeltaAt(Tail(s), 2) = DeltaAt(s, 3)
    BY <1>3
  <1>6. DeltaAt(s, 1) \in Int /\ DeltaAt(s, 2) \in Int /\ DeltaAt(s, 3) \in Int
    BY DeltasType
  <1>7. QED
    BY <1>1, <1>2, <1>4, <1>5, <1>6 DEF Deltas

LEMMA DeltasOfAppend ==
  ASSUME NEW S, \A e \in S : e.delta \in Int, NEW s \in Seq(S), Len(s) <= 2, NEW e \in S
  PROVE  /\ Deltas(Append(s, e)) = Deltas(s) + e.delta
         /\ Len(Append(s, e)) = Len(s) + 1 /\ Append(s, e) \in Seq(S)
  <1> DEFINE r == Append(s, e)
             n == Len(s)
  <1>1. /\ n \in Nat /\ n <= 2 /\ Len(r) = n + 1 /\ r[n + 1] = e
        /\ \A i \in 1..n : r[i] = s[i]
        /\ r \in Seq(S)
    <2>1. n \in Nat /\ n <= 2
      BY LenProperties
    <2>2. /\ r \in Seq(S) /\ Len(r) = n + 1 /\ r[n + 1] = e
          /\ \A i \in 1..n : r[i] = s[i]
      BY AppendProperties
    <2>3. QED
      BY <2>1, <2>2
  <1> HIDE DEF r
  <1>2. \A i \in 1..n : DeltaAt(r, i) = DeltaAt(s, i)
    BY <1>1 DEF DeltaAt
  <1>3. /\ DeltaAt(r, n + 1) = e.delta
        /\ \A i \in Int : (i > n => DeltaAt(s, i) = 0) /\ (i > n + 1 => DeltaAt(r, i) = 0)
    BY <1>1 DEF DeltaAt
  <1>4. DeltaAt(s, 1) \in Int /\ DeltaAt(s, 2) \in Int /\ DeltaAt(s, 3) \in Int
    BY DeltasType
  <1>5. e.delta \in Int
    OBVIOUS
  <1> HIDE DEF n
  <1>6. ASSUME n = 0 PROVE Deltas(r) = Deltas(s) + e.delta
    <2>1. DeltaAt(r, 1) = e.delta /\ DeltaAt(r, 2) = 0 /\ DeltaAt(r, 3) = 0
      BY <1>2, <1>3, <1>6
    <2>2. DeltaAt(s, 1) = 0 /\ DeltaAt(s, 2) = 0 /\ DeltaAt(s, 3) = 0
      BY <1>3, <1>6
    <2>3. Deltas(s) = 0
      BY <2>2 DEF Deltas
    <2>4. Deltas(r) = e.delta
      BY <1>5, <2>1 DEF Deltas
    <2>5. QED
      BY <1>5, <2>3, <2>4
  <1>7. ASSUME n = 1 PROVE Deltas(r) = Deltas(s) + e.delta
    <2>1. DeltaAt(r, 1) = DeltaAt(s, 1) /\ DeltaAt(r, 2) = e.delta /\ DeltaAt(r, 3) = 0
      BY <1>2, <1>3, <1>7
    <2>2. DeltaAt(s, 2) = 0 /\ DeltaAt(s, 3) = 0
      BY <1>3, <1>7
    <2>3. QED
      BY <1>4, <1>5, <2>1, <2>2 DEF Deltas
  <1>8. ASSUME n = 2 PROVE Deltas(r) = Deltas(s) + e.delta
    <2>1. DeltaAt(r, 1) = DeltaAt(s, 1) /\ DeltaAt(r, 2) = DeltaAt(s, 2) /\ DeltaAt(r, 3) = e.delta
      BY <1>2, <1>3, <1>8
    <2>2. DeltaAt(s, 3) = 0
      BY <1>3, <1>8
    <2>3. QED
      BY <1>4, <1>5, <2>1, <2>2 DEF Deltas
  <1>9. Deltas(r) = Deltas(s) + e.delta
    <2>1. n = 0 \/ n = 1 \/ n = 2
      BY <1>1
    <2>2. QED
      BY <2>1, <1>6, <1>7, <1>8
  <1>10. QED
    BY <1>1, <1>9 DEF r, n

\* What a transaction takes from its sender it gives to the receiver and the treasury.
LEMMA LegsBalance ==
  ASSUME NEW tx \in BlockTxs
  PROVE  Len(LegsOf(tx)) <= 3 /\ Deltas(LegsOf(tx)) = 0
  <1> DEFINE fee == (tx.value * treasuryFeeBps) \div bpsDenominator
  <1>1. tx \in BlockTx /\ tx.value \in Nat
    BY NodeAssumption DEF BlockTx
  <1>2. fee \in Int
    BY <1>1 DEF treasuryFeeBps, bpsDenominator
  <1> DEFINE v == tx.value
             three == <<Leg(tx.from, -v), Leg(tx.to, v - fee), Leg(Treasury, fee)>>
             two == <<Leg(tx.from, -v), Leg(tx.to, v)>>
  <1>3. /\ Len(three) = 3 /\ three[1].delta = -v /\ three[2].delta = v - fee /\ three[3].delta = fee
        /\ Len(two) = 2 /\ two[1].delta = -v /\ two[2].delta = v
    BY DEF Leg
  <1>4. LegsOf(tx) = IF tx.pays THEN three ELSE two
    BY DEF LegsOf
  <1> HIDE DEF three, two, fee
  <1>5. DeltaAt(three, 1) = -v /\ DeltaAt(three, 2) = v - fee /\ DeltaAt(three, 3) = fee
    BY <1>3 DEF DeltaAt
  <1>6. DeltaAt(two, 1) = -v /\ DeltaAt(two, 2) = v /\ DeltaAt(two, 3) = 0
    BY <1>3 DEF DeltaAt
  <1>7. v \in Int
    BY <1>1
  <1> HIDE DEF v
  <1>8. Deltas(three) = 0
    BY <1>2, <1>5, <1>7 DEF Deltas
  <1>9. Deltas(two) = 0
    BY <1>6, <1>7 DEF Deltas
  <1>10. CASE tx.pays
    <2>1. LegsOf(tx) = three
      BY <1>4, <1>10
    <2>2. Len(three) <= 3
      BY <1>3
    <2>3. QED
      BY <1>8, <2>1, <2>2, Zenon
  <1>11. CASE ~tx.pays
    <2>1. LegsOf(tx) = two
      BY <1>4, <1>11
    <2>2. Len(two) <= 3
      BY <1>3
    <2>3. QED
      BY <1>9, <2>1, <2>2, Zenon
  <1>12. QED
    BY <1>10, <1>11

-----------------------------------------------------------------------------
(* What the node still owes *)

\* Clients call no method that creates or destroys funds.
Closed == Methods \cap {"adminMint", "adminMintToTreasury", "adminBurn"} = {}

\* The producer reads every balance a transaction changes before it writes one.
ProducerDue == IF stage \in {"load", "store"} THEN Deltas(writes) ELSE 0

ProducerPlan ==
    /\ Len(legs) + Len(writes) <= 3
    /\ stage = "read" => Deltas(legs) + Deltas(writes) = 0

ProducerOwes(t) == IF t = "GORR" THEN ProducerDue ELSE 0

HandlersOwe(t) == SumOver([p \in Procs |-> Due(todo[p], t)], Procs)

\* The history of the changes written, and the changes still to write, amount to
\* what there was.
AllAccounted ==
    Closed /\ restarts = 0 =>
        \A t \in Token :
            Total(ideal, t) + HandlersOwe(t) + ProducerOwes(t) = Total(InitialDb, t)

HandlersPlanned ==
    \A p \in Procs : InPlan(p) /\ (pc[p] # "idle" => req[p].method \in Methods)

FlowInv == NodeTypeOK /\ RatesInUse /\ HandlersPlanned /\ ProducerPlan /\ AllAccounted

LEMMA DeltasOfLists ==
  ASSUME WorkOK
  PROVE  /\ Deltas(legs) \in Int /\ Deltas(writes) \in Int
         /\ Len(legs) \in Nat /\ Len(writes) \in Nat
  <1>1. legs \in Seq(LegType) /\ writes \in Seq(WriteType)
    BY DEF WorkOK
  <1>2. (\A e \in LegType : e.delta \in Int) /\ (\A e \in WriteType : e.delta \in Int)
    BY DEF LegType, WriteType
  <1>3. Deltas(legs) \in Int
    BY <1>1, <1>2, DeltasType
  <1>4. Deltas(writes) \in Int
    BY <1>1, <1>2, DeltasType
  <1>5. QED
    BY <1>1, <1>3, <1>4, LenProperties

LEMMA FlowTypes ==
  ASSUME NodeTypeOK, NEW t \in Token
  PROVE  /\ Total(ideal, t) \in Int /\ HandlersOwe(t) \in Int /\ ProducerOwes(t) \in Int
         /\ \A p \in Procs : Due(todo[p], t) \in Nat
  <1>1. TypeOK /\ WorkOK
    BY TypeParts
  <1>2. Total(ideal, t) \in Int
    BY <1>1, TotalType DEF WorkOK, Account
  <1>3. \A p \in Procs : Due(todo[p], t) \in Nat
    BY <1>1, DueType DEF TypeOK
  <1>4. HandlersOwe(t) \in Int
    <2> DEFINE f == [p \in Procs |-> Due(todo[p], t)]
    <2>1. \A p \in Procs : f[p] \in Int
      BY <1>3
    <2> HIDE DEF f
    <2>2. SumOver(f, Procs) \in Int
      BY <2>1, AddressesAssumption, SumIsInt
    <2>3. QED
      BY <2>2 DEF HandlersOwe, f
  <1>5. ProducerOwes(t) \in Int
    BY <1>1, DeltasOfLists DEF ProducerOwes, ProducerDue
  <1>6. QED
    BY <1>2, <1>3, <1>4, <1>5

\* A step of one handler changes the sum by what it changes there.
LEMMA OweOfStep ==
  ASSUME NodeTypeOK, NodeTypeOK', NEW p \in Procs, OthersStay(p), NEW t \in Token
  PROVE  HandlersOwe(t)' = HandlersOwe(t) + (Due(todo'[p], t) - Due(todo[p], t))
  <1> DEFINE f == [q \in Procs |-> Due(todo[q], t)]
             g == [q \in Procs |-> Due(todo'[q], t)]
  <1>1. \A q \in Procs : f[q] \in Int
    BY FlowTypes
  <1>2. \A q \in Procs : g[q] \in Int
    BY TypeParts, DueType DEF NodeTypeOK, TypeOK
  <1>3. \A q \in Procs : q # p => g[q] = f[q]
    BY DEF OthersStay
  <1>4. f[p] = Due(todo[p], t) /\ g[p] = Due(todo'[p], t)
    OBVIOUS
  <1> HIDE DEF f, g
  <1>5. SumOver(g, Procs) = SumOver(f, Procs) + (g[p] - f[p])
    BY <1>1, <1>2, <1>3, AddressesAssumption, SumUpdate
  <1>6. SumOver(g, Procs) = SumOver(f, Procs) + (Due(todo'[p], t) - Due(todo[p], t))
    BY <1>4, <1>5
  <1>7. QED
    BY <1>6 DEF HandlersOwe, f, g

\* A step of the producer writes what it planned to: what the accounts hold
\* and what it still has to write stay the same together.
OwesAsBefore == \A t \in Token : Total(ideal', t) + ProducerOwes(t)' = Total(ideal, t) + ProducerOwes(t)

LEMMA ProducerFlow ==
  ASSUME NodeTypeOK, NodeTypeOK', ProducerPlan, Producer
  PROVE  ProducerPlan' /\ OwesAsBefore
  <1>1. WorkOK /\ TypeOK
    BY TypeParts
  <1>2. /\ Deltas(legs) \in Int /\ Deltas(writes) \in Int
        /\ Len(legs) \in Nat /\ Len(writes) \in Nat
        /\ legs \in Seq(LegType) /\ writes \in Seq(WriteType)
    BY <1>1, DeltasOfLists DEF WorkOK
  <1>3. (\A e \in LegType : e.delta \in Int) /\ (\A e \in WriteType : e.delta \in Int)
    BY DEF LegType, WriteType
  <1>4. Deltas(<<>>) = 0 /\ Len(<<>>) = 0
    BY NoDeltas
  <1>5. ASSUME ideal' = ideal, ProducerDue' = ProducerDue PROVE OwesAsBefore
    BY <1>5 DEF OwesAsBefore, ProducerOwes
  <1>6. CASE TakeTx
    <2>1. PICK tx \in BlockTxs : legs' = LegsOf(tx)
      BY <1>6 DEF TakeTx
    <2>2. stage = "wait" /\ stage' = "read" /\ writes' = writes /\ writes = <<>> /\ ideal' = ideal
      BY <1>1, <1>6 DEF TakeTx, WorkOK, ghostVars
    <2>3. Len(legs') <= 3 /\ Deltas(legs') = 0 /\ Deltas(writes') = 0 /\ Len(writes') = 0
      BY <1>4, <2>1, <2>2, LegsBalance
    <2>4. Len(legs') \in Nat
      BY <2>1, LegsType, LenProperties
    <2>5. ProducerPlan'
      BY <2>3, <2>4 DEF ProducerPlan
    <2>6. ProducerDue' = ProducerDue
      BY <2>2 DEF ProducerDue
    <2>7. QED
      BY <1>5, <2>2, <2>5, <2>6
  <1>7. CASE ReadBalance
    <2> DEFINE leg == Head(legs)
               new == db[leg.addr]["GORR"] + leg.delta
               w   == [addr |-> leg.addr, delta |-> leg.delta, new |-> new]
    <2>1. stage = "read" /\ legs # <<>> /\ ideal' = ideal /\ ProducerDue = 0
      BY <1>1, <1>7 DEF ReadBalance, WorkOK, ghostVars, ProducerDue
    <2>2. CASE new < 0
      <3>1. stage' = "wait" /\ legs' = <<>> /\ writes' = <<>>
        BY <1>7, <2>2 DEF ReadBalance
      <3>2. ProducerPlan' /\ ProducerDue' = 0
        BY <1>4, <3>1 DEF ProducerPlan, ProducerDue
      <3>3. QED
        BY <1>5, <2>1, <3>2
    <2>3. CASE ~(new < 0)
      <3>1. /\ legs' = Tail(legs) /\ writes' = Append(writes, w)
            /\ stage' = IF Tail(legs) = <<>> THEN "load" ELSE "read"
        BY <1>7, <2>3 DEF ReadBalance
      <3>2. Len(legs) + Len(writes) <= 3 /\ Deltas(legs) + Deltas(writes) = 0
        BY <2>1 DEF ProducerPlan
      <3>3. Len(legs) # 0
        BY <1>2, <2>1, EmptySeq
      <3>4. Len(legs) <= 3 /\ Len(writes) <= 2
        BY <1>2, <3>2, <3>3
      <3>5. /\ Deltas(legs) = leg.delta + Deltas(Tail(legs))
            /\ Len(Tail(legs)) = Len(legs) - 1 /\ Tail(legs) \in Seq(LegType)
        BY <1>2, <1>3, <2>1, <3>4, DeltasOfTail
      <3>6. leg \in LegType
        BY <1>2, <2>1, HeadTailProperties
      <3>7. w \in WriteType /\ w.delta = leg.delta
        BY <1>1, <3>6 DEF WriteType, LegType, TypeOK, Account, Token
      <3> HIDE DEF w, leg
      <3>8. Deltas(Append(writes, w)) = Deltas(writes) + w.delta /\ Len(Append(writes, w)) = Len(writes) + 1
        BY <1>2, <1>3, <3>4, <3>7, DeltasOfAppend
      <3>9. leg.delta \in Int /\ Deltas(Tail(legs)) \in Int
        BY <1>3, <3>5, <3>6, DeltasType
      <3>10. Deltas(legs') + Deltas(writes') = 0
        BY <1>2, <3>1, <3>2, <3>5, <3>7, <3>8, <3>9
      <3>11. Len(legs') + Len(writes') <= 3
        BY <1>2, <3>1, <3>2, <3>5, <3>8
      <3>12. ProducerPlan'
        BY <3>10, <3>11 DEF ProducerPlan
      <3>13. ProducerDue' = 0
        <4>1. CASE Tail(legs) = <<>>
          <5>1. Deltas(legs') = 0
            BY <1>4, <3>1, <4>1
          <5>2. Deltas(writes') \in Int
            BY <1>2, <3>1, <3>7, <3>8, <3>9
          <5>3. Deltas(writes') = 0
            BY <3>10, <5>1, <5>2
          <5>4. QED
            BY <5>3 DEF ProducerDue
        <4>2. CASE Tail(legs) # <<>>
          BY <3>1, <4>2 DEF ProducerDue
        <4>3. QED
          BY <4>1, <4>2
      <3>14. QED
        BY <1>5, <2>1, <3>12, <3>13
    <2>4. QED
      BY <2>2, <2>3
  <1>8. CASE LoadRecord
    <2>1. stage = "load" /\ stage' = "store" /\ UNCHANGED <<legs, writes, ideal>>
      BY <1>8 DEF LoadRecord, ghostVars
    <2>2. ProducerPlan' /\ ProducerDue' = ProducerDue
      BY <2>1 DEF ProducerPlan, ProducerDue
    <2>3. QED
      BY <1>5, <2>1, <2>2
  <1>9. CASE StoreRecord
    <2> DEFINE w == Head(writes)
               others == Tail(writes)
    <2>1. /\ stage = "store" /\ writes # <<>> /\ legs' = legs /\ writes' = others
          /\ stage' = IF others = <<>> THEN "nonce" ELSE "load"
          /\ ideal' = [ideal EXCEPT ![w.addr]["GORR"] = @ + w.delta]
      BY <1>1, <1>9 DEF StoreRecord, WorkOK
    <2>2. w \in WriteType
      BY <1>2, <2>1, HeadTailProperties
    <2>3. w.addr \in Addr /\ w.delta \in Int /\ "GORR" \in Token
      BY <2>2 DEF WriteType, Token
    <2>4. legs = <<>> /\ Len(legs) = 0
      BY <1>1, <1>4, <2>1 DEF WorkOK
    <2>5. Len(writes) <= 3
      BY <1>2, <2>4 DEF ProducerPlan
    <2>6. Deltas(writes) = w.delta + Deltas(others) /\ Len(others) = Len(writes) - 1 /\ others \in Seq(WriteType)
      BY <1>2, <1>3, <2>1, <2>5, DeltasOfTail
    <2>7. Deltas(others) \in Int
      BY <1>3, <2>6, DeltasType
    <2>8. ideal \in [Addr -> Account] /\ ideal' \in [Addr -> Account]
      BY TypeParts DEF NodeTypeOK, Account
    <2>9. \A t \in Token : Total(ideal', t) = Total(ideal, t) + (IF t = "GORR" THEN w.delta ELSE 0)
      <3> DEFINE a == w.addr
                 old == ideal[a]["GORR"]
                 v == old + w.delta
                 e == ideal'
      <3>1. old \in Int /\ v \in Int /\ e \in [Addr -> Account] /\ a \in Addr
        BY <2>3, <2>8 DEF Account
      <3>2. e = SetAt(ideal, a, "GORR", v)
        BY <2>1 DEF SetAt
      <3>3. v - old = w.delta
        BY <2>3, <3>1
      <3> HIDE DEF a, v, e, w
      <3>4. \A t \in Token : Total(e, t) = Total(ideal, t) + (IF t = "GORR" THEN v - ideal[a]["GORR"] ELSE 0)
        BY <2>3, <2>8, <3>1, <3>2, TotalOfWrite
      <3>5. QED
        BY <3>3, <3>4 DEF e
    <2>10. ProducerPlan'
      <3>1. Len(legs') = 0 /\ Len(writes') = Len(writes) - 1 /\ stage' # "read"
        BY <2>1, <2>4, <2>6
      <3>2. QED
        BY <1>2, <2>5, <3>1 DEF ProducerPlan
    <2>11. ProducerDue' = Deltas(others) /\ ProducerDue = Deltas(writes)
      <3>1. ProducerDue = Deltas(writes)
        BY <2>1 DEF ProducerDue
      <3>2. CASE others = <<>>
        BY <1>4, <2>1, <3>1, <3>2 DEF ProducerDue
      <3>3. CASE others # <<>>
        BY <2>1, <3>1, <3>3 DEF ProducerDue
      <3>4. QED
        BY <3>2, <3>3
    <2>12. OwesAsBefore
      <3>1. SUFFICES ASSUME NEW t \in Token
                     PROVE  Total(ideal', t) + ProducerOwes(t)' = Total(ideal, t) + ProducerOwes(t)
        BY DEF OwesAsBefore
      <3>2. Total(ideal, t) \in Int
        BY FlowTypes
      <3> HIDE DEF w, others
      <3>3. CASE t = "GORR"
        <4>1. ProducerOwes(t)' = Deltas(others) /\ ProducerOwes(t) = w.delta + Deltas(others)
          BY <2>6, <2>11, <3>3 DEF ProducerOwes
        <4>2. Total(ideal', t) = Total(ideal, t) + w.delta
          BY <2>9, <3>3
        <4>3. QED
          BY <2>3, <2>7, <3>2, <4>1, <4>2
      <3>4. CASE t # "GORR"
        <4>1. ProducerOwes(t)' = 0 /\ ProducerOwes(t) = 0
          BY <3>4 DEF ProducerOwes
        <4>2. Total(ideal', t) = Total(ideal, t) + 0
          BY <2>9, <3>4
        <4>3. QED
          BY <3>2, <4>1, <4>2
      <3>5. QED
        BY <3>3, <3>4
    <2>13. QED
      BY <2>10, <2>12
  <1>10. CASE LoadNonce
    <2>1. stage = "nonce" /\ stage' = "saveNonce" /\ UNCHANGED <<legs, writes, ideal>>
      BY <1>10 DEF LoadNonce, ghostVars
    <2>2. ProducerPlan' /\ ProducerDue' = ProducerDue
      BY <2>1 DEF ProducerPlan, ProducerDue
    <2>3. QED
      BY <1>5, <2>1, <2>2
  <1>11. CASE SaveNonce
    <2>1. stage = "saveNonce" /\ stage' = "wait" /\ UNCHANGED <<legs, writes, ideal>>
      BY <1>11 DEF SaveNonce, ghostVars
    <2>2. ProducerPlan' /\ ProducerDue' = ProducerDue
      BY <2>1 DEF ProducerPlan, ProducerDue
    <2>3. QED
      BY <1>5, <2>1, <2>2
  <1>12. QED
    BY <1>6, <1>7, <1>8, <1>9, <1>10, <1>11 DEF Producer

\* The plans of the other handlers stay what they are.
LEMMA OthersPlanned ==
  ASSUME HandlersPlanned, NEW p \in Procs, OthersStay(p),
         \A q \in Procs \ {p} : req'[q] = req[q],
         InPlan(p)', pc'[p] # "idle" => req'[p].method \in Methods
  PROVE  HandlersPlanned'
  <1>1. ASSUME NEW q \in Procs, q # p
        PROVE  InPlan(q)' /\ (pc'[q] # "idle" => req'[q].method \in Methods)
    <2>1. todo'[q] = todo[q] /\ pc'[q] = pc[q] /\ req'[q] = req[q]
      BY <1>1 DEF OthersStay
    <2>2. InPlan(q) /\ (pc[q] # "idle" => req[q].method \in Methods)
      BY DEF HandlersPlanned
    <2>3. QED
      BY <2>1, <2>2 DEF InPlan, PlaceFits, Cur
  <1>2. QED
    BY <1>1 DEF HandlersPlanned

\* A handler that starts owes nothing when there is no mint.
LEMMA ArriveFlow ==
  ASSUME RatesFair, FlowInv, NodeTypeOK', NEW p \in Procs, Handler(p), Arrive(p)
  PROVE  HandlersPlanned' /\ RatesInUse' /\ AllAccounted'
  <1>0. TypeOK /\ TypeOK' /\ WorkOK /\ RatesInUse /\ HandlersPlanned /\ AllAccounted /\ InPlan(p)
        /\ NodeTypeOK
    BY TypeParts DEF FlowInv, HandlersPlanned, NodeTypeOK
  <1>1. /\ InPlan(p)' /\ req'[p].method \in Methods
        /\ \A t \in Token : Due(todo[p], t) = 0 /\ Due(todo'[p], t) <= Mints(req'[p], t)
    BY <1>0, ArriveFunds DEF RatesInUse
  <1>2. PICK r : Receive(p, r)
    BY <1>0, ArriveFrame
  <1>3. req' = [req EXCEPT ![p] = r] /\ restarts' = restarts /\ pc[p] = "idle"
    BY <1>2 DEF Receive
  <1>4. \A q \in Procs \ {p} : req'[q] = req[q]
    BY <1>0, <1>3 DEF TypeOK
  <1>5. OthersStay(p)
    BY <1>0, ArriveControl
  <1>6. HandlersPlanned'
    BY <1>0, <1>1, <1>4, <1>5, OthersPlanned
  <1>7. RatesInUse'
    BY <1>0, ArriveRates
  <1>8. ideal' = ideal /\ stage' = stage /\ writes' = writes
    BY <1>3 DEF Handler, ghostVars, workVars
  <1>9. AllAccounted'
    <2>1. SUFFICES ASSUME Closed, restarts = 0, NEW t \in Token
                   PROVE  Total(ideal', t) + HandlersOwe(t)' + ProducerOwes(t)' = Total(InitialDb, t)
      BY <1>3 DEF AllAccounted
    <2>2. Total(ideal, t) + HandlersOwe(t) + ProducerOwes(t) = Total(InitialDb, t)
      BY <1>0, <2>1 DEF AllAccounted
    <2>3. Mints(req'[p], t) = 0
      BY <1>1, <2>1 DEF Mints, Closed
    <2>4. Due(todo'[p], t) \in Nat
      BY <1>0, DueType DEF TypeOK
    <2>5. Due(todo'[p], t) = 0 /\ Due(todo[p], t) = 0
      BY <1>1, <2>3, <2>4
    <2>6. HandlersOwe(t)' = HandlersOwe(t) + (Due(todo'[p], t) - Due(todo[p], t))
      BY <1>0, <1>5, OweOfStep
    <2>7. HandlersOwe(t) \in Int
      BY <1>0, FlowTypes
    <2>8. HandlersOwe(t)' = HandlersOwe(t)
      BY <2>5, <2>6, <2>7
    <2>9. ProducerOwes(t)' = ProducerOwes(t)
      BY <1>8 DEF ProducerOwes, ProducerDue
    <2>10. QED
      BY <1>8, <2>2, <2>8, <2>9
  <1>10. QED
    BY <1>6, <1>7, <1>9

\* The history of changes follows what a handler writes.
LEMMA IdealOfStep ==
  ASSUME NodeTypeOK, NodeTypeOK', NEW p \in Procs, Handler(p), Execute(p), NEW t \in Token
  PROVE  Total(ideal', t) = Total(ideal, t) + Written(p, t) /\ Written(p, t) \in Int
  <1>1. TypeOK /\ WorkOK
    BY TypeParts
  <1>2. ideal \in [Addr -> Account] /\ ideal' \in [Addr -> Account]
    BY DEF NodeTypeOK, Account
  <1>3. Total(ideal, t) \in Int
    BY <1>2, TotalType
  <1>4. CASE pc[p] # "store"
    <2>1. ideal' = ideal
      BY <1>4 DEF Handler, ghostVars
    <2>2. Written(p, t) = 0
      BY <1>4 DEF Written, StoreAccount
    <2>3. QED
      BY <1>3, <2>1, <2>2
  <1>5. CASE pc[p] = "store"
    <2> DEFINE a == Cur(p).addr
               tok == Cur(p).token
               m == Change(p)
               old == ideal[a][tok]
               v == old + m
               e == ideal'
    <2>1. a \in Addr /\ tok \in Token /\ m \in Int
      BY <1>1, <1>5, StoreTarget
    <2>2. ideal' = [ideal EXCEPT ![a][tok] = @ + m]
      BY <1>5 DEF Handler
    <2>3. StoreAccount(p)
      BY <1>5 DEF Execute, CheckFunds, Debit, Credit, LoadAccount, ReadSupply, WriteSupply,
                  ReadFees, WriteFees, MarshalMeta, PutMeta, RecordEthTx, CheckPaused,
                  RejectZeroTarget, Succeed, At
    <2>4. m = Moved(Cur(p))
      BY DEF Change, Moved
    <2>5. old \in Int /\ v \in Int /\ e \in [Addr -> Account]
      BY <1>2, <2>1 DEF Account
    <2>6. e = SetAt(ideal, a, tok, v)
      BY <2>2 DEF SetAt
    <2>7. v - old = m
      BY <2>1, <2>5
    <2>8. Written(p, t) = IF t = tok THEN m ELSE 0
      BY <2>3, <2>4 DEF Written
    <2> HIDE DEF a, tok, m, v, e
    <2>9. Total(e, t) = Total(ideal, t) + (IF t = tok THEN v - ideal[a][tok] ELSE 0)
      BY <1>2, <2>1, <2>5, <2>6, TotalOfWrite
    <2>10. Total(e, t) = Total(ideal, t) + Written(p, t) /\ Written(p, t) \in Int
      BY <2>1, <2>7, <2>8, <2>9
    <2>11. QED
      BY <2>10 DEF e
  <1>6. QED
    BY <1>4, <1>5

\* A step of a handler credits what it owed, and owes what it debited.
LEMMA ExecuteFlow ==
  ASSUME RatesFair, FlowInv, NodeTypeOK', NEW p \in Procs, Handler(p), Execute(p)
  PROVE  HandlersPlanned' /\ RatesInUse' /\ AllAccounted'
  <1>0. TypeOK /\ TypeOK' /\ WorkOK /\ RatesInUse /\ HandlersPlanned /\ AllAccounted /\ InPlan(p)
        /\ NodeTypeOK
    BY TypeParts DEF FlowInv, HandlersPlanned, NodeTypeOK
  <1>1. req' = req /\ pc[p] # "idle"
    BY <1>0, ExecuteFrame
  <1>2. InPlan(p)' /\ \A t \in Token : req[p].method # "adminBurn" =>
                        Due(todo'[p], t) + Written(p, t) = Due(todo[p], t)
    BY <1>0, ExecutePlanned
  <1>3. OthersStay(p)
    BY <1>0, ExecuteOthers DEF OthersStay
  <1>4. req[p].method \in Methods
    BY <1>0, <1>1 DEF HandlersPlanned
  <1>5. HandlersPlanned'
    BY <1>0, <1>1, <1>2, <1>3, <1>4, OthersPlanned
  <1>6. RatesInUse'
    BY <1>0, ExecuteRates
  <1>7. restarts' = restarts
    BY DEF Execute, callVars, CheckFunds, Debit, Credit, LoadAccount, StoreAccount,
           ReadSupply, WriteSupply, ReadFees, WriteFees, MarshalMeta, PutMeta,
           RecordEthTx, CheckPaused, RejectZeroTarget, Succeed
  <1>8. stage' = stage /\ writes' = writes
    BY DEF Handler, workVars
  <1>9. AllAccounted'
    <2>1. SUFFICES ASSUME Closed, restarts = 0, NEW t \in Token
                   PROVE  Total(ideal', t) + HandlersOwe(t)' + ProducerOwes(t)' = Total(InitialDb, t)
      BY <1>7 DEF AllAccounted
    <2>2. Total(ideal, t) + HandlersOwe(t) + ProducerOwes(t) = Total(InitialDb, t)
      BY <1>0, <2>1 DEF AllAccounted
    <2>3. Due(todo'[p], t) + Written(p, t) = Due(todo[p], t)
      BY <1>2, <1>4, <2>1 DEF Closed
    <2>4. Due(todo'[p], t) \in Nat /\ Due(todo[p], t) \in Nat
      BY <1>0, DueType DEF TypeOK
    <2>5. Total(ideal', t) = Total(ideal, t) + Written(p, t) /\ Written(p, t) \in Int
      BY <1>0, IdealOfStep
    <2>6. HandlersOwe(t)' = HandlersOwe(t) + (Due(todo'[p], t) - Due(todo[p], t))
      BY <1>0, <1>3, OweOfStep
    <2>7. HandlersOwe(t) \in Int /\ Total(ideal, t) \in Int /\ ProducerOwes(t) \in Int
      BY <1>0, FlowTypes
    <2>8. ProducerOwes(t)' = ProducerOwes(t)
      BY <1>8 DEF ProducerOwes, ProducerDue
    <2>9. Total(ideal', t) + HandlersOwe(t)' = Total(ideal, t) + HandlersOwe(t)
      BY <2>3, <2>4, <2>5, <2>6, <2>7
    <2>10. QED
      BY <2>2, <2>8, <2>9
  <1>10. QED
    BY <1>5, <1>6, <1>9

\* FlowInv is inductive.
LEMMA NodeNextFlow ==
  ASSUME RatesFair, FlowInv, [NodeNext]_nodeVars
  PROVE  FlowInv'
  <1>0. /\ TypeOK /\ WorkOK /\ RatesInUse /\ HandlersPlanned /\ ProducerPlan /\ AllAccounted
        /\ NodeTypeOK /\ NodeTypeOK' /\ restarts \in Nat
    BY TypeParts, NodeNextType DEF FlowInv, TypeOK
  <1>1. ASSUME UNCHANGED <<disk, meta, pc, todo, req, snap>>
        PROVE  RatesInUse' /\ HandlersPlanned' /\ \A t : HandlersOwe(t)' = HandlersOwe(t)
    <2>1. RatesInUse' /\ \A t : HandlersOwe(t)' = HandlersOwe(t)
      BY <1>0, <1>1 DEF RatesInUse, HandlersOwe
    <2>2. HandlersPlanned'
      BY <1>0, <1>1 DEF HandlersPlanned, InPlan, PlaceFits, Cur
    <2>3. QED
      BY <2>1, <2>2
  <1>2. ASSUME NEW p \in Procs, Handler(p) PROVE FlowInv'
    <2>1. UNCHANGED <<stage, legs, writes>>
      BY <1>2 DEF Handler, workVars
    <2>2. ProducerPlan'
      BY <1>0, <2>1 DEF ProducerPlan
    <2>3. HandlersPlanned' /\ RatesInUse' /\ AllAccounted'
      BY <1>0, <1>2, ArriveFlow, ExecuteFlow DEF Handler
    <2>4. QED
      BY <1>0, <2>2, <2>3 DEF FlowInv
  <1>3. CASE Producer
    <2>1. UNCHANGED <<disk, meta, pc, todo, req, snap, restarts>>
      BY <1>3 DEF Producer, TakeTx, ReadBalance, LoadRecord, StoreRecord, LoadNonce, SaveNonce,
                  vars, memVars, regVars, callVars
    <2>2. ProducerPlan' /\ OwesAsBefore
      BY <1>0, <1>3, ProducerFlow
    <2>3. RatesInUse' /\ HandlersPlanned' /\ \A t : HandlersOwe(t)' = HandlersOwe(t)
      BY <1>1, <2>1
    <2>4. AllAccounted'
      <3>1. SUFFICES ASSUME Closed, restarts = 0, NEW t \in Token
                     PROVE  Total(ideal', t) + HandlersOwe(t)' + ProducerOwes(t)' = Total(InitialDb, t)
        BY <2>1 DEF AllAccounted
      <3>2. Total(ideal, t) + HandlersOwe(t) + ProducerOwes(t) = Total(InitialDb, t)
        BY <1>0, <3>1 DEF AllAccounted
      <3>3. Total(ideal', t) + ProducerOwes(t)' = Total(ideal, t) + ProducerOwes(t)
        BY <2>2 DEF OwesAsBefore
      <3>4. Total(ideal, t) \in Int /\ HandlersOwe(t) \in Int /\ ProducerOwes(t) \in Int
        BY <1>0, FlowTypes
      <3>5. Total(ideal', t) \in Int /\ ProducerOwes(t)' \in Int
        <4>1. ideal' \in [Addr -> Account]
          BY <1>0 DEF NodeTypeOK, Account
        <4>2. Deltas(writes') \in Int
          <5>1. writes' \in Seq(WriteType) /\ \A e \in WriteType : e.delta \in Int
            BY <1>0 DEF NodeTypeOK, WriteType
          <5>2. QED
            BY <5>1, DeltasType
        <4>3. ProducerOwes(t)' \in Int
          BY <4>2 DEF ProducerOwes, ProducerDue
        <4>4. QED
          BY <4>1, <4>3, TotalType
      <3>6. HandlersOwe(t)' = HandlersOwe(t)
        BY <2>3
      <3>7. QED
        BY <3>2, <3>3, <3>4, <3>5, <3>6
    <2>5. QED
      BY <1>0, <2>2, <2>3, <2>4 DEF FlowInv
  <1>4. CASE NodeRestart
    <2>1. /\ \A q \in Procs : pc'[q] = "idle" /\ todo'[q] = <<>>
          /\ meta' = disk /\ disk' = disk /\ snap' = snap /\ restarts' = restarts + 1
          /\ stage' = "wait" /\ legs' = <<>> /\ writes' = <<>>
      BY <1>4 DEF NodeRestart, Restart, regVars
    <2>2. RatesInUse'
      BY <1>0, <2>1 DEF RatesInUse
    <2>3. HandlersPlanned'
      BY <2>1, NothingLeft DEF HandlersPlanned, InPlan, PlaceFits, Planned
    <2>4. ProducerPlan'
      <3>1. Len(legs') = 0 /\ Len(writes') = 0
        BY <2>1
      <3>2. QED
        BY <2>1, <3>1 DEF ProducerPlan
    <2>5. AllAccounted'
      BY <1>0, <2>1 DEF AllAccounted
    <2>6. QED
      BY <1>0, <2>2, <2>3, <2>4, <2>5 DEF FlowInv
  <1>5. CASE UNCHANGED nodeVars
    <2>1. UNCHANGED <<disk, meta, pc, todo, req, snap, restarts, stage, legs, writes, ideal>>
      BY <1>5 DEF nodeVars, vars, memVars, regVars, callVars, workVars, ghostVars
    <2>2. RatesInUse' /\ HandlersPlanned' /\ \A t : HandlersOwe(t)' = HandlersOwe(t)
      BY <1>1, <2>1
    <2>3. ProducerPlan' /\ \A t : ProducerOwes(t)' = ProducerOwes(t)
      BY <1>0, <2>1 DEF ProducerPlan, ProducerOwes, ProducerDue
    <2>4. AllAccounted'
      BY <1>0, <2>1, <2>2, <2>3 DEF AllAccounted
    <2>5. QED
      BY <1>0, <2>2, <2>3, <2>4 DEF FlowInv
  <1>6. QED
    BY <1>2, <1>3, <1>4, <1>5 DEF NodeNext, NodeWait

LEMMA NothingOwed ==
  ASSUME \A p \in Procs : todo[p] = <<>>
  PROVE  \A t : HandlersOwe(t) = 0
  <1> TAKE t
  <1> DEFINE f == [p \in Procs |-> Due(todo[p], t)]
  <1>1. \A p \in Procs : f[p] = 0
    BY NothingLeft
  <1> HIDE DEF f
  <1>2. SumOver(f, Procs) = 0
    BY <1>1, AddressesAssumption, SumOfZeros
  <1>3. QED
    BY <1>2 DEF HandlersOwe, f

\* Requests and blocks together, interleaved in any way and for any number of
\* goroutines, keep the sum of every token over all accounts, as long as nobody
\* wrote an account inside somebody else's operation, the process did not die
\* and no client mints or burns; no fee rate may be above 100%.
THEOREM NodeKeepsFunds ==
  ASSUME RatesFair
  PROVE  NodeSpec => []FundsConserved
  <1>1. NodeInit => FlowInv
    <2>1. SUFFICES ASSUME NodeInit PROVE FlowInv
      OBVIOUS
    <2>2. NodeTypeOK
      BY <2>1, NodeInitType
    <2>3. /\ \A p \in Procs : pc[p] = "idle" /\ todo[p] = <<>> /\ snap[p] = InitialMeta
          /\ meta = InitialMeta /\ disk = InitialMeta
          /\ stage = "wait" /\ legs = <<>> /\ writes = <<>> /\ ideal = InitialDb
      BY <2>1 DEF NodeInit, Init
    <2>4. RatesInUse
      BY <2>3 DEF RatesInUse, RatesFair
    <2>5. HandlersPlanned
      BY <2>3, NothingLeft DEF HandlersPlanned, InPlan, PlaceFits, Planned
    <2>6. ProducerPlan
      <3>1. Len(legs) = 0 /\ Len(writes) = 0
        BY <2>3
      <3>2. QED
        BY <2>3, <3>1 DEF ProducerPlan
    <2>7. AllAccounted
      <3>1. \A t \in Token : Total(ideal, t) \in Int
        BY <2>2, FlowTypes
      <3>2. \A t : HandlersOwe(t) = 0 /\ ProducerOwes(t) = 0
        BY <2>3, NothingOwed DEF ProducerOwes, ProducerDue
      <3>3. QED
        BY <2>3, <3>1, <3>2 DEF AllAccounted
    <2>8. QED
      BY <2>2, <2>4, <2>5, <2>6, <2>7 DEF FlowInv
  <1>2. FlowInv /\ [NodeNext]_nodeVars => FlowInv'
    BY NodeNextFlow
  <1>3. FlowInv /\ UncontendedExact => FundsConserved
    <2>1. SUFFICES ASSUME FlowInv, UncontendedExact, Closed, contended = {}, restarts = 0,
                          stage = "wait", \A p \in Procs : pc[p] = "idle", NEW t \in Token
                   PROVE  Total(db, t) = Total(InitialDb, t)
      BY DEF FundsConserved, Closed
    <2>2. NodeTypeOK /\ HandlersPlanned /\ AllAccounted
      BY <2>1 DEF FlowInv
    <2>3. db = ideal
      <3>1. \A a \in Addr : db[a] = ideal[a]
        BY <2>1 DEF UncontendedExact
      <3>2. db \in [Addr -> Account] /\ ideal \in [Addr -> Account]
        BY <2>2 DEF NodeTypeOK, TypeOK, Account
      <3>3. QED
        BY <3>1, <3>2
    <2>4. \A p \in Procs : todo[p] = <<>>
      BY <2>1, <2>2 DEF HandlersPlanned, InPlan
    <2>5. HandlersOwe(t) = 0 /\ ProducerOwes(t) = 0
      BY <2>1, <2>4, NothingOwed DEF ProducerOwes, ProducerDue
    <2>6. Total(ideal, t) + HandlersOwe(t) + ProducerOwes(t) = Total(InitialDb, t)
      BY <2>1, <2>2 DEF AllAccounted
    <2>7. Total(ideal, t) \in Int
      BY <2>2, FlowTypes
    <2>8. QED
      BY <2>3, <2>5, <2>6, <2>7
  <1>4. QED
    BY UncontendedAccountsExact, <1>1, <1>2, <1>3, PTL DEF NodeSpec
=============================================================================
