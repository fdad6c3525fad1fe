--------------------------- MODULE RpcLedgerProofs ---------------------------
(* Theorems about RpcLedger for every set of processes, addresses, amounts *)
(* and fee rates.                                                          *)
EXTENDS RpcLedger, SequenceTheorems, TLAPS

-----------------------------------------------------------------------------
(* Types *)

\* A fee (rpc/fees.go) is an integer, whatever the rate.
LEMMA FeeType == ASSUME NEW amount \in Int, NEW bps \in Int
                 PROVE  CalculateFee(amount, bps) \in Int
  BY DEF CalculateFee

\* Every outcome of the conversion int64(x * 1e18) is an integer.
LEMMA FloatType == ASSUME NEW x \in Int, NEW w \in FloatWei(x)
                   PROVE  w \in Int
  BY NumbersAssumption DEF FloatWei

\* An operation built from a known kind, address, token and an integer is well typed.
LEMMA OpType == ASSUME NEW kind \in OpKind, NEW a \in Addr, NEW t \in Token,
                       NEW amt \in Int
                PROVE  NewOp(kind, a, t, amt) \in Op
  BY DEF NewOp, Op

\* The operations handlers use, for arguments of the right type.
LEMMA StepsType ==
  ASSUME NEW a \in Addr, NEW t \in Token, NEW amt \in Int
  PROVE  /\ Need(a, t, amt) \in Op /\ Sub(a, t, amt) \in Op /\ Add(a, t, amt) \in Op
         /\ \A kind \in OpKind : NewOp(kind, a, t, amt) \in Op
         /\ \A kind \in OpKind : Step(kind) \in Op
  <1>1. Zero \in Addr /\ "GORR" \in Token
    BY AddressesAssumption DEF Token
  <1>2. {"need", "sub", "add"} \subseteq OpKind
    BY DEF OpKind
  <1>3. QED
    BY <1>1, <1>2, OpType DEF Need, Sub, Add, Step

\* So is the request a client sends.
LEMMA RequestType == ASSUME NEW m \in Method, NEW from \in Addr, NEW to \in Addr,
                            NEW t \in Token, NEW amt \in Int
                     PROVE  NewRequest(m, from, to, t, amt) \in Request
  BY DEF NewRequest, Request

\* Receiving a request (HandleJSONRPC) keeps the types of what it records.
LEMMA ReceiveType ==
  ASSUME TypeOK, NEW p \in Procs, NEW r \in Request, Receive(p, r)
  PROVE  /\ db' \in [Addr -> Account] /\ disk' \in Meta
         /\ supply' \in [Token -> Int] /\ ethNonces' \in [Addr -> Nat]
         /\ ethTxs' \subseteq EthTx
         /\ next' \in [Procs -> Int] /\ rec' \in [Procs -> Account]
         /\ snap' \in [Procs -> Meta] /\ req' \in [Procs -> Request]
         /\ served' \in 0..MaxRequests /\ restarts' \in 0..MaxRestarts
         /\ touched' \in [Procs -> BOOLEAN]
         /\ began' \in [Procs -> [db : [Addr -> Account], fees : [Token -> Int],
                                  nonces : [Addr -> Nat]]]
         /\ owed' \in [Token -> Int] /\ ethLog' \in Seq(EthTx)
  <1>1. View \in [db : [Addr -> Account], fees : [Token -> Int], nonces : [Addr -> Nat]]
    BY DEF TypeOK, View, Meta
  <1>2. /\ req' \in [Procs -> Request] /\ touched' \in [Procs -> BOOLEAN]
        /\ began' \in [Procs -> [db : [Addr -> Account], fees : [Token -> Int],
                                 nonces : [Addr -> Nat]]]
    BY <1>1 DEF TypeOK, Receive
  <1>3. served' \in 0..MaxRequests
    BY NumbersAssumption DEF TypeOK, Receive
  <1>4. QED
    BY <1>2, <1>3 DEF TypeOK, Receive, regVars

\* A handler that starts has a sequence of well-typed operations to do.
LEMMA BeginType ==
  ASSUME TypeOK, NEW p \in Procs, NEW r \in Request, NEW ops \in Seq(Op),
         Begin(p, r, ops)
  PROVE  TypeOK'
  <1>1. Receive(p, r)
    BY DEF Begin
  <1>2. /\ pc' \in [Procs -> {"idle", "run", "load", "store", "supply", "fees",
                              "marshal", "put"}]
        /\ todo' \in [Procs -> Seq(Op)]
        /\ reply' \in [Procs -> {"none", "ok", "error"}]
        /\ meta' \in Meta /\ paused' \in BOOLEAN
    BY DEF TypeOK, Begin
  <1>3. \A q \in Procs : pc'[q] \notin {"idle", "run"} => todo'[q] # <<>>
    BY DEF TypeOK, Begin
  <1>4. QED
    BY <1>1, <1>2, <1>3, ReceiveType DEF TypeOK

\* A handler that answers at once keeps every type.
LEMMA AnswerType ==
  ASSUME TypeOK, NEW p \in Procs, NEW r \in Request, NEW result \in {"ok", "error"},
         Answer(p, r, result), meta' \in Meta, paused' \in BOOLEAN
  PROVE  TypeOK'
  <1>1. Receive(p, r)
    BY DEF Answer
  <1>2. /\ UNCHANGED <<pc, todo>>
        /\ reply' \in [Procs -> {"none", "ok", "error"}]
    BY DEF TypeOK, Answer
  <1>3. QED
    BY <1>1, <1>2, ReceiveType DEF TypeOK

\* A handler that starts or refuses, depending on its checks, keeps every type.
LEMMA BeginIfType ==
  ASSUME TypeOK, NEW p \in Procs, NEW r \in Request, NEW ops \in Seq(Op),
         NEW ok \in BOOLEAN, BeginIf(ok, p, r, ops)
  PROVE  TypeOK'
  <1>1. CASE Begin(p, r, ops)
    BY <1>1, BeginType
  <1>2. CASE Refuse(p, r)
    BY <1>2, AnswerType DEF Refuse, TypeOK
  <1>3. QED
    BY <1>1, <1>2 DEF BeginIf

\* Each of the ten handlers keeps every type up to its first store access.
LEMMA ArriveType ==
  ASSUME TypeOK, NEW p \in Procs, Arrive(p)
  PROVE  TypeOK'
  <1> USE AddressesAssumption, NumbersAssumption
  <1>1. CASE SendNative(p)
    <2>1. PICK from \in Senders, to \in Receivers, base \in Amounts :
            SendNative(p)!(from, to, base)
      BY <1>1 DEF SendNative
    <2> DEFINE amount == base * Unit
               fee    == CalculateFee(amount, meta.bps)
               split  == <<Sub(from, "GORR", amount), Add(to, "GORR", amount - fee)>>
               share  == IF fee > 0 THEN <<Add(Treasury, "GORR", fee),
                                           NewOp("feeAdd", Treasury, "GORR", fee)>>
                                    ELSE <<>>
               last   == <<Step("unlessPaused")>>
               r      == NewRequest("sendTransaction", from, to, "GORR", amount)
    <2>2. amount \in Int /\ fee \in Int
      BY FeeType DEF TypeOK, Meta
    <2>3. split \in Seq(Op) /\ share \in Seq(Op) /\ last \in Seq(Op)
      <3>1. /\ Sub(from, "GORR", amount) \in Op
            /\ Add(to, "GORR", amount - fee) \in Op
            /\ Add(Treasury, "GORR", fee) \in Op
            /\ NewOp("feeAdd", Treasury, "GORR", fee) \in Op
            /\ Step("unlessPaused") \in Op
        <4>1. from \in Addr /\ to \in Addr /\ Treasury \in Addr /\ "GORR" \in Token
          BY DEF Token
        <4>2. amount - fee \in Int
          BY <2>2
        <4>3. "feeAdd" \in OpKind /\ "unlessPaused" \in OpKind
          BY DEF OpKind
        <4> HIDE DEF amount, fee
        <4> QED BY <2>2, <4>1, <4>2, <4>3, StepsType
      <3> HIDE DEF amount, fee
      <3> QED BY <3>1
    <2>4. split \o share \o last \in Seq(Op)
      <3> HIDE DEF split, share, last
      <3> QED BY <2>3
    <2>5. r \in Request
      BY <2>2, RequestType DEF Method, Token
    <2>6. Begin(p, r, split \o share \o last)
      BY <2>1
    <2>7. QED
      BY <2>4, <2>5, <2>6, BeginType
  <1>2. CASE SendUSDCc(p)
    <2>1. PICK from \in Senders, to \in Receivers, base \in Amounts :
            SendUSDCc(p)!(from, to, base)
      BY <1>2 DEF SendUSDCc
    <2>2. PICK amount \in FloatWei(base) :
            BeginIf(~paused, p, NewRequest("sendUSDCc", from, to, "USDCc", amount), <<Sub(from, "USDCc", amount), Add(to, "USDCc", amount)>>)
      BY <2>1
    <2>3. amount \in Int
      BY FloatType
    <2>4. NewRequest("sendUSDCc", from, to, "USDCc", amount) \in Request
      BY <2>3, RequestType DEF Method, Token
    <2>5. Sub(from, "USDCc", amount) \in Op /\ Add(to, "USDCc", amount) \in Op
      BY <2>3, StepsType DEF OpKind, Token
    <2>6. <<Sub(from, "USDCc", amount), Add(to, "USDCc", amount)>> \in Seq(Op)
      BY <2>5
    <2>7. QED
      BY <2>2, <2>4, <2>6, BeginIfType
  <1>3. CASE AdminMint(p)
    <2>1. PICK from \in Senders, to \in Receivers, token \in Token, base \in Amounts :
            AdminMint(p)!(from, to, token, base)
      BY <1>3 DEF AdminMint
    <2>2. PICK amount \in FloatWei(base) :
            BeginIf(from = Admin, p, NewRequest("adminMint", from, to, token, amount), <<Add(to, token, amount), NewOp("supplyAdd", to, token, amount)>>)
      BY <2>1
    <2>3. amount \in Int
      BY FloatType
    <2>4. NewRequest("adminMint", from, to, token, amount) \in Request
      BY <2>3, RequestType DEF Method, Token
    <2>5. Add(to, token, amount) \in Op /\ NewOp("supplyAdd", to, token, amount) \in Op
      BY <2>3, StepsType DEF OpKind, Token
    <2>6. <<Add(to, token, amount), NewOp("supplyAdd", to, token, amount)>> \in Seq(Op)
      BY <2>5
    <2>7. QED
      BY <2>2, <2>4, <2>6, BeginIfType
  <1>4. CASE AdminBurn(p)
    <2>1. PICK from \in Senders, token \in Token, base \in Amounts :
            AdminBurn(p)!(from, token, base)
      BY <1>4 DEF AdminBurn
    <2>2. PICK amount \in FloatWei(base) :
            BeginIf(from = Admin, p, NewRequest("adminBurn", from, from, token, amount), <<Sub(from, token, amount), NewOp("supplySub", from, token, amount)>>)
      BY <2>1
    <2>3. amount \in Int
      BY FloatType
    <2>4. NewRequest("adminBurn", from, from, token, amount) \in Request
      BY <2>3, RequestType DEF Method, Token
    <2>5. Sub(from, token, amount) \in Op /\ NewOp("supplySub", from, token, amount) \in Op
      BY <2>3, StepsType DEF OpKind, Token
    <2>6. <<Sub(from, token, amount), NewOp("supplySub", from, token, amount)>> \in Seq(Op)
      BY <2>5
    <2>7. QED
      BY <2>2, <2>4, <2>6, BeginIfType
  <1>5. CASE AdminMintToTreasury(p)
    <2>1. PICK from \in Senders, token \in Token, base \in Amounts :
            AdminMintToTreasury(p)!(from, token, base)
      BY <1>5 DEF AdminMintToTreasury
    <2>2. PICK amount \in FloatWei(base) :
            BeginIf(from = Admin, p, NewRequest("adminMintToTreasury", from, Treasury, token, amount), <<Add(Treasury, token, amount)>>)
      BY <2>1
    <2>3. amount \in Int
      BY FloatType
    <2>4. NewRequest("adminMintToTreasury", from, Treasury, token, amount) \in Request
      BY <2>3, RequestType DEF Method, Token
    <2>5. Add(Treasury, token, amount) \in Op
      BY <2>3, StepsType DEF OpKind, Token
    <2>6. <<Add(Treasury, token, amount)>> \in Seq(Op)
      BY <2>5
    <2>7. QED
      BY <2>2, <2>4, <2>6, BeginIfType
  <1>6. CASE AdminForceTransfer(p)
    <2>1. PICK caller \in Senders, target \in Senders, token \in Token, base \in Amounts :
            AdminForceTransfer(p)!(caller, target, token, base)
      BY <1>6 DEF AdminForceTransfer
    <2> DEFINE amount    == base * Unit
               zeroCheck == IF token = "GORR" /\ target = Zero
                            THEN <<Step("fail")>> ELSE <<>>
               move      == <<Need(target, token, amount), Sub(target, token, amount),
                              Add(Treasury, token, amount)>>
               r         == NewRequest("adminForceTransfer", target, Treasury, token, amount)
    <2>2. amount \in Int
      OBVIOUS
    <2>3. Need(target, token, amount) \in Op /\ Sub(target, token, amount) \in Op
          /\ Add(Treasury, token, amount) \in Op /\ Step("fail") \in Op
      BY <2>2, StepsType DEF OpKind, Token
    <2>4. move \in Seq(Op) /\ zeroCheck \in Seq(Op)
      <3> HIDE DEF amount
      <3> QED BY <2>3
    <2>5. move \o zeroCheck \in Seq(Op)
      <3> HIDE DEF move, zeroCheck
      <3> QED BY <2>4
    <2>6. r \in Request
      BY <2>2, RequestType DEF Method, Token
    <2>7. BeginIf(caller = Admin /\ base > 0, p, r, move \o zeroCheck)
      BY <2>1
    <2>8. QED
      <3> HIDE DEF move, zeroCheck, r
      <3> QED BY <2>5, <2>6, <2>7, BeginIfType
  <1>7. CASE AdminWithdrawFees(p)
    <2>1. PICK from \in Senders, to \in Receivers, token \in Token :
            AdminWithdrawFees(p)!(from, to, token)
      BY <1>7 DEF AdminWithdrawFees
    <2>2. PICK amount \in {base * Unit : base \in Amounts} \cup {meta.fees[token]} :
            BeginIf(from = Admin /\ amount > 0 /\ meta.fees[token] >= amount, p,
                    NewRequest("adminWithdrawFees", from, to, token, amount),
                    <<Need(Treasury, token, amount), Sub(Treasury, token, amount),
                      Add(to, token, amount),
                      NewOp("feeSub", Treasury, token, amount)>>)
      BY <2>1
    <2>3. amount \in Int
      <3>1. meta.fees[token] \in Int
        BY DEF TypeOK, Meta
      <3>2. ASSUME NEW base \in Amounts PROVE base * Unit \in Int
        <4>1. base \in Int /\ Unit \in Int
          OBVIOUS
        <4>2. QED
          BY <4>1
      <3>3. QED
        BY <3>1, <3>2
    <2>4. NewRequest("adminWithdrawFees", from, to, token, amount) \in Request
      BY <2>3, RequestType DEF Method
    <2>5. Need(Treasury, token, amount) \in Op /\ Sub(Treasury, token, amount) \in Op
          /\ Add(to, token, amount) \in Op /\ NewOp("feeSub", Treasury, token, amount) \in Op
      BY <2>3, StepsType DEF OpKind
    <2>6. <<Need(Treasury, token, amount), Sub(Treasury, token, amount),
            Add(to, token, amount), NewOp("feeSub", Treasury, token, amount)>> \in Seq(Op)
      BY <2>5
    <2>7. QED
      BY <2>2, <2>4, <2>6, BeginIfType
  <1>8. CASE AdminSetFees(p)
    <2>1. PICK from \in Senders, bps \in FeeRates : AdminSetFees(p)!(from, bps)
      BY <1>8 DEF AdminSetFees
    <2>2. NewRequest("adminSetFees", from, from, "GORR", bps) \in Request
      BY RequestType DEF Method, Token
    <2>3. CASE from = Admin
      <3>0. meta' = [meta EXCEPT !.bps = bps] /\ paused' = paused
        BY <2>1, <2>3
      <3>1. meta' \in Meta /\ paused' \in BOOLEAN
        <4>1. bps \in Int
          OBVIOUS
        <4>2. QED
          BY <3>0, <4>1 DEF TypeOK, Meta
      <3>2. QED
        BY <2>1, <2>2, <2>3, <3>1, AnswerType
    <2>4. CASE from # Admin
      BY <2>1, <2>2, <2>4, AnswerType DEF TypeOK, Refuse
    <2>5. QED
      BY <2>3, <2>4
  <1>9. CASE AdminPauseTransfers(p)
    <2>1. PICK from \in Senders, flag \in BOOLEAN : AdminPauseTransfers(p)!(from, flag)
      BY <1>9 DEF AdminPauseTransfers
    <2>2. NewRequest("adminPauseTransfers", from, from, "GORR", 0) \in Request
      BY RequestType DEF Method, Token
    <2>3. CASE from = Admin
      BY <2>1, <2>2, <2>3, AnswerType DEF TypeOK
    <2>4. CASE from # Admin
      BY <2>1, <2>2, <2>4, AnswerType DEF TypeOK, Refuse
    <2>5. QED
      BY <2>3, <2>4
  <1>10. CASE EthSendRaw(p)
    <2>1. PICK from \in Senders, to \in Receivers, base \in Amounts, nonce \in 0..MaxNonce :
            EthSendRaw(p)!(from, to, base, nonce)
      BY <1>10 DEF EthSendRaw
    <2> DEFINE value == base * Unit
    <2>2. BeginIf(nonce = ethNonces[from] /\ to # Zero /\ value > 0, p,
                  [NewRequest("ethSendRaw", from, to, "GORR", value) EXCEPT !.nonce = nonce],
                  <<Sub(from, "GORR", value), Add(to, "GORR", value), Step("ethRecord")>>)
      BY <2>1
    <2>3. value \in Int /\ nonce \in Nat
      OBVIOUS
    <2> HIDE DEF value
    <2>4. [NewRequest("ethSendRaw", from, to, "GORR", value) EXCEPT !.nonce = nonce]
            \in Request
      <3>1. NewRequest("ethSendRaw", from, to, "GORR", value) \in Request
        BY <2>3, RequestType DEF Method, Token
      <3>2. QED
        BY <2>3, <3>1 DEF Request
    <2>5. Sub(from, "GORR", value) \in Op /\ Add(to, "GORR", value) \in Op
          /\ Step("ethRecord") \in Op
      BY <2>3, StepsType DEF OpKind, Token
    <2>6. <<Sub(from, "GORR", value), Add(to, "GORR", value),
            Step("ethRecord")>> \in Seq(Op)
      BY <2>5
    <2>7. QED
      BY <2>2, <2>4, <2>6, BeginIfType
  <1>11. QED
    BY <1>1, <1>2, <1>3, <1>4, <1>5, <1>6, <1>7, <1>8, <1>9, <1>10 DEF Arrive

\* The part of TypeOK that says where each handler is.
ControlOK ==
    /\ pc \in [Procs -> {"idle", "run", "load", "store", "supply", "fees",
                         "marshal", "put"}]
    /\ todo \in [Procs -> Seq(Op)]
    /\ \A p \in Procs : pc[p] \notin {"idle", "run"} => todo[p] # <<>>
    /\ reply \in [Procs -> {"none", "ok", "error"}]

\* The operation at the head of the list is well typed.
LEMMA CurType ==
  ASSUME TypeOK, NEW p \in Procs, todo[p] # <<>>
  PROVE  /\ Cur(p) \in Op /\ Tail(todo[p]) \in Seq(Op)
         /\ Cur(p).addr \in Addr /\ Cur(p).token \in Token /\ Cur(p).amt \in Int
  <1>1. todo[p] \in Seq(Op)
    BY DEF TypeOK
  <1>2. Cur(p) \in Op /\ Tail(todo[p]) \in Seq(Op)
    BY <1>1 DEF Cur
  <1>3. QED
    BY <1>2 DEF Op

\* Going on, finishing an operation and returning keep the control state typed.
LEMMA ControlType ==
  ASSUME TypeOK, NEW p \in Procs
  PROVE  /\ todo[p] # <<>> /\ Advance(p) => ControlOK'
         /\ \A result \in {"ok", "error"} : Return(p, result) => ControlOK'
         /\ todo[p] # <<>> =>
              \A place \in {"load", "store", "supply", "fees", "marshal", "put"} :
                 Goto(p, place) => ControlOK'
  <1>1. ASSUME todo[p] # <<>>, Advance(p) PROVE ControlOK'
    <2>1. Tail(todo[p]) \in Seq(Op)
      BY <1>1, CurType
    <2>2. /\ pc' \in [Procs -> {"idle", "run", "load", "store", "supply", "fees",
                                "marshal", "put"}]
          /\ todo' \in [Procs -> Seq(Op)]
          /\ reply' \in [Procs -> {"none", "ok", "error"}]
      BY <1>1, <2>1 DEF TypeOK, Advance
    <2>3. \A q \in Procs : pc'[q] \notin {"idle", "run"} => todo'[q] # <<>>
      BY <1>1 DEF TypeOK, Advance
    <2>4. QED
      BY <2>2, <2>3 DEF ControlOK
  <1>2. ASSUME NEW result \in {"ok", "error"}, Return(p, result) PROVE ControlOK'
    BY <1>2 DEF TypeOK, Return, ControlOK
  <1>3. ASSUME todo[p] # <<>>,
               NEW place \in {"load", "store", "supply", "fees", "marshal", "put"},
               Goto(p, place)
        PROVE  ControlOK'
    BY <1>3 DEF TypeOK, Goto, ControlOK
  <1>4. QED
    BY <1>1, <1>2, <1>3

\* Each store operation of a handler in flight keeps every type.
LEMMA ExecuteType ==
  ASSUME TypeOK, NEW p \in Procs, Execute(p)
  PROVE  TypeOK'
  <1> USE DEF storeVars, memVars, regVars, callVars, histVars
  <1>1. CASE CheckFunds(p)
    <2>1. ControlOK'
      BY <1>1, ControlType DEF CheckFunds, At
    <2>2. QED
      BY <1>1, <2>1 DEF TypeOK, ControlOK, CheckFunds
  <1>2. CASE Debit(p)
    <2>1. ControlOK'
      BY <1>2, ControlType DEF Debit, At
    <2>2. next' \in [Procs -> Int]
      <3>1. /\ db[Cur(p).addr][Cur(p).token] \in Int /\ Cur(p).amt \in Int
        BY <1>2, CurType DEF Debit, At, TypeOK, Account
      <3>2. QED
        BY <1>2, <3>1 DEF Debit, TypeOK
    <2>3. QED
      BY <1>2, <2>1, <2>2 DEF TypeOK, ControlOK, Debit
  <1>3. CASE Credit(p)
    <2>1. ControlOK'
      BY <1>3, ControlType DEF Credit, At
    <2>2. next' \in [Procs -> Int]
      <3>1. /\ db[Cur(p).addr][Cur(p).token] \in Int /\ Cur(p).amt \in Int
        BY <1>3, CurType DEF Credit, At, TypeOK, Account
      <3>2. QED
        BY <1>3, <3>1 DEF Credit, TypeOK
    <2>3. QED
      BY <1>3, <2>1, <2>2 DEF TypeOK, ControlOK, Credit
  <1>4. CASE LoadAccount(p)
    <2>1. todo[p] # <<>>
      BY <1>4 DEF LoadAccount, TypeOK
    <2>2. ControlOK'
      BY <1>4, <2>1, ControlType DEF LoadAccount
    <2>3. rec' \in [Procs -> Account]
      BY <1>4, <2>1, CurType DEF LoadAccount, TypeOK
    <2>4. QED
      BY <1>4, <2>2, <2>3 DEF TypeOK, ControlOK, LoadAccount
  <1>5. CASE StoreAccount(p)
    <2>1. todo[p] # <<>>
      BY <1>5 DEF StoreAccount, TypeOK
    <2>2. ControlOK'
      BY <1>5, <2>1, ControlType DEF StoreAccount
    <2>3. db' \in [Addr -> Account]
      <3>1. [rec[p] EXCEPT ![Cur(p).token] = next[p]] \in Account
        BY DEF TypeOK, Account
      <3>2. QED
        BY <1>5, <3>1 DEF StoreAccount, TypeOK
    <2>4. owed' \in [Token -> Int]
      BY <1>5, <2>1, CurType DEF StoreAccount, TypeOK
    <2>5. ethLog' \in Seq(EthTx)
      <3>1. SignedTx(req[p]) \in EthTx
        BY DEF TypeOK, Request, EthTx, SignedTx
      <3>2. QED
        BY <1>5, <3>1 DEF StoreAccount, TypeOK
    <2>6. touched' \in [Procs -> BOOLEAN]
      BY <1>5 DEF StoreAccount, TypeOK
    <2>7. QED
      BY <1>5, <2>2, <2>3, <2>4, <2>5, <2>6 DEF TypeOK, ControlOK, StoreAccount
  <1>6. CASE ReadSupply(p)
    <2>1. ControlOK'
      BY <1>6, ControlType DEF ReadSupply, At
    <2>2. next' \in [Procs -> Int]
      <3>1. supply[Cur(p).token] \in Int /\ Cur(p).amt \in Int
        BY <1>6, CurType DEF ReadSupply, At, TypeOK
      <3>2. QED
        BY <1>6, <3>1 DEF ReadSupply, TypeOK
    <2>3. QED
      BY <1>6, <2>1, <2>2 DEF TypeOK, ControlOK, ReadSupply
  <1>7. CASE WriteSupply(p)
    <2>1. todo[p] # <<>>
      BY <1>7 DEF WriteSupply, TypeOK
    <2>2. ControlOK'
      BY <1>7, <2>1, ControlType DEF WriteSupply
    <2>3. supply' \in [Token -> Int]
      BY <1>7 DEF WriteSupply, TypeOK
    <2>4. QED
      BY <1>7, <2>2, <2>3 DEF TypeOK, ControlOK, WriteSupply
  <1>8. CASE ReadFees(p)
    <2>1. ControlOK'
      BY <1>8, ControlType DEF ReadFees, At
    <2>2. next' \in [Procs -> Int] /\ owed' \in [Token -> Int]
      <3>1. meta.fees[Cur(p).token] \in Int /\ Cur(p).amt \in Int /\ Cur(p).token \in Token
        BY <1>8, CurType DEF ReadFees, At, TypeOK, Meta
      <3>2. next' \in [Procs -> Int]
        BY <1>8, <3>1 DEF ReadFees, TypeOK
      <3>3. owed' \in [Token -> Int]
        BY <1>8, <3>1 DEF ReadFees, TypeOK
      <3>4. QED
        BY <3>2, <3>3
    <2>3. QED
      BY <1>8, <2>1, <2>2 DEF TypeOK, ControlOK, ReadFees
  <1>9. CASE WriteFees(p)
    <2>1. todo[p] # <<>>
      BY <1>9 DEF WriteFees, TypeOK
    <2>2. ControlOK'
      BY <1>9, <2>1, ControlType DEF WriteFees
    <2>3. meta' \in Meta
      BY <1>9 DEF WriteFees, TypeOK, Meta
    <2>4. QED
      BY <1>9, <2>2, <2>3 DEF TypeOK, ControlOK, WriteFees
  <1>10. CASE MarshalMeta(p)
    <2>1. todo[p] # <<>>
      BY <1>10 DEF MarshalMeta, TypeOK
    <2>2. ControlOK'
      BY <1>10, <2>1, ControlType DEF MarshalMeta
    <2>3. QED
      BY <1>10, <2>2 DEF TypeOK, ControlOK, MarshalMeta
  <1>11. CASE PutMeta(p)
    <2>1. todo[p] # <<>>
      BY <1>11 DEF PutMeta, TypeOK
    <2>2. ControlOK'
      BY <1>11, <2>1, ControlType DEF PutMeta
    <2>3. QED
      BY <1>11, <2>2 DEF TypeOK, ControlOK, PutMeta
  <1>12. CASE RecordEthTx(p)
    <2>1. ControlOK'
      BY <1>12, ControlType DEF RecordEthTx, At
    <2>2. ethTxs' \subseteq EthTx /\ ethNonces' \in [Addr -> Nat]
      BY <1>12 DEF RecordEthTx, TypeOK, Request, EthTx, SignedTx
    <2>3. QED
      BY <1>12, <2>1, <2>2 DEF TypeOK, ControlOK, RecordEthTx
  <1>13. CASE CheckPaused(p)
    <2>1. ControlOK'
      BY <1>13, ControlType DEF CheckPaused, At
    <2>2. QED
      BY <1>13, <2>1 DEF TypeOK, ControlOK, CheckPaused
  <1>14. CASE RejectZeroTarget(p)
    <2>1. ControlOK'
      BY <1>14, ControlType DEF RejectZeroTarget
    <2>2. QED
      BY <1>14, <2>1 DEF TypeOK, ControlOK, RejectZeroTarget
  <1>15. CASE Succeed(p)
    <2>1. ControlOK'
      BY <1>15, ControlType DEF Succeed
    <2>2. QED
      BY <1>15, <2>1 DEF TypeOK, ControlOK, Succeed
  <1>16. QED
    BY <1>1, <1>2, <1>3, <1>4, <1>5, <1>6, <1>7, <1>8, <1>9, <1>10, <1>11, <1>12,
       <1>13, <1>14, <1>15 DEF Execute

\* The store as it is when the server starts is well typed.
LEMMA InitType == Init => TypeOK
  <1> SUFFICES ASSUME Init PROVE TypeOK
    OBVIOUS
  <1> USE AddressesAssumption, NumbersAssumption DEF Init
  <1>1. /\ InitialDb \in [Addr -> Account] /\ InitialMeta \in Meta
        /\ InitialDb[Zero] \in Account
    BY DEF Account, Meta
  <1>2. NoRequest \in Request
    BY DEF NoRequest, Request, Method, Token
  <1>3. View \in [db : [Addr -> Account], fees : [Token -> Int], nonces : [Addr -> Nat]]
    BY <1>1 DEF View, Meta
  <1>4. /\ db \in [Addr -> Account] /\ disk \in Meta /\ meta \in Meta
        /\ paused \in BOOLEAN /\ ethTxs \subseteq EthTx
    BY <1>1
  <1>8. supply \in [Token -> Int] /\ ethNonces \in [Addr -> Nat]
    OBVIOUS
  <1>5. ControlOK
    BY DEF ControlOK
  <1>6. /\ next \in [Procs -> Int] /\ rec \in [Procs -> Account]
        /\ snap \in [Procs -> Meta] /\ req \in [Procs -> Request]
        /\ served \in 0..MaxRequests /\ restarts \in 0..MaxRestarts
        /\ touched \in [Procs -> BOOLEAN] /\ ethLog \in Seq(EthTx)
    BY <1>1, <1>2
  <1>7. owed \in [Token -> Int]
    OBVIOUS
  <1>9. QED
    BY <1>3, <1>4, <1>5, <1>6, <1>7, <1>8 DEF TypeOK, ControlOK

\* A restart, which loads Meta and forgets the rest, keeps every type.
LEMMA RestartType ==
  ASSUME TypeOK, Restart
  PROVE  TypeOK'
  <1> USE DEF regVars, histVars
  <1>1. restarts' \in 0..MaxRestarts
    BY NumbersAssumption DEF TypeOK, Restart
  <1>2. ControlOK'
    BY DEF ControlOK, Restart
  <1>3. supply' \in [Token -> Int] /\ ethNonces' \in [Addr -> Nat]
    BY DEF Restart
  <1>4. meta' \in Meta /\ paused' \in BOOLEAN /\ ethTxs' \subseteq EthTx
    BY DEF TypeOK, Restart
  <1>5. QED
    BY <1>1, <1>2, <1>3, <1>4 DEF TypeOK, ControlOK, Restart

\* A step that changes nothing keeps every type.
LEMMA StutterType ==
  ASSUME TypeOK, UNCHANGED vars
  PROVE  TypeOK'
  BY DEF TypeOK, vars, memVars, regVars, callVars, histVars

\* TypeOK is inductive.
LEMMA NextType == TypeOK /\ [Next]_vars => TypeOK'
  BY ArriveType, ExecuteType, RestartType, StutterType DEF Next, Wait

\* Every reachable state is well typed: operations in flight name known
\* accounts, and a handler inside an operation still has it at hand.
THEOREM TypeCorrect == Spec => []TypeOK
  BY InitType, NextType, PTL DEF Spec

-----------------------------------------------------------------------------
(* Balances *)

\* A handler that is about to write an account holds no negative number: what
\* it computed when it checked the balance, and the record it loaded since.
InFlightNonNegative ==
    \A p \in Procs :
        /\ pc[p] \in {"load", "store"} => next[p] >= 0
        /\ pc[p] = "store" => \A t \in Token : rec[p][t] >= 0

BalanceInv == TypeOK /\ NonNegative /\ InFlightNonNegative

\* Receiving a request touches no account and no register, and a handler that
\* starts has a nonce to record only if it is the one expected.
LEMMA ArriveFrame ==
  ASSUME TypeOK, NEW p \in Procs, Arrive(p)
  PROVE  \E r : /\ Receive(p, r)
                /\ \/ pc' = pc
                   \/ /\ pc' = [pc EXCEPT ![p] = "run"]
                      /\ r.nonce = 0 \/ r.nonce = ethNonces[r.from]
  <1> USE DEF Begin, BeginIf, Refuse, Answer
  <1> DEFINE Framed(r) == /\ Receive(p, r)
                          /\ \/ pc' = pc
                             \/ /\ pc' = [pc EXCEPT ![p] = "run"]
                                /\ r.nonce = 0 \/ r.nonce = ethNonces[r.from]
  <1>1. ASSUME NEW r, NEW ops, NEW ok, BeginIf(ok, p, r, ops),
               ok => r.nonce = 0 \/ r.nonce = ethNonces[r.from]
        PROVE  Framed(r)
    BY <1>1
  <1>2. \A m, from, to, t, amt : NewRequest(m, from, to, t, amt).nonce = 0
    BY DEF NewRequest
  <1>3. CASE SendNative(p)
    <2>1. \E r : Receive(p, r) /\ pc' = [pc EXCEPT ![p] = "run"] /\ r.nonce = 0
      BY <1>2, <1>3 DEF SendNative
    <2>2. QED
      BY <2>1
  <1>4. CASE SendUSDCc(p)
    BY <1>1, <1>2, <1>4 DEF SendUSDCc
  <1>5. CASE AdminMint(p)
    BY <1>1, <1>2, <1>5 DEF AdminMint
  <1>6. CASE AdminBurn(p)
    BY <1>1, <1>2, <1>6 DEF AdminBurn
  <1>7. CASE AdminMintToTreasury(p)
    BY <1>1, <1>2, <1>7 DEF AdminMintToTreasury
  <1>8. CASE AdminForceTransfer(p)
    BY <1>1, <1>2, <1>8 DEF AdminForceTransfer
  <1>9. CASE AdminWithdrawFees(p)
    BY <1>1, <1>2, <1>9 DEF AdminWithdrawFees
  <1>10. CASE AdminSetFees(p)
    BY <1>10 DEF AdminSetFees
  <1>11. CASE AdminPauseTransfers(p)
    BY <1>11 DEF AdminPauseTransfers
  <1>12. CASE EthSendRaw(p)
    <2>1. PICK from \in Senders, to \in Receivers, base \in Amounts, nonce \in 0..MaxNonce :
            EthSendRaw(p)!(from, to, base, nonce)
      BY <1>12 DEF EthSendRaw
    <2> DEFINE r == [NewRequest("ethSendRaw", from, to, "GORR", base * Unit)
                       EXCEPT !.nonce = nonce]
    <2>2. r.nonce = nonce /\ r.from = from
      BY DEF NewRequest
    <2>3. CASE nonce = ethNonces[from]
      BY <2>1, <2>2, <2>3
    <2>4. CASE nonce # ethNonces[from]
      BY <2>1, <2>4
    <2>5. QED
      BY <2>3, <2>4
  <1>13. QED
    BY <1>3, <1>4, <1>5, <1>6, <1>7, <1>8, <1>9, <1>10, <1>11, <1>12 DEF Arrive

\* No handler changes a balance before its first store operation.
LEMMA ArriveBalance ==
  ASSUME BalanceInv, NEW p \in Procs, Arrive(p)
  PROVE  NonNegative' /\ InFlightNonNegative'
  <1>1. PICK r : /\ Receive(p, r)
                 /\ pc' = pc \/ pc' = [pc EXCEPT ![p] = "run"]
    BY ArriveFrame DEF BalanceInv
  <1>2. UNCHANGED <<db, next, rec>>
    BY <1>1 DEF Receive, regVars
  <1>3. QED
    BY <1>1, <1>2 DEF BalanceInv, TypeOK, NonNegative, InFlightNonNegative

\* SubBalance writes what its check left, AddBalance adds, and SetBalance writes
\* one of the two: none of them makes a balance negative.
LEMMA ExecuteBalance ==
  ASSUME BalanceInv, NEW p \in Procs, Execute(p)
  PROVE  NonNegative' /\ InFlightNonNegative'
  <1> USE DEF BalanceInv, TypeOK, storeVars, memVars, regVars, callVars, histVars
  <1>1. CASE Debit(p)
    <2>1. UNCHANGED <<db, rec>>
      BY <1>1 DEF Debit
    <2>2. \/ pc'[p] = "idle" /\ UNCHANGED next
          \/ /\ pc'[p] = "load" /\ next'[p] >= 0
             /\ \A q \in Procs : q # p => next'[q] = next[q]
      <3>1. Cur(p).amt \in Int /\ db[Cur(p).addr][Cur(p).token] \in Int
        BY <1>1, CurType DEF Debit, At, Account
      <3>2. QED
        BY <1>1, <3>1 DEF Debit, Return, Goto
    <2>3. \A q \in Procs : q # p => pc'[q] = pc[q]
      BY <1>1 DEF Debit, Return, Goto
    <2>4. QED
      BY <2>1, <2>2, <2>3 DEF NonNegative, InFlightNonNegative
  <1>2. CASE Credit(p)
    <2>1. UNCHANGED <<db, rec>>
      BY <1>2 DEF Credit
    <2>2. \/ pc'[p] = "run" /\ UNCHANGED next
          \/ /\ pc'[p] = "load" /\ next'[p] >= 0
             /\ \A q \in Procs : q # p => next'[q] = next[q]
      <3>1. /\ Cur(p).amt \in Int /\ db[Cur(p).addr][Cur(p).token] \in Int
            /\ db[Cur(p).addr][Cur(p).token] >= 0
        BY <1>2, CurType DEF Credit, At, Account, NonNegative
      <3>2. QED
        BY <1>2, <3>1 DEF Credit, Advance, Goto
    <2>3. \A q \in Procs : q # p => pc'[q] = pc[q]
      BY <1>2 DEF Credit, Advance, Goto
    <2>4. QED
      BY <2>1, <2>2, <2>3 DEF NonNegative, InFlightNonNegative
  <1>3. CASE LoadAccount(p)
    <2>1. /\ Cur(p).addr \in Addr /\ rec'[p] = db[Cur(p).addr]
          /\ pc'[p] = "store" /\ UNCHANGED <<db, next>>
          /\ \A q \in Procs : q # p => pc'[q] = pc[q] /\ rec'[q] = rec[q]
      BY <1>3, CurType DEF LoadAccount, Goto
    <2>2. \A t \in Token : rec'[p][t] >= 0
      BY <2>1 DEF NonNegative
    <2>3. next[p] >= 0
      BY <1>3 DEF LoadAccount, InFlightNonNegative
    <2>4. QED
      BY <2>1, <2>2, <2>3 DEF NonNegative, InFlightNonNegative
  <1>4. CASE StoreAccount(p)
    <2>1. /\ next[p] >= 0 /\ \A t \in Token : rec[p][t] >= 0
      BY <1>4 DEF StoreAccount, InFlightNonNegative
    <2>2. \A t \in Token : [rec[p] EXCEPT ![Cur(p).token] = next[p]][t] >= 0
      BY <2>1 DEF Account
    <2>3. NonNegative'
      BY <1>4, <2>2 DEF StoreAccount, NonNegative
    <2>4. InFlightNonNegative'
      BY <1>4 DEF StoreAccount, Advance, InFlightNonNegative
    <2>5. QED
      BY <2>3, <2>4
  <1>5. ASSUME /\ UNCHANGED <<db, rec>>
               /\ pc'[p] \notin {"load", "store"}
               /\ \A q \in Procs : q # p => pc'[q] = pc[q] /\ next'[q] = next[q]
        PROVE  NonNegative' /\ InFlightNonNegative'
    BY <1>5 DEF NonNegative, InFlightNonNegative
  <1> USE DEF Advance, Goto, Return
  <1>6. CASE CheckFunds(p)
    BY <1>5, <1>6 DEF CheckFunds
  <1>7. CASE ReadSupply(p)
    BY <1>5, <1>7 DEF ReadSupply
  <1>8. CASE WriteSupply(p)
    BY <1>5, <1>8 DEF WriteSupply
  <1>9. CASE ReadFees(p)
    BY <1>5, <1>9 DEF ReadFees
  <1>10. CASE WriteFees(p)
    BY <1>5, <1>10 DEF WriteFees
  <1>11. CASE MarshalMeta(p)
    BY <1>5, <1>11 DEF MarshalMeta
  <1>12. CASE PutMeta(p)
    BY <1>5, <1>12 DEF PutMeta
  <1>13. CASE RecordEthTx(p)
    BY <1>5, <1>13 DEF RecordEthTx
  <1>14. CASE CheckPaused(p)
    BY <1>5, <1>14 DEF CheckPaused
  <1>15. CASE RejectZeroTarget(p)
    BY <1>5, <1>15 DEF RejectZeroTarget
  <1>16. CASE Succeed(p)
    BY <1>5, <1>16 DEF Succeed
  <1>17. QED
    BY <1>1, <1>2, <1>3, <1>4, <1>6, <1>7, <1>8, <1>9, <1>10, <1>11, <1>12, <1>13,
       <1>14, <1>15, <1>16 DEF Execute

\* The accounts at the start are not negative, and no handler is in flight.
LEMMA InitBalance == Init => BalanceInv
  <1> SUFFICES ASSUME Init PROVE BalanceInv
    OBVIOUS
  <1>1. NonNegative
    BY AddressesAssumption DEF Init, NonNegative
  <1>2. InFlightNonNegative
    BY DEF Init, InFlightNonNegative
  <1>3. QED
    BY InitType, <1>1, <1>2 DEF BalanceInv

\* Balances and the values in flight stay non-negative together.
LEMMA NextBalance == BalanceInv /\ [Next]_vars => BalanceInv'
  <1> SUFFICES ASSUME BalanceInv, [Next]_vars PROVE NonNegative' /\ InFlightNonNegative'
    BY NextType DEF BalanceInv
  <1>1. CASE Restart
    BY <1>1 DEF Restart, BalanceInv, NonNegative, InFlightNonNegative
  <1>2. ASSUME NEW p \in Procs, Arrive(p) \/ Execute(p)
        PROVE  NonNegative' /\ InFlightNonNegative'
    BY <1>2, ArriveBalance, ExecuteBalance
  <1>3. CASE UNCHANGED vars
    BY <1>3 DEF vars, regVars, BalanceInv, NonNegative, InFlightNonNegative
  <1>4. QED
    BY <1>1, <1>2, <1>3 DEF Next, Wait

\* No balance is ever negative, for any number of concurrent handlers, any
\* amounts and fee rates, and any restarts.
THEOREM BalancesNonNegative == Spec => []NonNegative
  <1>1. BalanceInv => NonNegative
    BY DEF BalanceInv
  <1>2. QED
    BY InitBalance, NextBalance, <1>1, PTL DEF Spec

-----------------------------------------------------------------------------
(* Nonces of signed transactions *)

\* A transaction of a with nonce n is among the stored ones.
Stored(txs, a, n) == \E tx \in txs : tx.from = a /\ tx.nonce = n

\* The nonce in flight was the expected one when it was checked, and records
\* are only added while the process lives: every nonce below it is stored.
InFlightNonces ==
    \A p \in Procs : pc[p] # "idle" =>
        \A n \in 0..(req[p].nonce - 1) : Stored(ethTxs, req[p].from, n)

NonceInv == TypeOK /\ NonceGapFree /\ InFlightNonces

\* A signed transaction that passes the nonce check carries the expected nonce.
LEMMA ArriveNonce ==
  ASSUME NonceInv, NEW p \in Procs, Arrive(p)
  PROVE  NonceGapFree' /\ InFlightNonces'
  <1>1. PICK r : /\ Receive(p, r)
                 /\ \/ pc' = pc
                    \/ /\ pc' = [pc EXCEPT ![p] = "run"]
                       /\ r.nonce = 0 \/ r.nonce = ethNonces[r.from]
    BY ArriveFrame DEF NonceInv
  <1>2. /\ UNCHANGED <<ethTxs, ethNonces>> /\ pc[p] = "idle"
        /\ req' = [req EXCEPT ![p] = r]
    BY <1>1 DEF Receive
  <1>3. req'[p] = r /\ r \in Request
    <2>1. TypeOK'
      BY ArriveType DEF NonceInv
    <2>2. QED
      BY <1>2, <2>1 DEF TypeOK, NonceInv
  <1>4. NonceGapFree'
    BY <1>2 DEF NonceInv, NonceGapFree
  <1>5. ASSUME NEW q \in Procs, pc'[q] # "idle", NEW n \in 0..(req'[q].nonce - 1)
        PROVE  Stored(ethTxs', req'[q].from, n)
    <2>1. CASE q = p
      <3>1. pc'[p] # pc[p]
        BY <1>2, <1>5, <2>1
      <3>2. r.nonce = 0 \/ r.nonce = ethNonces[r.from]
        BY <1>1, <3>1
      <3>3. r.from \in Addr /\ r.nonce \in Nat
        BY <1>3 DEF Request
      <3>4. n \in 0..(ethNonces[r.from] - 1)
        BY <1>3, <1>5, <2>1, <3>2, <3>3
      <3>5. QED
        BY <1>2, <1>3, <2>1, <3>3, <3>4 DEF NonceInv, NonceGapFree, Stored
    <2>2. CASE q # p
      BY <1>1, <1>2, <1>5, <2>2 DEF NonceInv, TypeOK, InFlightNonces, Stored
    <2>3. QED
      BY <2>1, <2>2
  <1>6. QED
    BY <1>4, <1>5 DEF InFlightNonces

\* Recording a transaction keeps the nonces without a hole, whatever other
\* handlers recorded since its nonce was checked.
LEMMA ExecuteNonce ==
  ASSUME NonceInv, NEW p \in Procs, Execute(p)
  PROVE  NonceGapFree' /\ InFlightNonces'
  <1> USE DEF storeVars, memVars, callVars, regVars, histVars, At
  <1>1. CASE RecordEthTx(p)
    <2> DEFINE tx == SignedTx(req[p])
    <2>1. /\ ethTxs' = ethTxs \cup {tx} /\ pc[p] = "run" /\ UNCHANGED req
          /\ ethNonces' = [ethNonces EXCEPT ![req[p].from] = req[p].nonce + 1]
      BY <1>1 DEF RecordEthTx
    <2>2. /\ tx.from = req[p].from /\ tx.nonce = req[p].nonce
          /\ req[p].nonce \in Nat /\ req[p].from \in Addr
      BY DEF SignedTx, NonceInv, TypeOK, Request
    <2>3. \A a, n : Stored(ethTxs, a, n) => Stored(ethTxs', a, n)
      BY <2>1 DEF Stored
    <2>4. Stored(ethTxs', req[p].from, req[p].nonce)
      BY <2>1, <2>2 DEF Stored
    <2>5. \A n \in 0..(req[p].nonce - 1) : Stored(ethTxs, req[p].from, n)
      BY <2>1 DEF NonceInv, InFlightNonces
    <2>6. ASSUME NEW a \in Addr, NEW n \in 0..(ethNonces'[a] - 1)
          PROVE  Stored(ethTxs', a, n)
      <3>1. CASE a = req[p].from
        <4>1. ethNonces'[a] = req[p].nonce + 1
          BY <2>1, <3>1 DEF NonceInv, TypeOK
        <4>2. n = req[p].nonce \/ n \in 0..(req[p].nonce - 1)
          BY <2>2, <4>1
        <4>3. QED
          BY <2>3, <2>4, <2>5, <3>1, <4>2
      <3>2. CASE a # req[p].from
        <4>1. n \in 0..(ethNonces[a] - 1)
          BY <2>1, <3>2 DEF NonceInv, TypeOK
        <4>2. Stored(ethTxs, a, n)
          BY <4>1 DEF NonceInv, NonceGapFree, Stored
        <4>3. QED
          BY <2>3, <4>2
      <3>3. QED
        BY <3>1, <3>2
    <2>7. NonceGapFree'
      BY <2>6 DEF NonceGapFree, Stored
    <2>8. \A q \in Procs : pc'[q] # "idle" => pc[q] # "idle"
      BY <1>1, <2>1 DEF RecordEthTx, Advance
    <2>9. InFlightNonces'
      BY <2>1, <2>3, <2>8 DEF NonceInv, InFlightNonces
    <2>10. QED
      BY <2>7, <2>9
  <1>2. ASSUME /\ UNCHANGED <<ethTxs, ethNonces, req>>
               /\ \A q \in Procs : pc'[q] # "idle" => pc[q] # "idle"
        PROVE  NonceGapFree' /\ InFlightNonces'
    BY <1>2 DEF NonceInv, NonceGapFree, InFlightNonces, Stored
  <1> USE DEF Advance, Goto, Return, NonceInv, TypeOK
  <1>3. CASE CheckFunds(p)
    BY <1>2, <1>3 DEF CheckFunds
  <1>4. CASE Debit(p)
    BY <1>2, <1>4 DEF Debit
  <1>5. CASE Credit(p)
    BY <1>2, <1>5 DEF Credit
  <1>6. CASE LoadAccount(p)
    BY <1>2, <1>6 DEF LoadAccount
  <1>7. CASE StoreAccount(p)
    BY <1>2, <1>7 DEF StoreAccount
  <1>8. CASE ReadSupply(p)
    BY <1>2, <1>8 DEF ReadSupply
  <1>9. CASE WriteSupply(p)
    BY <1>2, <1>9 DEF WriteSupply
  <1>10. CASE ReadFees(p)
    BY <1>2, <1>10 DEF ReadFees
  <1>11. CASE WriteFees(p)
    BY <1>2, <1>11 DEF WriteFees
  <1>12. CASE MarshalMeta(p)
    BY <1>2, <1>12 DEF MarshalMeta
  <1>13. CASE PutMeta(p)
    BY <1>2, <1>13 DEF PutMeta
  <1>14. CASE CheckPaused(p)
    BY <1>2, <1>14 DEF CheckPaused
  <1>15. CASE RejectZeroTarget(p)
    BY <1>2, <1>15 DEF RejectZeroTarget
  <1>16. CASE Succeed(p)
    BY <1>2, <1>16 DEF Succeed
  <1>17. QED
    BY <1>1, <1>3, <1>4, <1>5, <1>6, <1>7, <1>8, <1>9, <1>10, <1>11, <1>12, <1>13,
       <1>14, <1>15, <1>16 DEF Execute

\* No nonce has been handed out at the start.
LEMMA InitNonce == Init => NonceInv
  <1> SUFFICES ASSUME Init PROVE NonceInv
    OBVIOUS
  <1>1. NonceGapFree
    BY DEF Init, NonceGapFree
  <1>2. InFlightNonces
    BY DEF Init, InFlightNonces
  <1>3. QED
    BY InitType, <1>1, <1>2 DEF NonceInv

\* The nonce invariant is inductive: a restart forgets nonces and handlers alike.
LEMMA NextNonce == NonceInv /\ [Next]_vars => NonceInv'
  <1> SUFFICES ASSUME NonceInv, [Next]_vars PROVE NonceGapFree' /\ InFlightNonces'
    BY NextType DEF NonceInv
  <1>1. CASE Restart
    <2>1. NonceGapFree'
      BY <1>1 DEF Restart, NonceGapFree
    <2>2. InFlightNonces'
      BY <1>1 DEF Restart, InFlightNonces
    <2>3. QED
      BY <2>1, <2>2
  <1>2. ASSUME NEW p \in Procs, Arrive(p) \/ Execute(p)
        PROVE  NonceGapFree' /\ InFlightNonces'
    BY <1>2, ArriveNonce, ExecuteNonce
  <1>3. CASE UNCHANGED vars
    BY <1>3 DEF vars, memVars, callVars, NonceInv, NonceGapFree, InFlightNonces, Stored
  <1>4. QED
    BY <1>1, <1>2, <1>3 DEF Next, Wait

\* The nonce an account is told to use next never leaves a hole behind it, for
\* any number of transactions racing through the unlocked window.
THEOREM NoncesGapFree == Spec => []NonceGapFree
  <1>1. NonceInv => NonceGapFree
    BY DEF NonceInv
  <1>2. QED
    BY InitNonce, NextNonce, <1>1, PTL DEF Spec

-----------------------------------------------------------------------------
(* The order of a handler's operations: what an error answer and a record of *)
(* a signed transaction mean, for every interleaving and every restart.      *)

\* Operations that write an account, operations that may end the handler with
\* an error, and operations that may follow a write.
Writing == {"sub", "add"}
MayFail == {"need", "sub", "unlessPaused", "fail"}
SafeOp == {op \in Op : op.kind \notin MayFail}

\* Operations of every handler but eth_sendRawTransaction.
PlainOp == {op \in Op : op.kind # "ethRecord"}

\* The two handlers that check too late.
ChecksLate(r) ==
    r.method = "sendTransaction" \/ (r.method = "adminForceTransfer" /\ r.from = Zero)

\* Nothing that may fail comes after a write.
ChecksFirst(ops) ==
    \A i, j \in DOMAIN ops : i < j /\ ops[i].kind \in Writing => ops[j].kind \notin MayFail

\* How the operations of request r begin.
Ordered(r, ops) ==
    /\ ChecksLate(r) \/ ChecksFirst(ops)
    /\ IF r.method = "ethSendRaw" THEN ops # <<>> /\ Head(ops).kind = "sub"
                                  ELSE ops \in Seq(PlainOp)

-----------------------------------------------------------------------------
(* Receiving a request *)

LEMMA KindOf ==
  ASSUME NEW kind, NEW a, NEW t, NEW amt
  PROVE  /\ NewOp(kind, a, t, amt).kind = kind /\ Step(kind).kind = kind
         /\ Need(a, t, amt).kind = "need" /\ Sub(a, t, amt).kind = "sub"
         /\ Add(a, t, amt).kind = "add"
  BY DEF NewOp, Step, Need, Sub, Add

LEMMA RequestOf ==
  ASSUME NEW m, NEW from, NEW to, NEW t, NEW amt
  PROVE  /\ NewRequest(m, from, to, t, amt).method = m
         /\ NewRequest(m, from, to, t, amt).from = from
  BY DEF NewRequest

\* The lists handlers begin with, but for sendTransaction's: of operations that
\* record no transaction, the checks first.
LEMMA WriteThenSafe ==
  ASSUME NEW r, r.method # "ethSendRaw", NEW a \in Op, NEW b \in Op,
         a.kind \in Writing, b.kind \notin MayFail \cup {"ethRecord"}
  PROVE  Ordered(r, <<a>>) /\ Ordered(r, <<a, b>>)
  <1>1. a \in PlainOp /\ b \in PlainOp
    BY DEF PlainOp, Writing
  <1>2. <<a>> \in Seq(PlainOp) /\ <<a, b>> \in Seq(PlainOp)
    BY <1>1
  <1>3. ChecksFirst(<<a>>) /\ ChecksFirst(<<a, b>>)
    BY DEF ChecksFirst
  <1>4. QED
    BY <1>2, <1>3 DEF Ordered

LEMMA CheckThenSafe ==
  ASSUME NEW r, r.method # "ethSendRaw", NEW a \in Op, NEW b \in Op, NEW c \in Op, NEW d \in Op,
         a.kind = "need", b.kind = "sub", c.kind = "add",
         d.kind \notin MayFail \cup {"ethRecord"}
  PROVE  Ordered(r, <<a, b, c>>) /\ Ordered(r, <<a, b, c, d>>)
  <1>1. a \in PlainOp /\ b \in PlainOp /\ c \in PlainOp /\ d \in PlainOp
    BY DEF PlainOp
  <1>2. <<a, b, c>> \in Seq(PlainOp) /\ <<a, b, c, d>> \in Seq(PlainOp)
    BY <1>1
  <1>3. ChecksFirst(<<a, b, c>>) /\ ChecksFirst(<<a, b, c, d>>)
    BY DEF ChecksFirst, Writing, MayFail
  <1>4. QED
    BY <1>2, <1>3 DEF Ordered

LEMMA SignedList ==
  ASSUME NEW r, r.method = "ethSendRaw", NEW a \in Op, NEW b \in Op, NEW c \in Op,
         a.kind = "sub", b.kind = "add", c.kind = "ethRecord"
  PROVE  Ordered(r, <<a, b, c>>)
  <1>1. ChecksFirst(<<a, b, c>>)
    BY DEF ChecksFirst, Writing, MayFail
  <1>2. <<a, b, c>> # <<>> /\ Head(<<a, b, c>>) = a
    OBVIOUS
  <1>3. QED
    BY <1>1, <1>2 DEF Ordered

\* A handler that starts, starts with an ordered list.
Starts(p) == \E r, ops : Begin(p, r, ops) /\ Ordered(r, ops)

\* One that answers at once has nothing to do.
Answers(p) == \E r, result : Answer(p, r, result)

LEMMA BeginIfOrdered ==
  ASSUME NEW p \in Procs, NEW ok \in BOOLEAN, NEW r, NEW ops, BeginIf(ok, p, r, ops),
         Ordered(r, ops)
  PROVE  Starts(p) \/ Answers(p)
  BY DEF BeginIf, Refuse, Starts, Answers

LEMMA ArriveOrdered ==
  ASSUME TypeOK, NEW p \in Procs, Arrive(p)
  PROVE  Starts(p) \/ Answers(p)
  <1> USE AddressesAssumption, NumbersAssumption
  <1>1. CASE SendNative(p)
    <2>1. PICK from \in Senders, to \in Receivers, base \in Amounts :
            SendNative(p)!(from, to, base)
      BY <1>1 DEF SendNative
    <2> DEFINE amount == base * Unit
               fee    == CalculateFee(amount, meta.bps)
               split  == <<Sub(from, "GORR", amount), Add(to, "GORR", amount - fee)>>
               share  == IF fee > 0 THEN <<Add(Treasury, "GORR", fee),
                                           NewOp("feeAdd", Treasury, "GORR", fee)>>
                                    ELSE <<>>
               last   == <<Step("unlessPaused")>>
               r      == NewRequest("sendTransaction", from, to, "GORR", amount)
    <2>2. amount \in Int /\ fee \in Int
      BY FeeType DEF TypeOK, Meta
    <2>3. /\ Sub(from, "GORR", amount) \in PlainOp
          /\ Add(to, "GORR", amount - fee) \in PlainOp
          /\ Add(Treasury, "GORR", fee) \in PlainOp
          /\ NewOp("feeAdd", Treasury, "GORR", fee) \in PlainOp
          /\ Step("unlessPaused") \in PlainOp
      <3>1. from \in Addr /\ to \in Addr /\ Treasury \in Addr /\ "GORR" \in Token
        BY DEF Token
      <3>2. amount - fee \in Int
        BY <2>2
      <3>3. "feeAdd" \in OpKind /\ "unlessPaused" \in OpKind
        BY DEF OpKind
      <3> HIDE DEF amount, fee
      <3>4. QED
        BY <2>2, <3>1, <3>2, <3>3, StepsType, KindOf DEF PlainOp
    <2>4. split \in Seq(PlainOp) /\ share \in Seq(PlainOp) /\ last \in Seq(PlainOp)
      <3> HIDE DEF amount, fee
      <3>1. QED
        BY <2>3
    <2>5. split \o share \o last \in Seq(PlainOp)
      <3> HIDE DEF split, share, last
      <3>1. QED
        BY <2>4
    <2>6. Begin(p, r, split \o share \o last)
      BY <2>1
    <2>7. r.method = "sendTransaction"
      BY RequestOf
    <2> HIDE DEF split, share, last, r
    <2>8. Ordered(r, split \o share \o last)
      BY <2>5, <2>7 DEF Ordered, ChecksLate
    <2>9. QED
      BY <2>6, <2>8 DEF Starts
  <1>2. CASE SendUSDCc(p)
    <2>0. PICK from \in Senders, to \in Receivers, base \in Amounts :
            SendUSDCc(p)!(from, to, base)
      BY <1>2 DEF SendUSDCc
    <2>1. PICK amount \in FloatWei(base) :
            BeginIf(~paused, p, NewRequest("sendUSDCc", from, to, "USDCc", amount),
                    <<Sub(from, "USDCc", amount), Add(to, "USDCc", amount)>>)
      BY <2>0
    <2>2. amount \in Int /\ from \in Addr /\ to \in Addr /\ "USDCc" \in Token
      BY FloatType DEF Token
    <2> DEFINE a == Sub(from, "USDCc", amount)
               b == Add(to, "USDCc", amount)
               r == NewRequest("sendUSDCc", from, to, "USDCc", amount)
    <2>3. a \in Op /\ b \in Op /\ a.kind = "sub" /\ b.kind = "add" /\ r.method = "sendUSDCc"
      <3>1. a \in Op /\ b \in Op
        BY <2>2, StepsType
      <3>2. a.kind = "sub" /\ b.kind = "add" /\ r.method = "sendUSDCc"
        BY DEF Sub, Add, NewOp, NewRequest
      <3>3. QED
        BY <3>1, <3>2
    <2>4. BeginIf(~paused, p, r, <<a, b>>) /\ (~paused) \in BOOLEAN
      BY <2>1
    <2> HIDE DEF a, b, r
    <2>5. Ordered(r, <<a, b>>)
      BY <2>3, WriteThenSafe DEF Writing, MayFail
    <2>6. QED
      BY <2>4, <2>5, BeginIfOrdered
  <1>3. CASE AdminMint(p)
    <2>0. PICK from \in Senders, to \in Receivers, token \in Token, base \in Amounts :
            AdminMint(p)!(from, to, token, base)
      BY <1>3 DEF AdminMint
    <2>1. PICK amount \in FloatWei(base) :
            BeginIf(from = Admin, p, NewRequest("adminMint", from, to, token, amount),
                    <<Add(to, token, amount), NewOp("supplyAdd", to, token, amount)>>)
      BY <2>0
    <2>2. amount \in Int /\ to \in Addr /\ "supplyAdd" \in OpKind
      BY FloatType DEF OpKind
    <2> DEFINE a == Add(to, token, amount)
               b == NewOp("supplyAdd", to, token, amount)
               r == NewRequest("adminMint", from, to, token, amount)
    <2>3. a \in Op /\ b \in Op /\ a.kind = "add" /\ b.kind = "supplyAdd" /\ r.method = "adminMint"
      BY <2>2, StepsType, KindOf, RequestOf
    <2>4. BeginIf(from = Admin, p, r, <<a, b>>) /\ (from = Admin) \in BOOLEAN
      BY <2>1
    <2> HIDE DEF a, b, r
    <2>5. Ordered(r, <<a, b>>)
      BY <2>3, WriteThenSafe DEF Writing, MayFail
    <2>6. QED
      BY <2>4, <2>5, BeginIfOrdered
  <1>4. CASE AdminBurn(p)
    <2>0. PICK from \in Senders, token \in Token, base \in Amounts :
            AdminBurn(p)!(from, token, base)
      BY <1>4 DEF AdminBurn
    <2>1. PICK amount \in FloatWei(base) :
            BeginIf(from = Admin, p, NewRequest("adminBurn", from, from, token, amount),
                    <<Sub(from, token, amount), NewOp("supplySub", from, token, amount)>>)
      BY <2>0
    <2>2. amount \in Int /\ from \in Addr /\ "supplySub" \in OpKind
      BY FloatType DEF OpKind
    <2> DEFINE a == Sub(from, token, amount)
               b == NewOp("supplySub", from, token, amount)
               r == NewRequest("adminBurn", from, from, token, amount)
    <2>3. a \in Op /\ b \in Op /\ a.kind = "sub" /\ b.kind = "supplySub" /\ r.method = "adminBurn"
      BY <2>2, StepsType, KindOf, RequestOf
    <2>4. BeginIf(from = Admin, p, r, <<a, b>>) /\ (from = Admin) \in BOOLEAN
      BY <2>1
    <2> HIDE DEF a, b, r
    <2>5. Ordered(r, <<a, b>>)
      BY <2>3, WriteThenSafe DEF Writing, MayFail
    <2>6. QED
      BY <2>4, <2>5, BeginIfOrdered
  <1>5. CASE AdminMintToTreasury(p)
    <2>0. PICK from \in Senders, token \in Token, base \in Amounts :
            AdminMintToTreasury(p)!(from, token, base)
      BY <1>5 DEF AdminMintToTreasury
    <2>1. PICK amount \in FloatWei(base) :
            BeginIf(from = Admin, p,
                    NewRequest("adminMintToTreasury", from, Treasury, token, amount),
                    <<Add(Treasury, token, amount)>>)
      BY <2>0
    <2>2. amount \in Int /\ Treasury \in Addr
      BY FloatType
    <2> DEFINE a == Add(Treasury, token, amount)
               r == NewRequest("adminMintToTreasury", from, Treasury, token, amount)
    <2>3. a \in Op /\ a.kind = "add" /\ r.method = "adminMintToTreasury"
      <3>1. a \in Op
        BY <2>2, StepsType
      <3>2. a.kind = "add" /\ r.method = "adminMintToTreasury"
        BY DEF Sub, Add, NewOp, NewRequest
      <3>3. QED
        BY <3>1, <3>2
    <2>4. BeginIf(from = Admin, p, r, <<a>>) /\ (from = Admin) \in BOOLEAN
      BY <2>1
    <2> HIDE DEF a, r
    <2>5. Ordered(r, <<a>>)
      BY <2>3, WriteThenSafe DEF Writing, MayFail
    <2>6. QED
      BY <2>4, <2>5, BeginIfOrdered
  <1>6. CASE AdminForceTransfer(p)
    <2>1. PICK caller \in Senders, target \in Senders, token \in Token, base \in Amounts :
            AdminForceTransfer(p)!(caller, target, token, base)
      BY <1>6 DEF AdminForceTransfer
    <2> DEFINE amount    == base * Unit
               zeroCheck == IF token = "GORR" /\ target = Zero
                            THEN <<Step("fail")>> ELSE <<>>
               a         == Need(target, token, amount)
               b         == Sub(target, token, amount)
               c         == Add(Treasury, token, amount)
               r         == NewRequest("adminForceTransfer", target, Treasury, token, amount)
    <2>2. amount \in Int /\ target \in Addr /\ Treasury \in Addr /\ "fail" \in OpKind
      BY DEF OpKind
    <2>3. /\ a \in Op /\ b \in Op /\ c \in Op /\ Step("fail") \in Op
          /\ a.kind = "need" /\ b.kind = "sub" /\ c.kind = "add" /\ Step("fail").kind = "fail"
          /\ r.method = "adminForceTransfer" /\ r.from = target
      <3> HIDE DEF amount
      <3>1. QED
        BY <2>2, StepsType, KindOf, RequestOf
    <2>4. /\ BeginIf(caller = Admin /\ base > 0, p, r, <<a, b, c>> \o zeroCheck)
          /\ (caller = Admin /\ base > 0) \in BOOLEAN
      BY <2>1
    <2>5. zeroCheck = <<>> \/ (zeroCheck = <<Step("fail")>> /\ target = Zero)
      OBVIOUS
    <2> HIDE DEF a, b, c, r, zeroCheck
    <2>6. <<a, b, c>> \in Seq(PlainOp) /\ zeroCheck \in Seq(PlainOp)
      <3>1. a \in PlainOp /\ b \in PlainOp /\ c \in PlainOp /\ Step("fail") \in PlainOp
        BY <2>3 DEF PlainOp
      <3>2. <<>> \in Seq(PlainOp) /\ <<Step("fail")>> \in Seq(PlainOp)
        BY <3>1
      <3>3. <<a, b, c>> \in Seq(PlainOp)
        BY <3>1
      <3>4. QED
        BY <2>5, <3>2, <3>3
    <2>7. <<a, b, c>> \o zeroCheck \in Seq(PlainOp)
      BY <2>6
    <2>8. Ordered(r, <<a, b, c>> \o zeroCheck)
      <3>1. CASE zeroCheck = <<>>
        <4>1. <<a, b, c>> \o zeroCheck = <<a, b, c>>
          BY <2>6, <3>1, ConcatEmptySeq
        <4>2. Ordered(r, <<a, b, c>>)
          <5>1. r.method # "ethSendRaw"
            BY <2>3
          <5>2. \E d \in Op : d.kind \notin MayFail \cup {"ethRecord"}
            BY <2>3 DEF MayFail
          <5>3. QED
            BY <2>3, <5>1, <5>2, CheckThenSafe
        <4>3. QED
          BY <4>1, <4>2
      <3>2. CASE target = Zero
        BY <2>3, <2>7, <3>2 DEF Ordered, ChecksLate
      <3>3. QED
        BY <2>5, <3>1, <3>2
    <2>9. QED
      BY <2>4, <2>8, BeginIfOrdered
  <1>7. CASE AdminWithdrawFees(p)
    <2>0. PICK from \in Senders, to \in Receivers, token \in Token :
            AdminWithdrawFees(p)!(from, to, token)
      BY <1>7 DEF AdminWithdrawFees
    <2>1. PICK amount \in {base * Unit : base \in Amounts} \cup {meta.fees[token]} :
            BeginIf(from = Admin /\ amount > 0 /\ meta.fees[token] >= amount, p,
                    NewRequest("adminWithdrawFees", from, to, token, amount),
                    <<Need(Treasury, token, amount), Sub(Treasury, token, amount),
                      Add(to, token, amount),
                      NewOp("feeSub", Treasury, token, amount)>>)
      BY <2>0
    <2>2. amount \in Int /\ to \in Addr /\ Treasury \in Addr /\ "feeSub" \in OpKind
      <3>1. meta.fees[token] \in Int
        BY DEF TypeOK, Meta
      <3>2. ASSUME NEW base \in Amounts PROVE base * Unit \in Int
        <4>1. base \in Int /\ Unit \in Int
          OBVIOUS
        <4>2. QED
          BY <4>1
      <3>3. QED
        BY <3>1, <3>2 DEF OpKind
    <2> DEFINE a == Need(Treasury, token, amount)
               b == Sub(Treasury, token, amount)
               c == Add(to, token, amount)
               d == NewOp("feeSub", Treasury, token, amount)
               r == NewRequest("adminWithdrawFees", from, to, token, amount)
    <2>3. /\ a \in Op /\ b \in Op /\ c \in Op /\ d \in Op
          /\ a.kind = "need" /\ b.kind = "sub" /\ c.kind = "add" /\ d.kind = "feeSub"
          /\ r.method = "adminWithdrawFees"
      BY <2>2, StepsType, KindOf, RequestOf
    <2>4. /\ BeginIf(from = Admin /\ amount > 0 /\ meta.fees[token] >= amount, p, r, <<a, b, c, d>>)
          /\ (from = Admin /\ amount > 0 /\ meta.fees[token] >= amount) \in BOOLEAN
      BY <2>1
    <2> HIDE DEF a, b, c, d, r
    <2>5. Ordered(r, <<a, b, c, d>>)
      BY <2>3, CheckThenSafe DEF MayFail
    <2>6. QED
      BY <2>4, <2>5, BeginIfOrdered
  <1>8. CASE AdminSetFees(p)
    BY <1>8 DEF AdminSetFees, Refuse, Answers
  <1>9. CASE AdminPauseTransfers(p)
    BY <1>9 DEF AdminPauseTransfers, Refuse, Answers
  <1>10. CASE EthSendRaw(p)
    <2>1. PICK from \in Senders, to \in Receivers, base \in Amounts, nonce \in 0..MaxNonce :
            EthSendRaw(p)!(from, to, base, nonce)
      BY <1>10 DEF EthSendRaw
    <2> DEFINE value == base * Unit
               r == [NewRequest("ethSendRaw", from, to, "GORR", value) EXCEPT !.nonce = nonce]
               a == Sub(from, "GORR", value)
               b == Add(to, "GORR", value)
               c == Step("ethRecord")
               ok == nonce = ethNonces[from] /\ to # Zero /\ value > 0
    <2>2. BeginIf(ok, p, r, <<a, b, c>>) /\ ok \in BOOLEAN
      BY <2>1
    <2>3. value \in Int /\ from \in Addr /\ to \in Addr /\ "GORR" \in Token /\ "ethRecord" \in OpKind
      BY DEF Token, OpKind
    <2> HIDE DEF value
    <2>4. /\ a \in Op /\ b \in Op /\ c \in Op /\ a.kind = "sub" /\ b.kind = "add"
          /\ c.kind = "ethRecord"
      BY <2>3, StepsType, KindOf
    <2>5. r.method = "ethSendRaw"
      BY DEF NewRequest
    <2> HIDE DEF a, b, c, r, ok
    <2>6. Ordered(r, <<a, b, c>>)
      BY <2>4, <2>5, SignedList
    <2>7. QED
      BY <2>2, <2>6, BeginIfOrdered
  <1>11. QED
    BY <1>1, <1>2, <1>3, <1>4, <1>5, <1>6, <1>7, <1>8, <1>9, <1>10 DEF Arrive

-----------------------------------------------------------------------------
(* Executing the operations *)

\* The place inside an operation belongs to the operation at hand.
PlaceFits(p) ==
    /\ pc[p] \in {"load", "store"} => Cur(p).kind \in Writing
    /\ pc[p] = "supply" => Cur(p).kind \in {"supplyAdd", "supplySub"}
    /\ pc[p] \in {"fees", "marshal", "put"} => Cur(p).kind \in {"feeAdd", "feeSub"}

Logged(log, tx) == \E i \in DOMAIN log : log[i] = tx

\* A handler in flight: what is left to do may fail only before its first
\* write, and a signed transaction is debited or its debit comes next.
InOrder(p) ==
    /\ reply[p] = "none" /\ PlaceFits(p)
    /\ ChecksLate(req[p]) \/ ChecksFirst(todo[p])
    /\ ChecksLate(req[p]) \/ ~touched[p] \/ todo[p] \in Seq(SafeOp)
    /\ IF req[p].method = "ethSendRaw"
       THEN \/ todo[p] # <<>> /\ Cur(p).kind = "sub"
            \/ Logged(ethLog, SignedTx(req[p]))
       ELSE todo[p] \in Seq(PlainOp)

AllInOrder == \A p \in Procs : pc[p] # "idle" => InOrder(p)

OrderInv == TypeOK /\ NoPartialError /\ RecordedWasDebited /\ AllInOrder

\* Finishing an operation keeps the rest in order; after a write it is safe.
LEMMA TailInOrder ==
  ASSUME NEW ops \in Seq(Op), ops # <<>>
  PROVE  /\ Tail(ops) \in Seq(Op) /\ Head(ops) \in Op
         /\ ChecksFirst(ops) => ChecksFirst(Tail(ops))
         /\ ChecksFirst(ops) /\ Head(ops).kind \in Writing => Tail(ops) \in Seq(SafeOp)
         /\ ops \in Seq(PlainOp) => Tail(ops) \in Seq(PlainOp) /\ Head(ops) \in PlainOp
         /\ ops \in Seq(SafeOp) => Tail(ops) \in Seq(SafeOp) /\ Head(ops) \in SafeOp
  <1>1. /\ Tail(ops) \in Seq(Op) /\ Head(ops) = ops[1] /\ Len(ops) \in Nat \ {0}
        /\ Len(Tail(ops)) = Len(ops) - 1 /\ Head(ops) \in Op
        /\ \A i \in 1..Len(Tail(ops)) : Tail(ops)[i] = ops[i + 1]
    BY HeadTailProperties, LenProperties, EmptySeq
  <1>2. DOMAIN ops = 1..Len(ops) /\ DOMAIN Tail(ops) = 1..Len(Tail(ops))
    BY <1>1, LenProperties
  <1>3. \A i \in DOMAIN Tail(ops) : i + 1 \in DOMAIN ops /\ Tail(ops)[i] = ops[i + 1]
    BY <1>1, <1>2
  <1>4. ChecksFirst(ops) => ChecksFirst(Tail(ops))
    <2>1. SUFFICES ASSUME ChecksFirst(ops), NEW i \in DOMAIN Tail(ops), NEW j \in DOMAIN Tail(ops),
                          i < j, Tail(ops)[i].kind \in Writing
                   PROVE  Tail(ops)[j].kind \notin MayFail
      BY DEF ChecksFirst
    <2>2. i + 1 < j + 1
      BY <1>1, <1>2, <2>1
    <2>3. QED
      BY <1>3, <2>1, <2>2 DEF ChecksFirst
  <1>5. ASSUME ChecksFirst(ops), Head(ops).kind \in Writing
        PROVE  Tail(ops) \in Seq(SafeOp)
    <2>1. ASSUME NEW i \in 1..Len(Tail(ops)) PROVE Tail(ops)[i] \in SafeOp
      <3>1. 1 \in DOMAIN ops /\ i + 1 \in DOMAIN ops /\ 1 < i + 1
        BY <1>1, <1>2, <1>3
      <3>2. ops[i + 1].kind \notin MayFail /\ ops[i + 1] \in Op
        BY <1>1, <1>5, <3>1, <1>2, ElementOfSeq DEF ChecksFirst
      <3>3. QED
        BY <1>1, <3>2 DEF SafeOp
    <2>2. Tail(ops) \in [1..Len(Tail(ops)) -> Op] /\ Len(Tail(ops)) \in Nat
      BY <1>1, LenProperties
    <2>3. Tail(ops) \in [1..Len(Tail(ops)) -> SafeOp]
      BY <2>1, <2>2
    <2>4. QED
      BY <2>2, <2>3, SeqDef
  <1>6. \A S : ops \in Seq(S) => Tail(ops) \in Seq(S) /\ Head(ops) \in S
    BY HeadTailProperties
  <1>7. QED
    BY <1>1, <1>4, <1>5, <1>6

\* What a step of p's handler does to its control state and to the histories.
LEMMA ExecuteFrame ==
  ASSUME TypeOK, NEW p \in Procs, Execute(p)
  PROVE  /\ UNCHANGED req /\ pc[p] # "idle"
         /\ \/ todo[p] # <<>> /\ Advance(p)
            \/ /\ todo[p] # <<>> /\ pc[p] = "run" /\ Cur(p).kind \in Writing /\ Goto(p, "load")
            \/ pc[p] = "load" /\ Goto(p, "store")
            \/ /\ todo[p] # <<>> /\ pc[p] = "run" /\ Cur(p).kind \in {"supplyAdd", "supplySub"}
               /\ Goto(p, "supply")
            \/ /\ todo[p] # <<>> /\ pc[p] = "run" /\ Cur(p).kind \in {"feeAdd", "feeSub"}
               /\ Goto(p, "fees")
            \/ pc[p] = "fees" /\ Goto(p, "marshal")
            \/ pc[p] = "marshal" /\ Goto(p, "put")
            \/ todo[p] # <<>> /\ Cur(p).kind \in MayFail /\ Return(p, "error")
            \/ Return(p, "ok")
         /\ (touched' = touched /\ ethLog' = ethLog) \/ StoreAccount(p)
         /\ ethTxs' = ethTxs \/ RecordEthTx(p)
  <1> USE DEF storeVars, memVars, regVars, callVars, histVars, At
  <1>1. CASE CheckFunds(p)
    BY <1>1 DEF CheckFunds, MayFail
  <1>2. CASE Debit(p)
    BY <1>2 DEF Debit, MayFail, Writing
  <1>3. CASE Credit(p)
    BY <1>3 DEF Credit, Writing
  <1>4. CASE LoadAccount(p)
    BY <1>4 DEF LoadAccount
  <1>5. CASE StoreAccount(p)
    BY <1>5 DEF StoreAccount, TypeOK
  <1>6. CASE ReadSupply(p)
    BY <1>6 DEF ReadSupply
  <1>7. CASE WriteSupply(p)
    BY <1>7 DEF WriteSupply, TypeOK
  <1>8. CASE ReadFees(p)
    BY <1>8 DEF ReadFees
  <1>9. CASE WriteFees(p)
    BY <1>9 DEF WriteFees
  <1>10. CASE MarshalMeta(p)
    BY <1>10 DEF MarshalMeta
  <1>11. CASE PutMeta(p)
    BY <1>11 DEF PutMeta, TypeOK
  <1>12. CASE RecordEthTx(p)
    BY <1>12 DEF RecordEthTx
  <1>13. CASE CheckPaused(p)
    BY <1>13 DEF CheckPaused, MayFail
  <1>14. CASE RejectZeroTarget(p)
    BY <1>14 DEF RejectZeroTarget, MayFail
  <1>15. CASE Succeed(p)
    BY <1>15 DEF Succeed
  <1>16. QED
    BY <1>1, <1>2, <1>3, <1>4, <1>5, <1>6, <1>7, <1>8, <1>9, <1>10, <1>11, <1>12, <1>13,
       <1>14, <1>15 DEF Execute

\* An operation that is finished was the debit only if the record was written.
LEMMA AdvanceFrom ==
  ASSUME TypeOK, NEW p \in Procs, Execute(p), PlaceFits(p), Advance(p)
  PROVE  /\ Cur(p).kind = "sub" => StoreAccount(p)
         /\ StoreAccount(p) => Cur(p).kind \in Writing
  <1> USE DEF PlaceFits
  <1>1. StoreAccount(p) => Cur(p).kind \in Writing
    BY DEF StoreAccount
  <1>2. ~Goto(p, "load") /\ ~Goto(p, "store") /\ ~Goto(p, "marshal") /\ ~Goto(p, "put") /\ ~Goto(p, "fees") /\ ~Goto(p, "supply")
    BY DEF Advance, Goto, TypeOK
  <1>3. ~Return(p, "error") /\ ~Return(p, "ok")
    BY DEF Advance, Return, TypeOK
  <1>4. Cur(p).kind = "sub" => StoreAccount(p)
    <2>1. SUFFICES ASSUME Cur(p).kind = "sub" PROVE StoreAccount(p)
      OBVIOUS
    <2>2. ~CheckFunds(p) /\ ~Credit(p) /\ ~ReadSupply(p) /\ ~ReadFees(p) /\ ~RecordEthTx(p) /\ ~CheckPaused(p) /\ ~RejectZeroTarget(p)
      BY <2>1 DEF CheckFunds, Credit, ReadSupply, ReadFees, RecordEthTx, CheckPaused, RejectZeroTarget, At
    <2>3. ~WriteSupply(p) /\ ~PutMeta(p)
      BY <2>1 DEF WriteSupply, PutMeta
    <2>4. ~Debit(p) /\ ~LoadAccount(p) /\ ~WriteFees(p) /\ ~MarshalMeta(p) /\ ~Succeed(p)
      BY <1>2, <1>3 DEF Debit, LoadAccount, WriteFees, MarshalMeta, Succeed
    <2>5. QED
      BY <2>2, <2>3, <2>4 DEF Execute
  <1>5. QED
    BY <1>1, <1>4

\* The other handlers stay as they are, and what was logged stays logged.
LEMMA Elsewhere ==
  ASSUME TypeOK, NEW p \in Procs, Execute(p)
  PROVE  /\ \A q \in Procs \ {p} : /\ pc'[q] = pc[q] /\ todo'[q] = todo[q]
                                   /\ reply'[q] = reply[q] /\ touched'[q] = touched[q]
         /\ \A tx : Logged(ethLog, tx) => Logged(ethLog', tx)
  <1>1. \A q \in Procs \ {p} : pc'[q] = pc[q] /\ todo'[q] = todo[q] /\ reply'[q] = reply[q]
    <2>1. Advance(p) \/ (\E place : Goto(p, place)) \/ (\E result : Return(p, result))
      BY ExecuteFrame
    <2>2. \A q \in Procs : q \in DOMAIN pc /\ q \in DOMAIN todo /\ q \in DOMAIN reply
      BY DEF TypeOK
    <2>3. QED
      BY <2>1, <2>2 DEF Advance, Goto, Return
  <1>2. \A q \in Procs \ {p} : touched'[q] = touched[q]
    <2>1. touched' = touched \/ touched' = [touched EXCEPT ![p] = TRUE]
      BY ExecuteFrame DEF StoreAccount
    <2>2. \A q \in Procs : q \in DOMAIN touched
      BY DEF TypeOK
    <2>3. QED
      BY <2>1, <2>2
  <1>3. ethLog' = ethLog \/ \E tx : ethLog' = Append(ethLog, tx)
    BY ExecuteFrame DEF StoreAccount
  <1>4. ASSUME NEW tx, Logged(ethLog, tx) PROVE Logged(ethLog', tx)
    <2>1. CASE ethLog' = ethLog
      BY <1>4, <2>1
    <2>2. CASE \E new : ethLog' = Append(ethLog, new)
      <3>1. PICK new : ethLog' = Append(ethLog, new)
        BY <2>2
      <3>2. ethLog \in Seq(EthTx)
        BY DEF TypeOK
      <3>3. PICK i \in DOMAIN ethLog : ethLog[i] = tx
        BY <1>4 DEF Logged
      <3>4. i \in DOMAIN ethLog' /\ ethLog'[i] = ethLog[i]
        BY <3>1, <3>2, <3>3
      <3>5. QED
        BY <3>3, <3>4 DEF Logged
    <2>3. QED
      BY <1>3, <2>1, <2>2
  <1>5. QED
    BY <1>1, <1>2, <1>4

\* p's own place after a step of its handler.
LEMMA ExecuteInOrder ==
  ASSUME OrderInv, NEW p \in Procs, Execute(p)
  PROVE  /\ pc'[p] # "idle" => InOrder(p)'
         /\ reply'[p] = "error" /\ touched'[p] => ChecksLate(req'[p])
  <1>0. /\ TypeOK /\ InOrder(p) /\ pc[p] # "idle" /\ req' = req
    BY ExecuteFrame DEF OrderInv, AllInOrder
  <1> DEFINE ops == todo[p]
             r == req[p]
  <1>1. ops \in Seq(Op) /\ p \in DOMAIN pc /\ p \in DOMAIN todo /\ p \in DOMAIN reply
        /\ p \in DOMAIN touched
    BY <1>0 DEF TypeOK
  <1>2. CASE ops # <<>> /\ Advance(p)
    <2>1. pc'[p] = "run" /\ todo'[p] = Tail(ops) /\ reply'[p] = "none"
      BY <1>0, <1>1, <1>2 DEF Advance, InOrder
    <2>2. /\ ChecksFirst(ops) => ChecksFirst(Tail(ops))
          /\ ChecksFirst(ops) /\ Head(ops).kind \in Writing => Tail(ops) \in Seq(SafeOp)
          /\ ops \in Seq(PlainOp) => Tail(ops) \in Seq(PlainOp)
          /\ ops \in Seq(SafeOp) => Tail(ops) \in Seq(SafeOp)
      BY <1>1, <1>2, TailInOrder
    <2>3. /\ Head(ops).kind = "sub" => StoreAccount(p)
          /\ StoreAccount(p) => Head(ops).kind \in Writing
      BY <1>0, <1>2, AdvanceFrom DEF InOrder, Cur
    <2>4. PlaceFits(p)'
      BY <2>1 DEF PlaceFits
    <2>5. ChecksLate(r) \/ ChecksFirst(Tail(ops))
      BY <1>0, <2>2 DEF InOrder
    <2>6. ChecksLate(r) \/ ~touched'[p] \/ Tail(ops) \in Seq(SafeOp)
      <3>1. CASE StoreAccount(p)
        BY <1>0, <2>2, <2>3, <3>1 DEF InOrder
      <3>2. CASE ~StoreAccount(p)
        BY <1>0, <2>2, <3>2, ExecuteFrame DEF InOrder
      <3>3. QED
        BY <3>1, <3>2
    <2>7. IF r.method = "ethSendRaw" THEN Logged(ethLog', SignedTx(r))
                                     ELSE Tail(ops) \in Seq(PlainOp)
      <3>1. CASE r.method # "ethSendRaw"
        BY <1>0, <2>2, <3>1 DEF InOrder
      <3>2. CASE r.method = "ethSendRaw" /\ Logged(ethLog, SignedTx(r))
        BY <1>0, <3>2, Elsewhere
      <3>3. CASE r.method = "ethSendRaw" /\ Cur(p).kind = "sub"
        <4>1. ethLog' = Append(ethLog, SignedTx(r)) /\ ethLog \in Seq(EthTx)
          BY <1>0, <2>3, <3>3 DEF StoreAccount, TypeOK, Cur
        <4>2. Len(ethLog') \in DOMAIN ethLog' /\ ethLog'[Len(ethLog')] = SignedTx(r)
          <5>1. SignedTx(r) \in EthTx
            BY <1>0 DEF TypeOK, Request, SignedTx, EthTx
          <5>2. QED
            BY <4>1, <5>1, AppendProperties
        <4>3. QED
          BY <3>3, <4>2 DEF Logged
      <3>4. QED
        BY <1>0, <3>1, <3>2, <3>3 DEF InOrder
    <2>8. QED
      BY <1>0, <2>1, <2>4, <2>5, <2>6, <2>7 DEF InOrder
  <1>3. ASSUME NEW place \in {"load", "store", "supply", "fees", "marshal", "put"}, Goto(p, place),
               place \in {"load", "store"} => Cur(p).kind \in Writing,
               place = "supply" => Cur(p).kind \in {"supplyAdd", "supplySub"},
               place \in {"fees", "marshal", "put"} => Cur(p).kind \in {"feeAdd", "feeSub"}
        PROVE  InOrder(p)' /\ reply'[p] = "none"
    <2>1. pc'[p] = place /\ todo' = todo /\ reply' = reply
      BY <1>1, <1>3 DEF Goto
    <2>2. touched' = touched
      <3>1. StoreAccount(p) => pc'[p] = "run"
        BY <1>1 DEF StoreAccount, Advance
      <3>2. QED
        BY <1>0, <1>3, <2>1, <3>1, ExecuteFrame
    <2>3. PlaceFits(p)'
      BY <1>3, <2>1 DEF PlaceFits, Cur
    <2>4. Logged(ethLog, SignedTx(r)) => Logged(ethLog', SignedTx(r))
      BY <1>0, Elsewhere
    <2>5. QED
      BY <1>0, <2>1, <2>2, <2>3, <2>4 DEF InOrder, Cur
  <1>4. CASE \/ ops # <<>> /\ pc[p] = "run" /\ Cur(p).kind \in Writing /\ Goto(p, "load")
             \/ pc[p] = "load" /\ Goto(p, "store")
             \/ /\ ops # <<>> /\ pc[p] = "run" /\ Cur(p).kind \in {"supplyAdd", "supplySub"}
                /\ Goto(p, "supply")
             \/ /\ ops # <<>> /\ pc[p] = "run" /\ Cur(p).kind \in {"feeAdd", "feeSub"}
                /\ Goto(p, "fees")
             \/ pc[p] = "fees" /\ Goto(p, "marshal")
             \/ pc[p] = "marshal" /\ Goto(p, "put")
    <2>1. InOrder(p)' /\ reply'[p] = "none"
      BY <1>0, <1>3, <1>4 DEF InOrder, PlaceFits
    <2>2. QED
      BY <2>1
  <1>5. CASE \/ ops # <<>> /\ Cur(p).kind \in MayFail /\ Return(p, "error")
             \/ Return(p, "ok")
    <2>1. pc'[p] = "idle"
      BY <1>1, <1>5 DEF Return
    <2>2. touched' = touched
      <3>1. StoreAccount(p) => pc'[p] = "run"
        BY <1>1 DEF StoreAccount, Advance
      <3>2. QED
        BY <1>0, <2>1, <3>1, ExecuteFrame
    <2>3. ASSUME reply'[p] = "error", touched[p] PROVE ChecksLate(r)
      <3>1. ops # <<>> /\ Cur(p).kind \in MayFail
        BY <1>1, <1>5, <2>3 DEF Return
      <3>2. ops \in Seq(SafeOp) => Cur(p) \in SafeOp
        BY <1>1, <3>1, TailInOrder DEF Cur
      <3>3. QED
        BY <1>0, <2>3, <3>1, <3>2 DEF InOrder, SafeOp
    <2>4. QED
      BY <1>0, <2>1, <2>2, <2>3
  <1>6. QED
    BY <1>0, <1>2, <1>4, <1>5, ExecuteFrame

\* A step of one handler keeps every handler in order, an error answer honest
\* and every record backed by a debit.
LEMMA ExecuteOrder ==
  ASSUME OrderInv, NEW p \in Procs, Execute(p)
  PROVE  NoPartialError' /\ RecordedWasDebited' /\ AllInOrder'
  <1>0. TypeOK /\ req' = req /\ pc[p] # "idle" /\ InOrder(p)
    BY ExecuteFrame DEF OrderInv, AllInOrder
  <1>1. ASSUME NEW q \in Procs \ {p}, pc'[q] # "idle" PROVE InOrder(q)'
    <2>1. InOrder(q)
      BY <1>0, <1>1, Elsewhere DEF OrderInv, AllInOrder
    <2>2. Logged(ethLog, SignedTx(req[q])) => Logged(ethLog', SignedTx(req[q]))
      BY <1>0, Elsewhere
    <2>3. pc'[q] = pc[q] /\ todo'[q] = todo[q] /\ reply'[q] = reply[q] /\ touched'[q] = touched[q]
      BY <1>0, Elsewhere
    <2>4. QED
      BY <1>0, <2>1, <2>2, <2>3 DEF InOrder, PlaceFits, Cur
  <1>2. AllInOrder'
    BY <1>1, ExecuteInOrder DEF AllInOrder
  <1>3. ASSUME NEW q \in Procs, reply'[q] = "error", touched'[q] PROVE ChecksLate(req'[q])
    <2>1. CASE q = p
      BY <1>3, <2>1, ExecuteInOrder
    <2>2. CASE q # p
      BY <1>0, <1>3, <2>2, Elsewhere DEF OrderInv, NoPartialError, ChecksLate
    <2>3. QED
      BY <2>1, <2>2
  <1>4. NoPartialError'
    BY <1>3 DEF NoPartialError, ChecksLate
  <1>5. ASSUME NEW tx \in ethTxs' PROVE Logged(ethLog', tx)
    <2>1. \A old \in ethTxs : Logged(ethLog', old)
      BY <1>0, Elsewhere DEF OrderInv, RecordedWasDebited, Logged
    <2>2. CASE RecordEthTx(p) /\ tx = SignedTx(req[p])
      <3>1. todo[p] # <<>> /\ Cur(p).kind = "ethRecord" /\ todo[p] \in Seq(Op)
        BY <1>0, <2>2 DEF RecordEthTx, At, TypeOK
      <3>2. todo[p] \in Seq(PlainOp) => Cur(p) \in PlainOp
        BY <3>1, TailInOrder DEF Cur
      <3>3. Logged(ethLog, tx)
        BY <1>0, <2>2, <3>1, <3>2 DEF InOrder, PlainOp
      <3>4. QED
        BY <1>0, <3>3, Elsewhere
    <2>3. CASE tx \in ethTxs
      BY <2>1, <2>3
    <2>4. QED
      BY <1>0, <1>5, <2>2, <2>3, ExecuteFrame DEF RecordEthTx
  <1>6. QED
    BY <1>2, <1>4, <1>5 DEF RecordedWasDebited, Logged

\* Receiving a request: the handler that starts has written nothing yet.
LEMMA ArriveOrder ==
  ASSUME OrderInv, NEW p \in Procs, Arrive(p)
  PROVE  NoPartialError' /\ RecordedWasDebited' /\ AllInOrder'
  <1>0. TypeOK /\ TypeOK'
    BY ArriveType DEF OrderInv
  <1>1. PICK r : Receive(p, r) /\ ((\E ops : Begin(p, r, ops) /\ Ordered(r, ops))
                                    \/ \E result : Answer(p, r, result))
    BY <1>0, ArriveOrdered DEF Starts, Answers, Begin, Answer
  <1>2. /\ UNCHANGED <<ethTxs, ethLog>> /\ pc[p] = "idle"
        /\ req' = [req EXCEPT ![p] = r] /\ touched' = [touched EXCEPT ![p] = FALSE]
    BY <1>1 DEF Receive
  <1>3. /\ req'[p] = r /\ touched'[p] = FALSE
        /\ \A q \in Procs \ {p} :
              /\ req'[q] = req[q] /\ touched'[q] = touched[q] /\ pc'[q] = pc[q]
              /\ todo'[q] = todo[q] /\ reply'[q] = reply[q]
    <2>1. \A q \in Procs : /\ q \in DOMAIN pc /\ q \in DOMAIN todo /\ q \in DOMAIN reply
                           /\ q \in DOMAIN req /\ q \in DOMAIN touched
      BY <1>0 DEF TypeOK
    <2>2. \A q \in Procs \ {p} : pc'[q] = pc[q] /\ todo'[q] = todo[q] /\ reply'[q] = reply[q]
      BY <1>1, <2>1 DEF Begin, Answer
    <2>3. QED
      BY <1>2, <2>1, <2>2
  <1>4. RecordedWasDebited'
    BY <1>2 DEF OrderInv, RecordedWasDebited
  <1>5. NoPartialError'
    BY <1>3 DEF OrderInv, NoPartialError
  <1>6. ASSUME NEW q \in Procs, pc'[q] # "idle" PROVE InOrder(q)'
    <2>1. CASE q # p
      BY <1>2, <1>3, <1>6, <2>1 DEF OrderInv, AllInOrder, InOrder, PlaceFits, Cur
    <2>2. CASE q = p
      <3>1. PICK ops : Begin(p, r, ops) /\ Ordered(r, ops)
        BY <1>1, <1>2, <1>6, <2>2 DEF Answer
      <3>2. pc'[p] = "run" /\ todo'[p] = ops /\ reply'[p] = "none"
        BY <1>0, <3>1 DEF Begin, TypeOK
      <3>3. PlaceFits(p)'
        BY <3>2 DEF PlaceFits
      <3>4. QED
        BY <1>3, <2>2, <3>1, <3>2, <3>3 DEF InOrder, Ordered, Cur
    <2>3. QED
      BY <2>1, <2>2
  <1>7. QED
    BY <1>4, <1>5, <1>6 DEF AllInOrder

LEMMA InitOrder == Init => OrderInv
  <1> SUFFICES ASSUME Init PROVE OrderInv
    OBVIOUS
  <1>1. NoPartialError /\ RecordedWasDebited /\ AllInOrder
    BY DEF Init, NoPartialError, RecordedWasDebited, AllInOrder
  <1>2. QED
    BY InitType, <1>1 DEF OrderInv

LEMMA NextOrder == OrderInv /\ [Next]_vars => OrderInv'
  <1> SUFFICES ASSUME OrderInv, [Next]_vars
               PROVE  NoPartialError' /\ RecordedWasDebited' /\ AllInOrder'
    BY NextType DEF OrderInv
  <1>1. CASE Restart
    <2>1. NoPartialError' /\ AllInOrder'
      BY <1>1 DEF Restart, NoPartialError, AllInOrder
    <2>2. RecordedWasDebited'
      BY <1>1 DEF Restart, RecordedWasDebited
    <2>3. QED
      BY <2>1, <2>2
  <1>2. ASSUME NEW p \in Procs, Arrive(p) \/ Execute(p)
        PROVE  NoPartialError' /\ RecordedWasDebited' /\ AllInOrder'
    BY <1>2, ArriveOrder, ExecuteOrder
  <1>3. CASE UNCHANGED vars
    BY <1>3 DEF vars, memVars, callVars, histVars, OrderInv, NoPartialError,
                RecordedWasDebited, AllInOrder, InOrder, PlaceFits, Cur
  <1>4. QED
    BY <1>1, <1>2, <1>3 DEF Next, Wait

-----------------------------------------------------------------------------
(* The theorems *)

\* For any number of handlers in any interleaving, an error answer means that
\* the handler wrote no account, but for sendTransaction and a forced transfer
\* from the zero address, which check too late.
THEOREM ErrorsMoveNothing == Spec => []NoPartialError
  <1>1. OrderInv => NoPartialError
    BY DEF OrderInv
  <1>2. QED
    BY InitOrder, NextOrder, <1>1, PTL DEF Spec

\* A signed transaction that clients can look up was debited, however many
\* of them are in flight.
THEOREM RecordsWereDebited == Spec => []RecordedWasDebited
  <1>1. OrderInv => RecordedWasDebited
    BY DEF OrderInv
  <1>2. QED
    BY InitOrder, NextOrder, <1>1, PTL DEF Spec
=============================================================================
