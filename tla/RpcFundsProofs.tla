--------------------------- MODULE RpcFundsProofs ---------------------------
(* Theorems about the funds of RpcLedger when requests come one at a time, *)
(* for any number of requests: what is on disk of the fee pot, what        *)
(* withdrawals take out of it, and what all accounts together hold.        *)
(*                                                                         *)
(* The lemmas about what a handler still has to credit and about the total *)
(* of the accounts hold for any number of handlers; NodeProofs cites them. *)
EXTENDS RpcLedgerProofs, SumProofs

-----------------------------------------------------------------------------
(* The pot in memory and on disk *)

\* Only between AddCollectedFee or SubCollectedFee and the end of SaveMeta do the
\* pot in memory and its copy on disk differ, and SaveMeta puts what it marshalled.
FeesInv(p) ==
    /\ pc[p] \notin {"marshal", "put"} => disk.fees = meta.fees
    /\ pc[p] = "put" => snap[p].fees = meta.fees

\* Receiving a request changes the rate at most, never the pot.
LEMMA ArriveFees ==
  ASSUME TypeOK, NEW p \in Procs, Arrive(p)
  PROVE  meta'.fees = meta.fees
  <1>1. \A r, ops, ok : BeginIf(ok, p, r, ops) => meta' = meta
    BY DEF BeginIf, Begin, Refuse
  <1>2. CASE SendNative(p)
    BY <1>2 DEF SendNative, Begin
  <1>3. CASE SendUSDCc(p) \/ AdminMint(p) \/ AdminBurn(p) \/ AdminMintToTreasury(p)
    BY <1>1, <1>3 DEF SendUSDCc, AdminMint, AdminBurn, AdminMintToTreasury
  <1>4. CASE AdminForceTransfer(p) \/ AdminWithdrawFees(p) \/ EthSendRaw(p)
    BY <1>1, <1>4 DEF AdminForceTransfer, AdminWithdrawFees, EthSendRaw
  <1>5. CASE AdminSetFees(p)
    <2>1. meta' = meta \/ \E bps : meta' = [meta EXCEPT !.bps = bps]
      BY <1>5 DEF AdminSetFees, Refuse
    <2>2. QED
      BY <2>1 DEF TypeOK, Meta
  <1>6. CASE AdminPauseTransfers(p)
    BY <1>6 DEF AdminPauseTransfers, Refuse
  <1>7. QED
    BY <1>2, <1>3, <1>4, <1>5, <1>6 DEF Arrive

LEMMA ExecuteFees ==
  ASSUME TypeOK, NEW p \in Procs, FeesInv(p), Execute(p)
  PROVE  FeesInv(p)'
  <1> USE DEF FeesInv, storeVars, memVars, regVars, callVars, histVars, At, Advance, Goto, Return
  <1>0. p \in DOMAIN pc /\ p \in DOMAIN snap
    BY DEF TypeOK
  <1>1. CASE CheckFunds(p) \/ Debit(p) \/ Credit(p) \/ LoadAccount(p)
    BY <1>0, <1>1 DEF CheckFunds, Debit, Credit, LoadAccount
  <1>2. CASE StoreAccount(p)
    BY <1>0, <1>2 DEF StoreAccount
  <1>3. CASE ReadSupply(p) \/ WriteSupply(p)
    BY <1>0, <1>3 DEF ReadSupply, WriteSupply
  <1>4. CASE ReadFees(p)
    BY <1>0, <1>4 DEF ReadFees
  <1>5. CASE WriteFees(p)
    BY <1>0, <1>5 DEF WriteFees
  <1>6. CASE MarshalMeta(p)
    BY <1>0, <1>6 DEF MarshalMeta
  <1>7. CASE PutMeta(p)
    BY <1>0, <1>7 DEF PutMeta
  <1>8. CASE RecordEthTx(p) \/ CheckPaused(p) \/ RejectZeroTarget(p) \/ Succeed(p)
    BY <1>0, <1>8 DEF RecordEthTx, CheckPaused, RejectZeroTarget, Succeed
  <1>9. QED
    BY <1>1, <1>2, <1>3, <1>4, <1>5, <1>6, <1>7, <1>8 DEF Execute

LEMMA NextFees ==
  ASSUME NEW p, Procs = {p}, TypeOK, FeesInv(p), [Next]_vars
  PROVE  FeesInv(p)'
  <1>0. p \in Procs /\ p \in DOMAIN pc /\ p \in DOMAIN snap
    BY DEF TypeOK
  <1>1. CASE Restart
    BY <1>0, <1>1 DEF Restart, FeesInv
  <1>2. CASE Arrive(p)
    <2>1. \E r : Receive(p, r)
      BY <1>0, <1>2, ArriveFrame
    <2>2. UNCHANGED <<disk, snap>> /\ pc[p] = "idle"
      BY <2>1 DEF Receive, regVars
    <2>3. pc'[p] \in {"idle", "run"}
      BY <1>0, <1>2, <2>2, ArriveFrame
    <2>4. QED
      BY <1>0, <1>2, <2>2, <2>3, ArriveFees DEF FeesInv
  <1>3. CASE Execute(p)
    BY <1>0, <1>3, ExecuteFees
  <1>4. CASE UNCHANGED vars
    BY <1>4 DEF vars, memVars, regVars, FeesInv
  <1>5. QED
    BY <1>0, <1>1, <1>2, <1>3, <1>4 DEF Next, Wait

\* When requests come one at a time the fee pot on disk is the one in memory
\* whenever no handler runs, after any number of restarts at any point.
THEOREM PotIsDurable ==
  ASSUME NEW p, Procs = {p}
  PROVE  Spec => []FeesDurable
  <1>1. Init => FeesInv(p)
    BY DEF Init, FeesInv
  <1>2. TypeOK /\ FeesInv(p) /\ [Next]_vars => FeesInv(p)'
    BY NextFees
  <1>3. FeesInv(p) => FeesDurable
    BY DEF FeesInv, FeesDurable
  <1>4. QED
    BY InitType, NextType, <1>1, <1>2, <1>3, PTL DEF Spec

-----------------------------------------------------------------------------
(* What is taken out of the pot *)

\* What is left of a withdrawal before the balance is compared, before the
\* treasury pays, before the receiver gets it and before the pot is lowered.
Books(r)   == <<NewOp("feeSub", Treasury, r.token, r.amt)>>
Credits(r) == <<Add(r.to, r.token, r.amt), NewOp("feeSub", Treasury, r.token, r.amt)>>
Debits(r)  == <<Sub(Treasury, r.token, r.amt), Add(r.to, r.token, r.amt),
                NewOp("feeSub", Treasury, r.token, r.amt)>>
Needs(r)   == <<Need(Treasury, r.token, r.amt), Sub(Treasury, r.token, r.amt),
                Add(r.to, r.token, r.amt), NewOp("feeSub", Treasury, r.token, r.amt)>>

\* Operations of the other handlers: what they do to the pot is to fill it.
CollectOp == {op \in Op : op.kind # "feeSub" /\ (op.kind = "feeAdd" => op.amt > 0)}

\* A withdrawal takes its amount out when the treasury has paid and lowers the
\* pot by it later; the pot still holds what it was when it was checked.
Withdrawing(p) ==
    LET r == req[p] IN
    /\ r.amt > 0
    /\ \/ todo[p] \in {Needs(r), Debits(r)} /\ owed = meta.fees /\ r.amt <= owed[r.token]
       \/ /\ todo[p] \in {Credits(r), Books(r)} /\ pc[p] \notin {"marshal", "put"}
          /\ owed = [meta.fees EXCEPT ![r.token] = @ - r.amt]
          /\ pc[p] = "fees" => next[p] = owed[r.token]
       \/ todo[p] = Books(r) /\ pc[p] \in {"marshal", "put"} /\ owed = meta.fees
       \/ todo[p] = <<>> /\ owed = meta.fees

\* The other handlers: a fee is counted when the pot is read and in the pot when
\* it is written.
Collecting(p) ==
    /\ todo[p] \in Seq(CollectOp)
    /\ IF pc[p] = "fees"
       THEN /\ owed = [meta.fees EXCEPT ![Cur(p).token] = @ + Cur(p).amt]
            /\ next[p] = owed[Cur(p).token]
       ELSE owed = meta.fees

PotInv(p) ==
    /\ WithdrawWithinCollected
    /\ IF pc[p] = "idle" THEN owed = meta.fees
       ELSE IF req[p].method = "adminWithdrawFees" THEN Withdrawing(p) ELSE Collecting(p)

\* Finishing an operation of a withdrawal leads from one of the lists to the next.
LEMMA WithdrawLists ==
  ASSUME NEW r \in Request
  PROVE  /\ Tail(Needs(r)) = Debits(r) /\ Tail(Debits(r)) = Credits(r)
         /\ Tail(Credits(r)) = Books(r) /\ Tail(Books(r)) = <<>>
         /\ Needs(r) # <<>> /\ Debits(r) # <<>> /\ Credits(r) # <<>> /\ Books(r) # <<>>
         /\ Head(Needs(r)).kind = "need" /\ Head(Debits(r)).kind = "sub"
         /\ Head(Credits(r)).kind = "add" /\ Head(Books(r)).kind = "feeSub"
         /\ Head(Debits(r)).token = r.token /\ Head(Debits(r)).amt = r.amt
         /\ Head(Books(r)).token = r.token /\ Head(Books(r)).amt = r.amt
  <1> DEFINE a == Need(Treasury, r.token, r.amt)
             b == Sub(Treasury, r.token, r.amt)
             c == Add(r.to, r.token, r.amt)
             d == NewOp("feeSub", Treasury, r.token, r.amt)
  <1>1. /\ a.kind = "need" /\ b.kind = "sub" /\ c.kind = "add" /\ d.kind = "feeSub"
        /\ b.token = r.token /\ b.amt = r.amt /\ d.token = r.token /\ d.amt = r.amt
    BY DEF Need, Sub, Add, NewOp
  <1>2. Needs(r) = <<a, b, c, d>> /\ Debits(r) = <<b, c, d>> /\ Credits(r) = <<c, d>> /\ Books(r) = <<d>>
    BY DEF Needs, Debits, Credits, Books
  <1> HIDE DEF a, b, c, d
  <1>3. QED
    BY <1>1, <1>2

\* Lists of other handlers: without an operation on the pot, or with a fee.
LEMMA CollectLists ==
  ASSUME NEW a \in Op, NEW b \in Op, NEW c \in Op,
         {a.kind, b.kind, c.kind} \cap {"feeAdd", "feeSub"} = {}
  PROVE  <<a>> \in Seq(CollectOp) /\ <<a, b>> \in Seq(CollectOp) /\ <<a, b, c>> \in Seq(CollectOp)
  <1>1. a \in CollectOp /\ b \in CollectOp /\ c \in CollectOp
    BY DEF CollectOp
  <1>2. QED
    BY <1>1

\* How a handler starts as far as the pot is concerned.
StartsPot(p) ==
    \E r, ops :
        /\ Begin(p, r, ops)
        /\ IF r.method = "adminWithdrawFees"
           THEN ops = Needs(r) /\ r.amt > 0 /\ r.amt <= meta.fees[r.token]
           ELSE ops \in Seq(CollectOp)

LEMMA BeginIfPot ==
  ASSUME NEW p \in Procs, NEW ok \in BOOLEAN, NEW r, NEW ops, BeginIf(ok, p, r, ops),
         r.method # "adminWithdrawFees", ops \in Seq(CollectOp)
  PROVE  StartsPot(p) \/ Answers(p)
  BY DEF BeginIf, Refuse, StartsPot, Answers

LEMMA ArrivePot ==
  ASSUME TypeOK, NEW p \in Procs, Arrive(p)
  PROVE  StartsPot(p) \/ Answers(p)
  <1> USE AddressesAssumption, NumbersAssumption
  <1>0. /\ "GORR" \in Token /\ "USDCc" \in Token /\ Treasury \in Addr /\ Senders \subseteq Addr
        /\ Receivers \subseteq Addr
        /\ {"feeAdd", "supplyAdd", "supplySub", "unlessPaused", "fail", "ethRecord"} \subseteq OpKind
    BY DEF Token, OpKind
  <1>1. CASE SendNative(p)
    <2>1. PICK from \in Senders, to \in Receivers, base \in Amounts :
            SendNative(p)!(from, to, base)
      BY <1>1 DEF SendNative
    <2> DEFINE amount == base * Unit
               fee    == CalculateFee(amount, meta.bps)
               split  == <<Sub(from, "GORR", amount), Add(to, "GORR", amount - fee)>>
               share  == IF fee > 0 THEN <<Add(Treasury, "GORR", fee),
                                           NewOp("feeAdd", Treasury, "GORR", fee)>>
                                    ELSE <<>>
               last   == <<Step("unlessPaused")>>
               r      == NewRequest("sendTransaction", from, to, "GORR", amount)
    <2>2. amount \in Int /\ fee \in Int /\ amount - fee \in Int
      <3>1. amount \in Int /\ fee \in Int
        BY FeeType DEF TypeOK, Meta
      <3> HIDE DEF amount, fee
      <3>2. QED
        BY <3>1
    <2>3. Begin(p, r, split \o share \o last)
      BY <2>1
    <2>4. split \in Seq(CollectOp) /\ share \in Seq(CollectOp) /\ last \in Seq(CollectOp)
      <3> DEFINE collect == NewOp("feeAdd", Treasury, "GORR", fee)
      <3>1. share = IF fee > 0 THEN <<Add(Treasury, "GORR", fee), collect>> ELSE <<>>
        OBVIOUS
      <3> HIDE DEF amount, fee
      <3>2. /\ Sub(from, "GORR", amount) \in Op /\ Add(to, "GORR", amount - fee) \in Op
            /\ Add(Treasury, "GORR", fee) \in Op /\ Step("unlessPaused") \in Op
            /\ collect \in Op /\ collect.kind = "feeAdd" /\ collect.amt = fee
        BY <1>0, <2>2, StepsType, KindOf DEF NewOp
      <3>3. fee > 0 => Add(Treasury, "GORR", fee) \in CollectOp /\ collect \in CollectOp
        BY <3>2, KindOf DEF CollectOp
      <3> HIDE DEF collect
      <3>4. split \in Seq(CollectOp) /\ last \in Seq(CollectOp)
        BY <3>2, KindOf, CollectLists
      <3>5. share \in Seq(CollectOp)
        BY <3>1, <3>3
      <3>6. QED
        BY <3>4, <3>5
    <2>5. r.method = "sendTransaction"
      BY RequestOf
    <2> HIDE DEF split, share, last, r
    <2>6. split \o share \o last \in Seq(CollectOp)
      BY <2>4
    <2>7. QED
      BY <2>3, <2>5, <2>6 DEF StartsPot
  <1>2. CASE SendUSDCc(p)
    <2>0. PICK from \in Senders, to \in Receivers, base \in Amounts :
            SendUSDCc(p)!(from, to, base)
      BY <1>2 DEF SendUSDCc
    <2>1. PICK amount \in FloatWei(base) :
            BeginIf(~paused, p, NewRequest("sendUSDCc", from, to, "USDCc", amount),
                    <<Sub(from, "USDCc", amount), Add(to, "USDCc", amount)>>)
      BY <2>0
    <2>2. amount \in Int /\ from \in Addr /\ to \in Addr /\ "USDCc" \in Token
      BY <1>0, FloatType
    <2> DEFINE a == Sub(from, "USDCc", amount)
               b == Add(to, "USDCc", amount)
               r == NewRequest("sendUSDCc", from, to, "USDCc", amount)
    <2>3. BeginIf(~paused, p, r, <<a, b>>) /\ (~paused) \in BOOLEAN
      BY <2>1
    <2>4. a \in Op /\ b \in Op /\ a.kind = "sub" /\ b.kind = "add" /\ r.method = "sendUSDCc"
      <3>1. a \in Op /\ b \in Op
        BY <2>2, StepsType
      <3>2. a.kind = "sub" /\ b.kind = "add" /\ r.method = "sendUSDCc"
        BY DEF Sub, Add, NewOp, NewRequest
      <3>3. QED
        BY <3>1, <3>2
    <2> HIDE DEF a, b, r
    <2>5. <<a, b>> \in Seq(CollectOp)
      BY <2>4, CollectLists
    <2>6. QED
      BY <2>3, <2>4, <2>5, BeginIfPot
  <1>3. CASE AdminMint(p)
    <2>0. PICK from \in Senders, to \in Receivers, token \in Token, base \in Amounts :
            AdminMint(p)!(from, to, token, base)
      BY <1>3 DEF AdminMint
    <2>1. PICK amount \in FloatWei(base) :
            BeginIf(from = Admin, p, NewRequest("adminMint", from, to, token, amount),
                    <<Add(to, token, amount), NewOp("supplyAdd", to, token, amount)>>)
      BY <2>0
    <2>2. amount \in Int /\ to \in Addr /\ "supplyAdd" \in OpKind
      BY <1>0, FloatType
    <2> DEFINE a == Add(to, token, amount)
               b == NewOp("supplyAdd", to, token, amount)
               r == NewRequest("adminMint", from, to, token, amount)
    <2>3. BeginIf(from = Admin, p, r, <<a, b>>) /\ (from = Admin) \in BOOLEAN
      BY <2>1
    <2>4. /\ a \in Op /\ b \in Op /\ a.kind = "add" /\ b.kind = "supplyAdd"
          /\ r.method = "adminMint"
      BY <2>2, StepsType, KindOf, RequestOf
    <2> HIDE DEF a, b, r
    <2>5. <<a, b>> \in Seq(CollectOp)
      BY <2>4, CollectLists
    <2>6. QED
      BY <2>3, <2>4, <2>5, BeginIfPot
  <1>4. CASE AdminBurn(p)
    <2>0. PICK from \in Senders, token \in Token, base \in Amounts :
            AdminBurn(p)!(from, token, base)
      BY <1>4 DEF AdminBurn
    <2>1. PICK amount \in FloatWei(base) :
            BeginIf(from = Admin, p, NewRequest("adminBurn", from, from, token, amount),
                    <<Sub(from, token, amount), NewOp("supplySub", from, token, amount)>>)
      BY <2>0
    <2>2. amount \in Int /\ from \in Addr /\ "supplySub" \in OpKind
      BY <1>0, FloatType
    <2> DEFINE a == Sub(from, token, amount)
               b == NewOp("supplySub", from, token, amount)
               r == NewRequest("adminBurn", from, from, token, amount)
    <2>3. BeginIf(from = Admin, p, r, <<a, b>>) /\ (from = Admin) \in BOOLEAN
      BY <2>1
    <2>4. /\ a \in Op /\ b \in Op /\ a.kind = "sub" /\ b.kind = "supplySub"
          /\ r.method = "adminBurn"
      BY <2>2, StepsType, KindOf, RequestOf
    <2> HIDE DEF a, b, r
    <2>5. <<a, b>> \in Seq(CollectOp)
      BY <2>4, CollectLists
    <2>6. QED
      BY <2>3, <2>4, <2>5, BeginIfPot
  <1>5. CASE AdminMintToTreasury(p)
    <2>0. PICK from \in Senders, token \in Token, base \in Amounts :
            AdminMintToTreasury(p)!(from, token, base)
      BY <1>5 DEF AdminMintToTreasury
    <2>1. PICK amount \in FloatWei(base) :
            BeginIf(from = Admin, p,
                    NewRequest("adminMintToTreasury", from, Treasury, token, amount),
                    <<Add(Treasury, token, amount)>>)
      BY <2>0
    <2>2. amount \in Int /\ Treasury \in Addr
      BY <1>0, FloatType
    <2> DEFINE a == Add(Treasury, token, amount)
               r == NewRequest("adminMintToTreasury", from, Treasury, token, amount)
    <2>3. BeginIf(from = Admin, p, r, <<a>>) /\ (from = Admin) \in BOOLEAN
      BY <2>1
    <2>4. a \in Op /\ a.kind = "add" /\ r.method = "adminMintToTreasury"
      <3>1. a \in Op
        BY <2>2, StepsType
      <3>2. a.kind = "add" /\ r.method = "adminMintToTreasury"
        BY DEF Add, NewOp, NewRequest
      <3>3. QED
        BY <3>1, <3>2
    <2> HIDE DEF a, r
    <2>5. <<a>> \in Seq(CollectOp)
      BY <2>4, CollectLists
    <2>6. QED
      BY <2>3, <2>4, <2>5, BeginIfPot
  <1>6. CASE AdminForceTransfer(p)
    <2>1. PICK caller \in Senders, target \in Senders, token \in Token, base \in Amounts :
            AdminForceTransfer(p)!(caller, target, token, base)
      BY <1>6 DEF AdminForceTransfer
    <2> DEFINE amount    == base * Unit
               zeroCheck == IF token = "GORR" /\ target = Zero
                            THEN <<Step("fail")>> ELSE <<>>
               a         == Need(target, token, amount)
               b         == Sub(target, token, amount)
               c         == Add(Treasury, token, amount)
               r         == NewRequest("adminForceTransfer", target, Treasury, token, amount)
               ok        == caller = Admin /\ base > 0
    <2>2. BeginIf(ok, p, r, <<a, b, c>> \o zeroCheck) /\ ok \in BOOLEAN
      BY <2>1
    <2>3. amount \in Int /\ target \in Addr /\ Treasury \in Addr /\ "fail" \in OpKind
      BY <1>0
    <2>4. /\ a \in Op /\ b \in Op /\ c \in Op /\ Step("fail") \in Op
          /\ a.kind = "need" /\ b.kind = "sub" /\ c.kind = "add" /\ Step("fail").kind = "fail"
          /\ r.method = "adminForceTransfer"
      <3> HIDE DEF amount
      <3>1. QED
        BY <2>3, StepsType, KindOf, RequestOf
    <2>5. zeroCheck = <<>> \/ zeroCheck = <<Step("fail")>>
      OBVIOUS
    <2> HIDE DEF a, b, c, r, zeroCheck, ok
    <2>6. <<a, b, c>> \in Seq(CollectOp) /\ <<Step("fail")>> \in Seq(CollectOp)
      BY <2>4, CollectLists
    <2>7. <<a, b, c>> \o zeroCheck \in Seq(CollectOp)
      <3>1. zeroCheck \in Seq(CollectOp)
        <4>1. <<>> \in Seq(CollectOp)
          OBVIOUS
        <4>2. QED
          BY <2>5, <2>6, <4>1
      <3>2. QED
        BY <2>6, <3>1
    <2>8. QED
      BY <2>2, <2>4, <2>7, BeginIfPot
  <1>7. CASE AdminWithdrawFees(p)
    <2>0. PICK from \in Senders, to \in Receivers, token \in Token :
            AdminWithdrawFees(p)!(from, to, token)
      BY <1>7 DEF AdminWithdrawFees
    <2>1. PICK amount \in {base * Unit : base \in Amounts} \cup {meta.fees[token]} :
            BeginIf(from = Admin /\ amount > 0 /\ meta.fees[token] >= amount, p,
                    NewRequest("adminWithdrawFees", from, to, token, amount),
                    <<Need(Treasury, token, amount), Sub(Treasury, token, amount),
                      Add(to, token, amount),
                      NewOp("feeSub", Treasury, token, amount)>>)
      BY <2>0
    <2> DEFINE r == NewRequest("adminWithdrawFees", from, to, token, amount)
               ok == from = Admin /\ amount > 0 /\ meta.fees[token] >= amount
    <2>2. r.method = "adminWithdrawFees" /\ r.to = to /\ r.token = token /\ r.amt = amount
      BY DEF NewRequest
    <2>3. BeginIf(ok, p, r, Needs(r))
      BY <2>1, <2>2 DEF Needs
    <2>4. ok => amount > 0 /\ amount <= meta.fees[token]
      <3>1. meta.fees[token] \in Int
        BY DEF TypeOK, Meta
      <3>2. amount \in Int
        <4>1. ASSUME NEW base \in Amounts PROVE base * Unit \in Int
          <5>1. base \in Int /\ Unit \in Int
            OBVIOUS
          <5>2. QED
            BY <5>1
        <4>2. QED
          BY <3>1, <4>1
      <3>3. QED
        BY <3>1, <3>2
    <2> HIDE DEF r, ok
    <2>5. ok => StartsPot(p)
      BY <2>2, <2>3, <2>4 DEF BeginIf, StartsPot
    <2>6. ~ok => Answers(p)
      BY <2>3 DEF BeginIf, Refuse, Answers
    <2>7. QED
      BY <2>5, <2>6
  <1>8. CASE AdminSetFees(p)
    BY <1>8 DEF AdminSetFees, Refuse, Answers
  <1>9. CASE AdminPauseTransfers(p)
    BY <1>9 DEF AdminPauseTransfers, Refuse, Answers
  <1>10. CASE EthSendRaw(p)
    <2>1. PICK from \in Senders, to \in Receivers, base \in Amounts, nonce \in 0..MaxNonce :
            EthSendRaw(p)!(from, to, base, nonce)
      BY <1>10 DEF EthSendRaw
    <2> DEFINE value == base * Unit
               r == [NewRequest("ethSendRaw", from, to, "GORR", value) EXCEPT !.nonce = nonce]
               a == Sub(from, "GORR", value)
               b == Add(to, "GORR", value)
               c == Step("ethRecord")
               ok == nonce = ethNonces[from] /\ to # Zero /\ value > 0
    <2>2. BeginIf(ok, p, r, <<a, b, c>>) /\ ok \in BOOLEAN
      BY <2>1
    <2>3. /\ value \in Int /\ from \in Addr /\ to \in Addr
          /\ "GORR" \in Token /\ "ethRecord" \in OpKind
      BY <1>0
    <2> HIDE DEF value
    <2>4. /\ a \in Op /\ b \in Op /\ c \in Op
          /\ a.kind = "sub" /\ b.kind = "add" /\ c.kind = "ethRecord"
      BY <2>3, StepsType, KindOf
    <2>5. r.method # "adminWithdrawFees"
      BY DEF NewRequest
    <2> HIDE DEF r, a, b, c, ok
    <2>6. <<a, b, c>> \in Seq(CollectOp)
      BY <2>4, CollectLists
    <2>7. QED
      BY <2>2, <2>5, <2>6, BeginIfPot
  <1>11. QED
    BY <1>1, <1>2, <1>3, <1>4, <1>5, <1>6, <1>7, <1>8, <1>9, <1>10 DEF Arrive

\* The step a handler takes is one of the operation at hand.
LEMMA StepOfOperation ==
  ASSUME TypeOK, NEW p \in Procs, Execute(p), PlaceFits(p)
  PROVE  /\ todo[p] = <<>> => Succeed(p)
         /\ todo[p] # <<>> =>
              /\ Cur(p).kind = "need" => CheckFunds(p)
              /\ Cur(p).kind = "sub" => Debit(p) \/ LoadAccount(p) \/ StoreAccount(p)
              /\ Cur(p).kind = "add" => Credit(p) \/ LoadAccount(p) \/ StoreAccount(p)
              /\ Cur(p).kind \in {"feeAdd", "feeSub"} =>
                   ReadFees(p) \/ WriteFees(p) \/ MarshalMeta(p) \/ PutMeta(p)
              /\ Cur(p).kind \notin {"feeAdd", "feeSub"} =>
                   ~ReadFees(p) /\ ~WriteFees(p) /\ ~MarshalMeta(p) /\ ~PutMeta(p)
  <1>1. /\ CheckFunds(p) => todo[p] # <<>> /\ Cur(p).kind = "need"
        /\ Debit(p) => todo[p] # <<>> /\ Cur(p).kind = "sub"
        /\ Credit(p) => todo[p] # <<>> /\ Cur(p).kind = "add"
        /\ ReadSupply(p) => todo[p] # <<>> /\ Cur(p).kind \in {"supplyAdd", "supplySub"}
        /\ ReadFees(p) => todo[p] # <<>> /\ Cur(p).kind \in {"feeAdd", "feeSub"}
        /\ RecordEthTx(p) => todo[p] # <<>> /\ Cur(p).kind = "ethRecord"
        /\ CheckPaused(p) => todo[p] # <<>> /\ Cur(p).kind = "unlessPaused"
        /\ RejectZeroTarget(p) => todo[p] # <<>> /\ Cur(p).kind = "fail"
        /\ Succeed(p) => todo[p] = <<>>
    BY DEF CheckFunds, Debit, Credit, ReadSupply, ReadFees, RecordEthTx, CheckPaused,
           RejectZeroTarget, Succeed, At
  <1>2. pc[p] \notin {"idle", "run"} => todo[p] # <<>>
    BY DEF TypeOK
  <1>3. /\ LoadAccount(p) \/ StoreAccount(p) => todo[p] # <<>> /\ Cur(p).kind \in {"sub", "add"}
        /\ WriteSupply(p) => todo[p] # <<>> /\ Cur(p).kind \in {"supplyAdd", "supplySub"}
        /\ WriteFees(p) \/ MarshalMeta(p) \/ PutMeta(p) =>
             todo[p] # <<>> /\ Cur(p).kind \in {"feeAdd", "feeSub"}
    BY <1>2 DEF LoadAccount, StoreAccount, WriteSupply, WriteFees, MarshalMeta, PutMeta,
                PlaceFits, Writing
  <1>4. QED
    BY <1>1, <1>3 DEF Execute

\* What the steps on accounts, supply and records leave alone.
LEMMA OtherSteps ==
  ASSUME TypeOK, NEW p \in Procs, Execute(p),
         ~ReadFees(p) /\ ~WriteFees(p) /\ ~MarshalMeta(p) /\ ~PutMeta(p)
  PROVE  /\ meta' = meta
         /\ pc[p] \in {"run", "load", "store", "supply"}
         /\ pc'[p] \in {"idle", "run", "load", "store", "supply"}
         /\ todo'[p] \in {todo[p], Tail(todo[p]), <<>>}
         /\ owed' = owed \/ (StoreAccount(p) /\ req[p].method = "adminWithdrawFees")
  <1> USE DEF storeVars, memVars, regVars, callVars, histVars, At, Advance, Goto, Return
  <1>0. p \in DOMAIN pc /\ p \in DOMAIN todo
    BY DEF TypeOK
  <1>1. CASE CheckFunds(p) \/ Debit(p) \/ Credit(p) \/ LoadAccount(p)
    BY <1>0, <1>1 DEF CheckFunds, Debit, Credit, LoadAccount
  <1>2. CASE StoreAccount(p)
    BY <1>0, <1>2 DEF StoreAccount
  <1>3. CASE ReadSupply(p) \/ WriteSupply(p)
    BY <1>0, <1>3 DEF ReadSupply, WriteSupply
  <1>4. CASE RecordEthTx(p) \/ CheckPaused(p) \/ RejectZeroTarget(p) \/ Succeed(p)
    BY <1>0, <1>4 DEF RecordEthTx, CheckPaused, RejectZeroTarget, Succeed
  <1>5. QED
    BY <1>1, <1>2, <1>3, <1>4 DEF Execute

\* The pot after one step, whatever handler it belongs to.
PotNext(p) ==
    /\ WithdrawWithinCollected'
    /\ IF pc'[p] = "idle" THEN owed' = meta'.fees
       ELSE IF req[p].method = "adminWithdrawFees" THEN Withdrawing(p)' ELSE Collecting(p)'

LEMMA CollectStep ==
  ASSUME TypeOK, TypeOK', NEW p \in Procs, Execute(p), PlaceFits(p), WithdrawWithinCollected,
         req[p].method # "adminWithdrawFees", Collecting(p)
  PROVE  PotNext(p)
  <1> DEFINE ops == todo[p]
  <1>0. /\ p \in DOMAIN pc /\ p \in DOMAIN todo /\ p \in DOMAIN next
        /\ meta \in Meta /\ owed \in [Token -> Int] /\ ops \in Seq(CollectOp)
        /\ owed' \in [Token -> Int] /\ pc[p] # "idle" /\ req' = req
    BY ExecuteFrame DEF TypeOK, Collecting
  <1>1. <<>> \in Seq(CollectOp) /\ (ops # <<>> => Tail(ops) \in Seq(CollectOp) /\ Cur(p) \in CollectOp)
    <2>1. \A s \in Seq(CollectOp) : s # <<>> => Tail(s) \in Seq(CollectOp) /\ Head(s) \in CollectOp
      BY HeadTailProperties
    <2>2. <<>> \in Seq(CollectOp)
      OBVIOUS
    <2>3. QED
      BY <1>0, <2>1, <2>2 DEF Cur
  <1>2. CASE ~ReadFees(p) /\ ~WriteFees(p) /\ ~MarshalMeta(p) /\ ~PutMeta(p)
    <2>1. /\ meta' = meta /\ owed' = owed /\ pc[p] # "fees" /\ pc'[p] # "fees"
          /\ todo'[p] \in {ops, Tail(ops), <<>>}
      BY <1>2, OtherSteps
    <2>2. todo'[p] \in Seq(CollectOp)
      <3>1. ops = <<>> => todo'[p] = <<>>
        BY <1>0, StepOfOperation DEF Succeed, Return
      <3>2. QED
        BY <1>0, <1>1, <2>1, <3>1
    <2>3. QED
      BY <2>1, <2>2 DEF PotNext, Collecting, WithdrawWithinCollected
  <1>3. CASE ReadFees(p) \/ WriteFees(p) \/ MarshalMeta(p) \/ PutMeta(p)
    <2>1. ops # <<>> /\ Cur(p).kind = "feeAdd" /\ Cur(p).amt > 0
          /\ Cur(p).amt \in Int /\ Cur(p).token \in Token
      <3>1. ops # <<>>
        BY <1>3, StepOfOperation DEF ReadFees, WriteFees, MarshalMeta, PutMeta, At, Succeed
      <3>2. Cur(p).kind \in {"feeAdd", "feeSub"}
        BY <1>3, <3>1, StepOfOperation
      <3>3. QED
        BY <1>1, <3>1, <3>2, CurType DEF CollectOp
    <2> DEFINE t == Cur(p).token
               amt == Cur(p).amt
    <2>2. CASE ReadFees(p)
      <3>1. /\ pc[p] = "run" /\ pc'[p] = "fees" /\ todo' = todo /\ meta' = meta
            /\ next'[p] = meta.fees[t] + amt /\ owed' = [owed EXCEPT ![t] = @ + amt]
        BY <1>0, <2>1, <2>2 DEF ReadFees, At, Goto, storeVars, memVars
      <3>2. owed = meta.fees
        BY <3>1 DEF Collecting
      <3>3. Cur(p)' = Cur(p)
        BY <3>1 DEF Cur
      <3> HIDE DEF t, amt
      <3>4. t \in Token /\ amt \in Int /\ amt > 0
        BY <2>1 DEF t, amt
      <3>5. WithdrawWithinCollected'
        <4>1. \A u \in Token : owed[u] >= 0 /\ owed[u] \in Int
          BY <1>0 DEF WithdrawWithinCollected
        <4>2. \A u \in Token : owed'[u] = IF u = t THEN owed[u] + amt ELSE owed[u]
          BY <1>0, <3>1, <3>4
        <4>3. QED
          BY <3>4, <4>1, <4>2 DEF WithdrawWithinCollected
      <3>6. next'[p] = owed'[t]
        BY <1>0, <3>1, <3>2, <3>4
      <3>7. Collecting(p)'
        <4>1. Cur(p)'.token = t /\ Cur(p)'.amt = amt
          BY <3>3 DEF t, amt
        <4>2. QED
          BY <1>0, <3>1, <3>2, <3>6, <4>1 DEF Collecting
      <3>8. QED
        BY <1>0, <3>1, <3>5, <3>7 DEF PotNext
    <2>3. CASE WriteFees(p)
      <3>1. /\ pc[p] = "fees" /\ pc'[p] = "marshal" /\ todo' = todo /\ owed' = owed
            /\ meta' = [meta EXCEPT !.fees[t] = next[p]]
        BY <1>0, <2>3 DEF WriteFees, Goto, histVars
      <3>2. owed = [meta.fees EXCEPT ![t] = @ + amt] /\ next[p] = owed[t]
        BY <3>1 DEF Collecting
      <3> HIDE DEF t, amt
      <3>3. t \in Token
        BY <2>1 DEF t
      <3>4. meta'.fees = [meta.fees EXCEPT ![t] = next[p]]
        BY <1>0, <3>1 DEF Meta
      <3>5. meta'.fees = owed'
        BY <1>0, <3>1, <3>2, <3>3, <3>4 DEF Meta
      <3>6. QED
        BY <1>0, <3>1, <3>5 DEF PotNext, Collecting, WithdrawWithinCollected
    <2>4. CASE MarshalMeta(p)
      <3>1. /\ pc[p] = "marshal" /\ pc'[p] = "put" /\ todo' = todo /\ owed' = owed /\ meta' = meta
        BY <1>0, <2>4 DEF MarshalMeta, Goto, storeVars, memVars, histVars
      <3>2. QED
        BY <1>0, <3>1 DEF PotNext, Collecting, WithdrawWithinCollected
    <2>5. CASE PutMeta(p)
      <3>1. /\ pc[p] = "put" /\ pc'[p] = "run" /\ todo'[p] = Tail(ops) /\ owed' = owed
            /\ meta' = meta
        BY <1>0, <2>5 DEF PutMeta, Advance, memVars, histVars
      <3>2. QED
        BY <1>0, <1>1, <2>1, <3>1 DEF PotNext, Collecting, WithdrawWithinCollected
    <2>6. QED
      BY <1>3, <2>2, <2>3, <2>4, <2>5
  <1>4. QED
    BY <1>2, <1>3

LEMMA WithdrawStep ==
  ASSUME TypeOK, TypeOK', NEW p \in Procs, Execute(p), PlaceFits(p), WithdrawWithinCollected,
         req[p].method = "adminWithdrawFees", Withdrawing(p)
  PROVE  PotNext(p)
  <1> DEFINE r == req[p]
             t == r.token
  <1>0. /\ p \in DOMAIN pc /\ p \in DOMAIN todo /\ p \in DOMAIN next
        /\ meta \in Meta /\ owed \in [Token -> Int] /\ pc[p] # "idle" /\ req' = req
        /\ r \in Request /\ t \in Token /\ r.amt \in Int /\ r.amt > 0
        /\ pc[p] \in {"run", "load", "store", "supply", "fees", "marshal", "put"}
    BY ExecuteFrame DEF TypeOK, Withdrawing, Request
  <1>1. /\ Tail(Needs(r)) = Debits(r) /\ Tail(Debits(r)) = Credits(r)
        /\ Tail(Credits(r)) = Books(r) /\ Tail(Books(r)) = <<>>
        /\ Needs(r) # <<>> /\ Debits(r) # <<>> /\ Credits(r) # <<>> /\ Books(r) # <<>>
        /\ Head(Needs(r)).kind = "need" /\ Head(Debits(r)).kind = "sub"
        /\ Head(Credits(r)).kind = "add" /\ Head(Books(r)).kind = "feeSub"
        /\ Head(Debits(r)).token = t /\ Head(Debits(r)).amt = r.amt
        /\ Head(Books(r)).token = t /\ Head(Books(r)).amt = r.amt
    BY <1>0, WithdrawLists
  <1>2. meta.fees \in [Token -> Int]
    BY <1>0 DEF Meta
  <1> HIDE DEF r, t
  <1>r. r = req[p] /\ t = r.token /\ req'[p] = r
    BY <1>0 DEF r, t
  <1>3. CASE todo[p] = Needs(r) /\ owed = meta.fees /\ r.amt <= owed[t]
    <2>1. CheckFunds(p)
      BY <1>1, <1>3, StepOfOperation DEF Cur
    <2>2. /\ owed' = owed /\ meta' = meta
          /\ pc'[p] = "idle" \/ (pc'[p] = "run" /\ todo'[p] = Debits(r))
      BY <1>0, <1>1, <1>3, <2>1 DEF CheckFunds, Return, Advance, storeVars, memVars, histVars
    <2>3. QED
      BY <1>0, <1>r, <1>3, <2>2 DEF PotNext, Withdrawing, WithdrawWithinCollected
  <1>4. CASE todo[p] = Debits(r) /\ owed = meta.fees /\ r.amt <= owed[t]
    <2>1. Cur(p).kind = "sub" /\ Cur(p).token = t /\ Cur(p).amt = r.amt
      BY <1>1, <1>4 DEF Cur
    <2>2. CASE Debit(p) \/ LoadAccount(p)
      <3>1. /\ owed' = owed /\ meta' = meta
            /\ pc'[p] = "idle" \/ (pc'[p] \in {"load", "store"} /\ todo' = todo)
        BY <1>0, <2>2 DEF Debit, LoadAccount, Return, Goto, storeVars, memVars, histVars
      <3>2. QED
        BY <1>0, <1>r, <1>4, <3>1 DEF PotNext, Withdrawing, WithdrawWithinCollected
    <2>3. CASE StoreAccount(p)
      <3>1. /\ owed' = [owed EXCEPT ![t] = @ - r.amt] /\ meta' = meta
            /\ pc'[p] = "run" /\ todo'[p] = Credits(r)
        BY <1>0, <1>r, <1>1, <1>4, <2>1, <2>3 DEF StoreAccount, Advance, memVars
      <3>2. \A u \in Token : owed'[u] = IF u = t THEN owed[u] - r.amt ELSE owed[u]
        BY <1>0, <3>1
      <3>3. WithdrawWithinCollected'
        <4>1. \A u \in Token : owed[u] \in Int /\ owed[u] >= 0
          BY <1>0 DEF WithdrawWithinCollected
        <4>2. QED
          BY <1>0, <1>4, <3>2, <4>1 DEF WithdrawWithinCollected
      <3>4. owed' = [meta'.fees EXCEPT ![t] = @ - r.amt]
        BY <1>4, <3>1
      <3>5. QED
        BY <1>0, <1>r, <3>1, <3>3, <3>4 DEF PotNext, Withdrawing
    <2>4. QED
      BY <1>1, <1>4, <2>1, <2>2, <2>3, StepOfOperation
  <1>5. CASE /\ todo[p] = Credits(r) /\ pc[p] \notin {"marshal", "put"}
             /\ owed = [meta.fees EXCEPT ![t] = @ - r.amt]
    <2>1. Cur(p).kind = "add"
      BY <1>1, <1>5 DEF Cur
    <2>2. Credit(p) \/ LoadAccount(p) \/ StoreAccount(p)
      BY <1>1, <1>5, <2>1, StepOfOperation
    <2>3. /\ owed' = owed /\ meta' = meta
          /\ \/ pc'[p] \in {"load", "store"} /\ todo' = todo
             \/ pc'[p] = "run" /\ todo'[p] = Books(r)
      BY <1>0, <1>1, <1>5, <2>1, <2>2
         DEF Credit, LoadAccount, StoreAccount, Advance, Goto, storeVars, memVars, histVars
    <2>4. QED
      BY <1>0, <1>r, <1>5, <2>3 DEF PotNext, Withdrawing, WithdrawWithinCollected
  <1>6. CASE /\ todo[p] = Books(r) /\ pc[p] \notin {"marshal", "put"}
             /\ owed = [meta.fees EXCEPT ![t] = @ - r.amt]
             /\ pc[p] = "fees" => next[p] = owed[t]
    <2>1. Cur(p).kind = "feeSub" /\ Cur(p).token = t /\ Cur(p).amt = r.amt
      BY <1>1, <1>6 DEF Cur
    <2>2. ReadFees(p) \/ WriteFees(p)
      <3>1. ReadFees(p) \/ WriteFees(p) \/ MarshalMeta(p) \/ PutMeta(p)
        BY <1>1, <1>6, <2>1, StepOfOperation
      <3>2. QED
        BY <1>6, <3>1 DEF MarshalMeta, PutMeta
    <2>3. owed[t] = meta.fees[t] - r.amt /\ meta.fees[t] \in Int /\ owed[t] >= 0
      BY <1>0, <1>2, <1>6 DEF WithdrawWithinCollected
    <2>4. CASE ReadFees(p)
      <3>1. /\ owed' = owed /\ meta' = meta /\ pc'[p] = "fees" /\ todo' = todo
            /\ next'[p] = IF meta.fees[t] < r.amt THEN 0 ELSE meta.fees[t] - r.amt
        BY <1>0, <2>1, <2>4 DEF ReadFees, Goto, storeVars, memVars
      <3>2. next'[p] = owed'[t]
        BY <1>0, <2>3, <3>1
      <3>3. QED
        BY <1>0, <1>r, <1>6, <3>1, <3>2 DEF PotNext, Withdrawing, WithdrawWithinCollected
    <2>5. CASE WriteFees(p)
      <3>1. /\ owed' = owed /\ pc[p] = "fees" /\ pc'[p] = "marshal" /\ todo' = todo
            /\ meta' = [meta EXCEPT !.fees[t] = next[p]]
        BY <1>0, <2>1, <2>5 DEF WriteFees, Goto, histVars
      <3>2. meta'.fees = [meta.fees EXCEPT ![t] = next[p]]
        BY <1>0, <3>1 DEF Meta
      <3>3. meta'.fees = owed'
        BY <1>0, <1>2, <1>6, <3>1, <3>2
      <3>4. QED
        BY <1>0, <1>r, <1>6, <3>1, <3>3 DEF PotNext, Withdrawing, WithdrawWithinCollected
    <2>6. QED
      BY <2>2, <2>4, <2>5
  <1>7. CASE todo[p] = Books(r) /\ pc[p] \in {"marshal", "put"} /\ owed = meta.fees
    <2>1. Cur(p).kind = "feeSub"
      BY <1>1, <1>7 DEF Cur
    <2>2. MarshalMeta(p) \/ PutMeta(p)
      <3>1. ReadFees(p) \/ WriteFees(p) \/ MarshalMeta(p) \/ PutMeta(p)
        BY <1>1, <1>7, <2>1, StepOfOperation
      <3>2. QED
        BY <1>7, <3>1 DEF ReadFees, WriteFees, At
    <2>3. /\ owed' = owed /\ meta' = meta
          /\ \/ pc'[p] = "put" /\ todo' = todo
             \/ pc'[p] = "run" /\ todo'[p] = <<>>
      BY <1>0, <1>1, <1>7, <2>2
         DEF MarshalMeta, PutMeta, Advance, Goto, storeVars, memVars, histVars
    <2>4. QED
      BY <1>0, <1>r, <1>7, <2>3 DEF PotNext, Withdrawing, WithdrawWithinCollected
  <1>8. CASE todo[p] = <<>> /\ owed = meta.fees
    <2>1. Succeed(p)
      BY <1>8, StepOfOperation
    <2>2. owed' = owed /\ meta' = meta /\ pc'[p] = "idle"
      BY <1>0, <2>1 DEF Succeed, Return, storeVars, memVars, histVars
    <2>3. QED
      BY <1>8, <2>2 DEF PotNext, WithdrawWithinCollected
  <1>9. QED
    BY <1>3, <1>4, <1>5, <1>6, <1>7, <1>8, <1>r DEF Withdrawing

\* A handler starts with the pot and the count equal, and a withdrawal within it.
LEMMA StartPot ==
  ASSUME TypeOK, TypeOK', NEW p \in Procs, PotInv(p), Arrive(p)
  PROVE  PotInv(p)'
  <1>1. CASE Answers(p)
    <2>1. PICK r, result : Answer(p, r, result)
      BY <1>1 DEF Answers
    <2>2. owed' = owed /\ pc' = pc /\ pc[p] = "idle"
      BY <2>1 DEF Answer, Receive
    <2>3. meta'.fees = meta.fees
      BY ArriveFees
    <2>4. QED
      BY <2>2, <2>3 DEF PotInv, WithdrawWithinCollected
  <1>2. CASE StartsPot(p)
    <2>1. PICK r, ops :
            /\ Begin(p, r, ops)
            /\ IF r.method = "adminWithdrawFees"
               THEN ops = Needs(r) /\ r.amt > 0 /\ r.amt <= meta.fees[r.token]
               ELSE ops \in Seq(CollectOp)
      BY <1>2 DEF StartsPot
    <2>2. /\ owed' = owed /\ meta' = meta /\ pc[p] = "idle" /\ owed = meta.fees
          /\ pc'[p] = "run" /\ todo'[p] = ops /\ req'[p] = r
      BY <2>1 DEF Begin, Receive, TypeOK, PotInv
    <2>3. CASE r.method = "adminWithdrawFees"
      BY <2>1, <2>2, <2>3 DEF PotInv, Withdrawing, WithdrawWithinCollected
    <2>4. CASE r.method # "adminWithdrawFees"
      BY <2>1, <2>2, <2>4 DEF PotInv, Collecting, WithdrawWithinCollected
    <2>5. QED
      BY <2>3, <2>4
  <1>3. QED
    BY <1>1, <1>2, ArrivePot

LEMMA NextPot ==
  ASSUME NEW p, Procs = {p}, MaxRestarts = 0, OrderInv, TypeOK', PotInv(p), [Next]_vars
  PROVE  PotInv(p)'
  <1>0. p \in Procs /\ TypeOK
    BY DEF OrderInv
  <1>1. ~Restart
    BY <1>0 DEF Restart, TypeOK
  <1>2. CASE Arrive(p)
    BY <1>0, <1>2, StartPot
  <1>3. CASE Execute(p)
    <2>1. pc[p] # "idle" /\ req' = req /\ PlaceFits(p)
      BY <1>0, <1>3, ExecuteFrame DEF OrderInv, AllInOrder, InOrder
    <2>2. PotNext(p)
      BY <1>0, <1>3, <2>1, CollectStep, WithdrawStep DEF PotInv
    <2>3. QED
      BY <2>1, <2>2 DEF PotNext, PotInv
  <1>4. CASE UNCHANGED vars
    BY <1>4 DEF vars, memVars, regVars, callVars, histVars, PotInv, WithdrawWithinCollected,
                Withdrawing, Collecting, Cur
  <1>5. QED
    BY <1>0, <1>1, <1>2, <1>3, <1>4 DEF Next, Wait

\* adminWithdrawFees, "cannot withdraw more than collected": with one request at
\* a time and no crash, no number of transfers, rate changes and withdrawals
\* takes out more than was collected.
THEOREM WithdrawalsAreCovered ==
  ASSUME NEW p, Procs = {p}, MaxRestarts = 0
  PROVE  Spec => []WithdrawWithinCollected
  <1>1. Init => PotInv(p)
    <2>1. Init => owed = meta.fees /\ pc[p] = "idle"
      BY DEF Init
    <2>2. Init => WithdrawWithinCollected
      BY AddressesAssumption DEF Init, WithdrawWithinCollected
    <2>3. QED
      BY <2>1, <2>2 DEF PotInv
  <1>2. OrderInv /\ PotInv(p) /\ [Next]_vars => PotInv(p)'
    <2>1. OrderInv /\ [Next]_vars => TypeOK'
      BY NextType DEF OrderInv
    <2>2. QED
      BY <2>1, NextPot
  <1>3. PotInv(p) => WithdrawWithinCollected
    BY DEF PotInv
  <1>4. QED
    BY InitOrder, NextOrder, <1>1, <1>2, <1>3, PTL DEF Spec

-----------------------------------------------------------------------------
(* What a handler still has to pay out *)

\* Fee rates up to 100%: the receiver's share is never below zero then.
FairRate == 0..10000
RatesFair == FeeRates \subseteq FairRate /\ InitialMeta.bps \in FairRate

\* What an operation credits, and what the operations of a list do; no handler
\* has more than five.
Gain(op, t) == IF op.kind = "add" /\ op.token = t /\ op.amt > 0 THEN op.amt ELSE 0
GainAt(ops, i, t) == IF i \in 1..Len(ops) THEN Gain(ops[i], t) ELSE 0
Adds(ops, t) ==
    GainAt(ops, 1, t) + GainAt(ops, 2, t) + GainAt(ops, 3, t) + GainAt(ops, 4, t) + GainAt(ops, 5, t)

\* After the debit nothing may stop a handler but its last operation.
Paying(ops) ==
    /\ Len(ops) <= 5
    /\ \A i \in 1..Len(ops) : /\ ops[i].kind \notin {"need", "sub"}
                              /\ ops[i].kind \in {"unlessPaused", "fail"} => i = Len(ops)

\* A debit comes first and pays for all credits that follow it, or for none.
Debiting(ops, burns) ==
    /\ ops # <<>> /\ Head(ops).kind = "sub" /\ Paying(Tail(ops))
    /\ Head(ops).amt >= 0 => \A t \in Token :
          Adds(Tail(ops), t) = IF t = Head(ops).token /\ ~burns THEN Head(ops).amt ELSE 0

Checking(ops, burns) == ops # <<>> /\ Head(ops).kind = "need" /\ Debiting(Tail(ops), burns)

Planned(ops, burns) == Paying(ops) \/ Debiting(ops, burns) \/ Checking(ops, burns)

\* What the credits that are left are not yet debited for is nothing: it counts
\* from the debit on.
Due(ops, t) == IF Paying(ops) THEN Adds(ops, t) ELSE 0

\* Sums of credits are natural numbers.
LEMMA GainType ==
  ASSUME NEW op \in Op, NEW t
  PROVE  Gain(op, t) \in Nat /\ (op.kind # "add" => Gain(op, t) = 0)
  BY DEF Gain, Op

LEMMA DueType ==
  ASSUME NEW ops \in Seq(Op), NEW t
  PROVE  /\ \A i \in Int : GainAt(ops, i, t) \in Nat
         /\ Adds(ops, t) \in Nat /\ Due(ops, t) \in Nat
  <1>1. \A i \in Int : GainAt(ops, i, t) \in Nat
    <2>1. \A i \in 1..Len(ops) : ops[i] \in Op
      BY ElementOfSeq
    <2>2. QED
      BY <2>1, GainType DEF GainAt
  <1>2. /\ GainAt(ops, 1, t) \in Nat /\ GainAt(ops, 2, t) \in Nat /\ GainAt(ops, 3, t) \in Nat
        /\ GainAt(ops, 4, t) \in Nat /\ GainAt(ops, 5, t) \in Nat
    BY <1>1
  <1>3. Adds(ops, t) \in Nat
    BY <1>2 DEF Adds
  <1>4. QED
    BY <1>1, <1>3 DEF Due

\* The credits of a list are those of its first operation and of the rest.
LEMMA AddsOfTail ==
  ASSUME NEW ops \in Seq(Op), ops # <<>>, Len(ops) <= 5, NEW t
  PROVE  Adds(ops, t) = Gain(Head(ops), t) + Adds(Tail(ops), t)
  <1>1. /\ Len(ops) \in Nat \ {0} /\ Head(ops) = ops[1] /\ Len(Tail(ops)) = Len(ops) - 1
        /\ \A i \in 1..Len(Tail(ops)) : Tail(ops)[i] = ops[i + 1]
        /\ Tail(ops) \in Seq(Op)
    BY HeadTailProperties, LenProperties, EmptySeq
  <1>2. GainAt(ops, 1, t) = Gain(Head(ops), t)
    BY <1>1 DEF GainAt
  <1>3. ASSUME NEW i \in 1..4 PROVE GainAt(Tail(ops), i, t) = GainAt(ops, i + 1, t)
    <2>1. i \in 1..Len(Tail(ops)) <=> i + 1 \in 1..Len(ops)
      BY <1>1
    <2>2. QED
      BY <1>1, <2>1 DEF GainAt
  <1>4. GainAt(Tail(ops), 5, t) = 0
    BY <1>1 DEF GainAt
  <1>5. /\ GainAt(Tail(ops), 1, t) = GainAt(ops, 2, t) /\ GainAt(Tail(ops), 2, t) = GainAt(ops, 3, t)
        /\ GainAt(Tail(ops), 3, t) = GainAt(ops, 4, t) /\ GainAt(Tail(ops), 4, t) = GainAt(ops, 5, t)
    <2>1. 1 \in 1..4 /\ 2 \in 1..4 /\ 3 \in 1..4 /\ 4 \in 1..4 /\ 1 + 1 = 2 /\ 2 + 1 = 3 /\ 3 + 1 = 4 /\ 4 + 1 = 5
      OBVIOUS
    <2>2. GainAt(Tail(ops), 1, t) = GainAt(ops, 1 + 1, t)
      BY <1>3, <2>1
    <2>3. GainAt(Tail(ops), 2, t) = GainAt(ops, 2 + 1, t)
      BY <1>3, <2>1
    <2>4. GainAt(Tail(ops), 3, t) = GainAt(ops, 3 + 1, t)
      BY <1>3, <2>1
    <2>5. GainAt(Tail(ops), 4, t) = GainAt(ops, 4 + 1, t)
      BY <1>3, <2>1
    <2>6. QED
      BY <2>1, <2>2, <2>3, <2>4, <2>5
  <1>6. /\ GainAt(ops, 1, t) \in Nat /\ GainAt(ops, 2, t) \in Nat /\ GainAt(ops, 3, t) \in Nat
        /\ GainAt(ops, 4, t) \in Nat /\ GainAt(ops, 5, t) \in Nat
    <2>1. \A i \in Int : GainAt(ops, i, t) \in Nat
      BY DueType
    <2>2. 1 \in Int /\ 2 \in Int /\ 3 \in Int /\ 4 \in Int /\ 5 \in Int
      OBVIOUS
    <2>3. QED
      BY <2>1, <2>2, Zenon
  <1>7. Adds(ops, t) = Gain(Head(ops), t) + (GainAt(ops, 2, t) + GainAt(ops, 3, t) + GainAt(ops, 4, t) + GainAt(ops, 5, t))
    BY <1>2, <1>6 DEF Adds
  <1>8. Adds(Tail(ops), t) = GainAt(ops, 2, t) + GainAt(ops, 3, t) + GainAt(ops, 4, t) + GainAt(ops, 5, t)
    BY <1>4, <1>5, <1>6 DEF Adds
  <1>9. QED
    BY <1>7, <1>8

\* A list that pays goes on paying.
LEMMA PayingTail ==
  ASSUME NEW ops \in Seq(Op), ops # <<>>, Paying(ops)
  PROVE  /\ Paying(Tail(ops)) /\ Head(ops).kind \notin {"need", "sub"}
         /\ Head(ops).kind \in {"unlessPaused", "fail"} => Tail(ops) = <<>>
  <1> DEFINE rest == Tail(ops)
  <1>1. /\ Len(ops) \in Nat \ {0} /\ Head(ops) = ops[1] /\ Len(rest) = Len(ops) - 1
        /\ \A i \in 1..Len(rest) : rest[i] = ops[i + 1]
    BY HeadTailProperties, LenProperties, EmptySeq
  <1>2. rest \in Seq(Op)
    BY HeadTailProperties
  <1> HIDE DEF rest
  <1>3. Len(ops) <= 5
    BY DEF Paying
  <1>4. \A i \in 1..Len(ops) : /\ ops[i].kind \notin {"need", "sub"}
                               /\ ops[i].kind \in {"unlessPaused", "fail"} => i = Len(ops)
    BY DEF Paying
  <1>5. 1 \in 1..Len(ops)
    BY <1>1
  <1>6. ASSUME NEW i \in 1..Len(rest)
        PROVE  /\ rest[i].kind \notin {"need", "sub"}
               /\ rest[i].kind \in {"unlessPaused", "fail"} => i = Len(rest)
    <2>1. i + 1 \in 1..Len(ops) /\ (i + 1 = Len(ops) => i = Len(rest))
      BY <1>1
    <2>2. rest[i] = ops[i + 1]
      BY <1>1
    <2>3. QED
      BY <1>4, <2>1, <2>2
  <1>7. Len(rest) <= 5
    BY <1>1, <1>3
  <1>8. Paying(rest)
    BY <1>6, <1>7 DEF Paying
  <1>9. Head(ops).kind \notin {"need", "sub"} /\ (Head(ops).kind \in {"unlessPaused", "fail"} => 1 = Len(ops))
    BY <1>1, <1>4, <1>5
  <1>10. 1 = Len(ops) => rest = <<>>
    BY <1>1, <1>2, EmptySeq
  <1>11. QED
    BY <1>8, <1>9, <1>10 DEF rest

LEMMA NothingLeft == Paying(<<>>) /\ \A t : Due(<<>>, t) = 0 /\ Adds(<<>>, t) = 0
  <1>1. Len(<<>>) = 0
    OBVIOUS
  <1>2. Paying(<<>>) /\ \A t, i : GainAt(<<>>, i, t) = 0
    BY <1>1 DEF Paying, GainAt
  <1>3. QED
    BY <1>2 DEF Due, Adds

\* What starts with a check or a debit owes nothing yet.
LEMMA NothingDue ==
  ASSUME NEW ops \in Seq(Op), ops # <<>>, Head(ops).kind \in {"need", "sub"}
  PROVE  \A t : Due(ops, t) = 0
  <1>1. ~Paying(ops)
    BY PayingTail
  <1>2. QED
    BY <1>1 DEF Due

\* A list that pays may have an operation that does not stop put before it.
LEMMA MoreLeft ==
  ASSUME NEW s \in Seq(Op), s # <<>>, Len(s) <= 5, Paying(Tail(s)),
         Head(s).kind \notin {"need", "sub"},
         Head(s).kind \in {"unlessPaused", "fail"} => Tail(s) = <<>>
  PROVE  Paying(s) /\ \A t : Adds(s, t) = Gain(Head(s), t) + Adds(Tail(s), t)
  <1> DEFINE rest == Tail(s)
  <1>1. /\ Len(s) \in Nat \ {0} /\ Head(s) = s[1] /\ Len(rest) = Len(s) - 1
        /\ \A i \in 1..Len(rest) : rest[i] = s[i + 1]
    BY HeadTailProperties, LenProperties, EmptySeq
  <1>2. /\ \A i \in 1..Len(rest) : /\ rest[i].kind \notin {"need", "sub"}
                                   /\ rest[i].kind \in {"unlessPaused", "fail"} => i = Len(rest)
    BY DEF Paying
  <1>3. rest = <<>> => Len(rest) = 0
    BY NothingLeft, EmptySeq
  <1> HIDE DEF rest
  <1>4. ASSUME NEW i \in 1..Len(s)
        PROVE  /\ s[i].kind \notin {"need", "sub"}
               /\ s[i].kind \in {"unlessPaused", "fail"} => i = Len(s)
    <2>1. CASE i = 1
      BY <1>1, <1>3, <2>1 DEF rest
    <2>2. CASE i # 1
      <3>1. i - 1 \in 1..Len(rest) /\ (i - 1 = Len(rest) => i = Len(s)) /\ (i - 1) + 1 = i
        BY <1>1, <2>2
      <3>2. rest[i - 1] = s[i]
        BY <1>1, <3>1
      <3>3. QED
        BY <1>2, <3>1, <3>2
    <2>3. QED
      BY <2>1, <2>2
  <1>5. Paying(s)
    BY <1>4 DEF Paying
  <1>6. QED
    BY <1>5, AddsOfTail

\* What one, two and four operations after a debit credit.
LEMMA OneLeft ==
  ASSUME NEW a \in Op, a.kind \notin {"need", "sub"}
  PROVE  Paying(<<a>>) /\ \A t : Adds(<<a>>, t) = Gain(a, t)
  <1> DEFINE s == <<a>>
  <1>1. s \in Seq(Op) /\ s # <<>> /\ Len(s) <= 5 /\ Head(s) = a /\ Tail(s) = <<>>
    OBVIOUS
  <1> HIDE DEF s
  <1>2. Paying(s) /\ \A t : Adds(s, t) = Gain(a, t) + Adds(<<>>, t)
    BY <1>1, MoreLeft, NothingLeft
  <1>3. \A t : Gain(a, t) \in Nat /\ Adds(<<>>, t) = 0
    BY GainType, NothingLeft
  <1>4. Paying(s) /\ \A t : Adds(s, t) = Gain(a, t)
    BY <1>2, <1>3
  <1>5. QED
    BY <1>4 DEF s

LEMMA TwoLeft ==
  ASSUME NEW a \in Op, NEW b \in Op,
         a.kind \notin {"need", "sub", "unlessPaused", "fail"}, b.kind \notin {"need", "sub"}
  PROVE  Paying(<<a, b>>) /\ \A t : Adds(<<a, b>>, t) = Gain(a, t) + Gain(b, t)
  <1> DEFINE s == <<a, b>>
  <1>1. s \in Seq(Op) /\ s # <<>> /\ Len(s) <= 5 /\ Head(s) = a /\ Tail(s) = <<b>>
    OBVIOUS
  <1> HIDE DEF s
  <1>2. Paying(<<b>>) /\ \A t : Adds(<<b>>, t) = Gain(b, t)
    BY OneLeft
  <1>3. Paying(s) /\ \A t : Adds(s, t) = Gain(a, t) + Adds(<<b>>, t)
    BY <1>1, <1>2, MoreLeft
  <1>4. QED
    BY <1>2, <1>3 DEF s

LEMMA FourLeft ==
  ASSUME NEW a \in Op, NEW b \in Op, NEW c \in Op, NEW d \in Op,
         a.kind \notin {"need", "sub", "unlessPaused", "fail"},
         b.kind \notin {"need", "sub", "unlessPaused", "fail"},
         c.kind \notin {"need", "sub", "unlessPaused", "fail"}, d.kind \notin {"need", "sub"}
  PROVE  /\ Paying(<<a, b, c, d>>)
         /\ \A t : Adds(<<a, b, c, d>>, t) = Gain(a, t) + Gain(b, t) + Gain(c, t) + Gain(d, t)
  <1> DEFINE s == <<b, c, d>>
             u == <<a, b, c, d>>
  <1>1. /\ s \in Seq(Op) /\ s # <<>> /\ Len(s) <= 5 /\ Head(s) = b /\ Tail(s) = <<c, d>>
        /\ u \in Seq(Op) /\ u # <<>> /\ Len(u) <= 5 /\ Head(u) = a /\ Tail(u) = s
    OBVIOUS
  <1> HIDE DEF s, u
  <1>2. Paying(<<c, d>>) /\ \A t : Adds(<<c, d>>, t) = Gain(c, t) + Gain(d, t)
    BY TwoLeft
  <1>3. Paying(s) /\ \A t : Adds(s, t) = Gain(b, t) + Adds(<<c, d>>, t)
    BY <1>1, <1>2, MoreLeft
  <1>4. Paying(u) /\ \A t : Adds(u, t) = Gain(a, t) + Adds(s, t)
    BY <1>1, <1>3, MoreLeft
  <1>5. \A t : Gain(a, t) \in Nat /\ Gain(b, t) \in Nat /\ Gain(c, t) \in Nat /\ Gain(d, t) \in Nat
    BY GainType
  <1>6. \A t : Adds(u, t) = Gain(a, t) + Gain(b, t) + Gain(c, t) + Gain(d, t)
    BY <1>2, <1>3, <1>4, <1>5
  <1>7. QED
    BY <1>4, <1>6 DEF u

\* A fee at a rate of up to 100% is a part of the amount.
LEMMA FeeIsPart ==
  ASSUME NEW amount \in Nat, NEW bps \in FairRate
  PROVE  CalculateFee(amount, bps) \in 0..amount
  <1> USE DEF FairRate
  <1>1. amount * bps \in 0..(amount * 10000)
    <2>1. amount * bps \in Nat /\ amount * (10000 - bps) \in Nat
      OBVIOUS
    <2>2. amount * 10000 = amount * bps + amount * (10000 - bps)
      OBVIOUS
    <2>3. QED
      BY <2>1, <2>2
  <1> DEFINE x == amount * bps
  <1>2. x \in 0..(amount * 10000)
    BY <1>1
  <1> HIDE DEF x
  <1>3. x \div 10000 \in 0..amount
    BY <1>2
  <1>4. QED
    BY <1>3 DEF CalculateFee, x

\* Lists that debit an amount and credit the same amount, with or without a
\* check before and with or without an operation that moves nothing after.
LEMMA TransferLists ==
  ASSUME NEW n \in Op, NEW a \in Op, NEW b \in Op, NEW d \in Op,
         n.kind = "need", a.kind = "sub", b.kind = "add", d.kind \notin {"need", "sub", "add"},
         b.token = a.token, b.amt = a.amt
  PROVE  /\ Debiting(<<a, b>>, FALSE) /\ Debiting(<<a, b, d>>, FALSE)
         /\ Checking(<<n, a, b>>, FALSE) /\ Checking(<<n, a, b, d>>, FALSE)
  <1>1. /\ Paying(<<b>>) /\ Paying(<<b, d>>)
        /\ \A t : Adds(<<b>>, t) = Gain(b, t) /\ Adds(<<b, d>>, t) = Gain(b, t) + Gain(d, t)
    <2>1. /\ b.kind \notin {"need", "sub", "unlessPaused", "fail"} /\ b.kind \notin {"need", "sub"}
          /\ d.kind \notin {"need", "sub"}
      OBVIOUS
    <2>2. Paying(<<b>>) /\ \A t : Adds(<<b>>, t) = Gain(b, t)
      BY <2>1, OneLeft
    <2>3. Paying(<<b, d>>) /\ \A t : Adds(<<b, d>>, t) = Gain(b, t) + Gain(d, t)
      BY <2>1, TwoLeft
    <2>4. QED
      BY <2>2, <2>3
  <1>2. ASSUME NEW t \in Token, a.amt >= 0
        PROVE  /\ Gain(b, t) = IF t = a.token THEN a.amt ELSE 0
               /\ Gain(d, t) = 0 /\ Gain(b, t) \in Nat
    <2>1. a.amt \in Int
      BY DEF Op
    <2>2. QED
      BY <1>2, <2>1, GainType DEF Gain
  <1>3. ASSUME NEW s, NEW rest, rest \in {<<b>>, <<b, d>>}, s # <<>>, Head(s) = a, Tail(s) = rest
        PROVE  Debiting(s, FALSE)
    <2>1. Paying(rest)
      BY <1>1, <1>3
    <2>2. ASSUME NEW t \in Token, a.amt >= 0
          PROVE  Adds(rest, t) = IF t = a.token THEN a.amt ELSE 0
      <3>1. /\ Adds(<<b>>, t) = Gain(b, t) /\ Adds(<<b, d>>, t) = Gain(b, t)
        BY <1>1, <1>2, <2>2
      <3>2. Adds(rest, t) = Gain(b, t)
        BY <1>3, <3>1
      <3>3. QED
        BY <1>2, <2>2, <3>2
    <2>3. QED
      BY <1>3, <2>1, <2>2 DEF Debiting
  <1>4. /\ <<a, b>> # <<>> /\ Head(<<a, b>>) = a /\ Tail(<<a, b>>) = <<b>>
        /\ <<a, b, d>> # <<>> /\ Head(<<a, b, d>>) = a /\ Tail(<<a, b, d>>) = <<b, d>>
        /\ <<n, a, b>> # <<>> /\ Head(<<n, a, b>>) = n /\ Tail(<<n, a, b>>) = <<a, b>>
        /\ <<n, a, b, d>> # <<>> /\ Head(<<n, a, b, d>>) = n /\ Tail(<<n, a, b, d>>) = <<a, b, d>>
    OBVIOUS
  <1>5. Debiting(<<a, b>>, FALSE) /\ Debiting(<<a, b, d>>, FALSE)
    BY <1>3, <1>4
  <1>6. QED
    BY <1>4, <1>5 DEF Checking

\* A debit that nobody is credited for (adminBurn).
LEMMA BurnList ==
  ASSUME NEW a \in Op, NEW d \in Op, a.kind = "sub", d.kind = "supplySub"
  PROVE  Debiting(<<a, d>>, TRUE)
  <1>1. /\ Paying(<<d>>)
        /\ \A t : Adds(<<d>>, t) = Gain(d, t)
    BY OneLeft
  <1>2. \A t : Gain(d, t) = 0
    BY GainType
  <1>3. <<a, d>> # <<>> /\ Head(<<a, d>>) = a /\ Tail(<<a, d>>) = <<d>>
    OBVIOUS
  <1>4. QED
    BY <1>1, <1>2, <1>3 DEF Debiting

\* sendTransaction with and without a fee.
LEMMA NativeLists ==
  ASSUME NEW a \in Op, NEW b \in Op, NEW c \in Op, NEW d \in Op, NEW e \in Op,
         a.kind = "sub", b.kind = "add", c.kind = "add", d.kind = "feeAdd", e.kind = "unlessPaused",
         a.token = b.token, b.token = c.token,
         a.amt >= 0 => b.amt >= 0 /\ c.amt >= 0 /\ b.amt + c.amt = a.amt
  PROVE  /\ Debiting(<<a, b, c, d, e>>, FALSE)
         /\ (a.amt >= 0 => b.amt = a.amt) => Debiting(<<a, b, e>>, FALSE)
  <1>1. /\ Paying(<<b, c, d, e>>) /\ Paying(<<b, e>>)
        /\ \A t : /\ Adds(<<b, c, d, e>>, t) = Gain(b, t) + Gain(c, t) + Gain(d, t) + Gain(e, t)
                  /\ Adds(<<b, e>>, t) = Gain(b, t) + Gain(e, t)
    <2>1. /\ b.kind \notin {"need", "sub", "unlessPaused", "fail"}
          /\ c.kind \notin {"need", "sub", "unlessPaused", "fail"}
          /\ d.kind \notin {"need", "sub", "unlessPaused", "fail"} /\ e.kind \notin {"need", "sub"}
      OBVIOUS
    <2>2. /\ Paying(<<b, c, d, e>>)
          /\ \A t : Adds(<<b, c, d, e>>, t) = Gain(b, t) + Gain(c, t) + Gain(d, t) + Gain(e, t)
      BY <2>1, FourLeft
    <2>3. Paying(<<b, e>>) /\ \A t : Adds(<<b, e>>, t) = Gain(b, t) + Gain(e, t)
      BY <2>1, TwoLeft
    <2>4. QED
      BY <2>2, <2>3
  <1>2. ASSUME NEW t \in Token, a.amt >= 0
        PROVE  /\ Gain(b, t) = IF t = a.token THEN b.amt ELSE 0
               /\ Gain(c, t) = IF t = a.token THEN c.amt ELSE 0
               /\ Gain(d, t) = 0 /\ Gain(e, t) = 0
               /\ a.amt \in Int /\ b.amt \in Int /\ c.amt \in Int
    <2>1. a.amt \in Int /\ b.amt \in Int /\ c.amt \in Int
      BY DEF Op
    <2>2. QED
      BY <1>2, <2>1 DEF Gain
  <1>3. /\ <<a, b, c, d, e>> # <<>> /\ Head(<<a, b, c, d, e>>) = a /\ Tail(<<a, b, c, d, e>>) = <<b, c, d, e>>
        /\ <<a, b, e>> # <<>> /\ Head(<<a, b, e>>) = a /\ Tail(<<a, b, e>>) = <<b, e>>
    OBVIOUS
  <1>4. ASSUME NEW t \in Token, a.amt >= 0
        PROVE  /\ Adds(<<b, c, d, e>>, t) = IF t = a.token THEN a.amt ELSE 0
               /\ b.amt = a.amt => Adds(<<b, e>>, t) = IF t = a.token THEN a.amt ELSE 0
    BY <1>1, <1>2, <1>4
  <1>5. QED
    BY <1>1, <1>3, <1>4 DEF Debiting

\* A handler that starts owes nothing but what a mint credits.
StartsWell(r, ops) ==
    /\ ops \in Seq(Op) /\ Planned(ops, r.method = "adminBurn")
    /\ \A t \in Token : Due(ops, t) = Mints(r, t)

LEMMA MoveStarts ==
  ASSUME NEW r, r.method \notin {"adminMint", "adminMintToTreasury"}, NEW ops \in Seq(Op),
         NEW burns \in BOOLEAN, burns <=> r.method = "adminBurn",
         Debiting(ops, burns) \/ Checking(ops, burns)
  PROVE  StartsWell(r, ops)
  <1>1. ops # <<>> /\ Head(ops).kind \in {"need", "sub"}
    BY DEF Debiting, Checking
  <1>2. \A t : Due(ops, t) = 0
    BY <1>1, NothingDue
  <1>3. \A t : Mints(r, t) = 0
    BY DEF Mints
  <1>4. burns = (r.method = "adminBurn")
    OBVIOUS
  <1>5. Planned(ops, burns)
    BY DEF Planned
  <1>6. QED
    BY <1>2, <1>3, <1>4, <1>5 DEF StartsWell

LEMMA MintStarts ==
  ASSUME NEW r, r.method \in {"adminMint", "adminMintToTreasury"},
         NEW a \in Op, NEW b \in Op, a.kind = "add", b.kind = "supplyAdd",
         a.token = r.token, a.amt = r.amt
  PROVE  StartsWell(r, <<a>>) /\ StartsWell(r, <<a, b>>)
  <1>1. /\ Paying(<<a>>) /\ Paying(<<a, b>>)
        /\ \A t : Adds(<<a>>, t) = Gain(a, t) /\ Adds(<<a, b>>, t) = Gain(a, t) + Gain(b, t)
    <2>1. /\ a.kind \notin {"need", "sub", "unlessPaused", "fail"} /\ a.kind \notin {"need", "sub"}
          /\ b.kind \notin {"need", "sub"}
      OBVIOUS
    <2>2. Paying(<<a>>) /\ \A t : Adds(<<a>>, t) = Gain(a, t)
      BY <2>1, OneLeft
    <2>3. Paying(<<a, b>>) /\ \A t : Adds(<<a, b>>, t) = Gain(a, t) + Gain(b, t)
      BY <2>1, TwoLeft
    <2>4. QED
      BY <2>2, <2>3
  <1>2. \A t : Gain(a, t) \in Nat /\ Gain(a, t) = Mints(r, t) /\ Gain(b, t) = 0
    BY GainType DEF Gain, Mints
  <1>3. <<a>> \in Seq(Op) /\ <<a, b>> \in Seq(Op)
    OBVIOUS
  <1>4. QED
    BY <1>1, <1>2, <1>3 DEF StartsWell, Planned, Due
-----------------------------------------------------------------------------
(* The operations one by one *)

\* A check that is passed leaves a plan and owes nothing.
LEMMA CheckedOp ==
  ASSUME NEW ops \in Seq(Op), ops # <<>>, NEW burns \in BOOLEAN, Planned(ops, burns),
         Head(ops).kind = "need"
  PROVE  /\ Planned(Tail(ops), burns)
         /\ \A t \in Token : Due(ops, t) = 0 /\ Due(Tail(ops), t) = 0
  <1>1. ~Paying(ops) /\ ~Debiting(ops, burns)
    BY PayingTail DEF Debiting
  <1>2. Debiting(Tail(ops), burns)
    BY <1>1 DEF Planned, Checking
  <1>3. Tail(ops) # <<>> /\ Head(Tail(ops)).kind = "sub"
    BY <1>2 DEF Debiting
  <1>4. Tail(ops) \in Seq(Op)
    BY HeadTailProperties
  <1>5. \A t : Due(ops, t) = 0
    BY NothingDue
  <1>6. \A t : Due(Tail(ops), t) = 0
    BY <1>3, <1>4, NothingDue
  <1>7. QED
    BY <1>2, <1>5, <1>6 DEF Planned

\* A debit that is written makes the handler owe the amount, unless it burns it.
LEMMA DebitedOp ==
  ASSUME NEW ops \in Seq(Op), ops # <<>>, NEW burns \in BOOLEAN, Planned(ops, burns),
         Head(ops).kind = "sub", Head(ops).amt >= 0
  PROVE  /\ Planned(Tail(ops), burns)
         /\ \A t \in Token :
              /\ Due(ops, t) = 0
              /\ Due(Tail(ops), t) = IF t = Head(ops).token /\ ~burns THEN Head(ops).amt ELSE 0
  <1>1. ~Paying(ops) /\ ~Checking(ops, burns)
    BY PayingTail DEF Checking
  <1>2. Debiting(ops, burns)
    BY <1>1 DEF Planned
  <1>3. Paying(Tail(ops))
    BY <1>2 DEF Debiting
  <1>4. \A t \in Token :
          Adds(Tail(ops), t) = IF t = Head(ops).token /\ ~burns THEN Head(ops).amt ELSE 0
    BY <1>2 DEF Debiting
  <1>5. \A t : Due(ops, t) = 0
    BY NothingDue
  <1>6. QED
    BY <1>3, <1>4, <1>5 DEF Planned, Due

\* Every other operation pays what it credits.
LEMMA PaidOp ==
  ASSUME NEW ops \in Seq(Op), ops # <<>>, NEW burns \in BOOLEAN, Planned(ops, burns),
         Head(ops).kind \notin {"need", "sub"}
  PROVE  /\ Planned(Tail(ops), burns)
         /\ \A t : Due(ops, t) = Gain(Head(ops), t) + Due(Tail(ops), t)
         /\ Head(ops).kind \in {"unlessPaused", "fail"} => Tail(ops) = <<>>
  <1>1. Paying(ops)
    BY DEF Planned, Debiting, Checking
  <1>2. /\ Paying(Tail(ops))
        /\ Head(ops).kind \in {"unlessPaused", "fail"} => Tail(ops) = <<>>
    BY <1>1, PayingTail
  <1>3. Len(ops) <= 5
    BY <1>1 DEF Paying
  <1>4. \A t : Adds(ops, t) = Gain(Head(ops), t) + Adds(Tail(ops), t)
    BY <1>3, AddsOfTail
  <1>5. QED
    BY <1>1, <1>2, <1>4 DEF Planned, Due

\* Where a handler stops with an error it owes nothing.
LEMMA StoppedOp ==
  ASSUME NEW ops \in Seq(Op), ops # <<>>, NEW burns \in BOOLEAN, Planned(ops, burns),
         Head(ops).kind \in MayFail
  PROVE  \A t : Due(ops, t) = 0
  <1>1. CASE Head(ops).kind \in {"need", "sub"}
    BY <1>1, NothingDue
  <1>2. CASE Head(ops).kind \in {"unlessPaused", "fail"}
    <2>1. /\ Tail(ops) = <<>>
          /\ \A t : Due(ops, t) = Gain(Head(ops), t) + Due(Tail(ops), t)
      BY <1>2, PaidOp
    <2>2. \A t : Gain(Head(ops), t) = 0 /\ Due(Tail(ops), t) = 0
      BY <1>2, <2>1, NothingLeft DEF Gain
    <2>3. QED
      BY <2>1, <2>2
  <1>3. QED
    BY <1>1, <1>2 DEF MayFail

\* What SetBalance of the operation adds to the account.
Moved(op) == IF op.kind = "sub" THEN -op.amt ELSE op.amt

\* A handler in flight: what is left is planned, a place belongs to the operation
\* at hand, and what is being written is an amount SubBalance or AddBalance took.
InPlan(p) ==
    /\ Planned(todo[p], req[p].method = "adminBurn") /\ PlaceFits(p)
    /\ pc[p] \in {"load", "store"} => Cur(p).amt >= 0
    /\ pc[p] = "idle" => todo[p] = <<>>

\* A finished operation other than a write credits nothing.
LEMMA AdvanceMovesNothing ==
  ASSUME TypeOK, NEW p \in Procs, Execute(p), PlaceFits(p), Advance(p), ~StoreAccount(p),
         NEW t
  PROVE  Gain(Cur(p), t) = 0
  <1>1. CASE todo[p] # <<>> /\ Cur(p).kind = "add"
    <2>1. Credit(p) \/ LoadAccount(p)
      BY <1>1, StepOfOperation
    <2>2. ~Goto(p, "load") /\ ~Goto(p, "store")
      BY DEF Advance, Goto, TypeOK
    <2>3. Cur(p).amt < 0
      BY <2>1, <2>2 DEF Credit, LoadAccount
    <2>4. Cur(p).amt \in Int
      BY <1>1, CurType
    <2>5. QED
      BY <2>3, <2>4 DEF Gain
  <1>2. CASE todo[p] # <<>> /\ Cur(p).kind # "add"
    BY <1>2 DEF Gain
  <1>3. CASE todo[p] = <<>>
    <2>1. Succeed(p)
      BY <1>3, StepOfOperation
    <2>2. QED
      BY <2>1 DEF Succeed, Advance, Return, TypeOK
  <1>4. QED
    BY <1>1, <1>2, <1>3

\* A handler answers "ok" only when nothing is left to do.
LEMMA SucceedsAtEnd ==
  ASSUME TypeOK, NEW p \in Procs, Execute(p), Return(p, "ok")
  PROVE  todo[p] = <<>>
  <1>1. /\ ~Advance(p) /\ ~Goto(p, "load") /\ ~Goto(p, "store") /\ ~Goto(p, "supply")
        /\ ~Goto(p, "fees") /\ ~Goto(p, "marshal") /\ ~Goto(p, "put")
    BY DEF Advance, Goto, Return, TypeOK
  <1>2. ~Return(p, "error")
    BY DEF Return, TypeOK
  <1>3. ~CheckFunds(p) /\ ~Debit(p) /\ ~Credit(p) /\ ~LoadAccount(p) /\ ~StoreAccount(p)
    BY <1>1, <1>2 DEF CheckFunds, Debit, Credit, LoadAccount, StoreAccount
  <1>4. ~ReadSupply(p) /\ ~WriteSupply(p) /\ ~ReadFees(p) /\ ~WriteFees(p) /\ ~MarshalMeta(p) /\ ~PutMeta(p)
    BY <1>1 DEF ReadSupply, WriteSupply, ReadFees, WriteFees, MarshalMeta, PutMeta
  <1>5. ~RecordEthTx(p) /\ ~CheckPaused(p) /\ ~RejectZeroTarget(p)
    BY <1>1, <1>2 DEF RecordEthTx, CheckPaused, RejectZeroTarget
  <1>6. Succeed(p)
    BY <1>3, <1>4, <1>5 DEF Execute
  <1>7. QED
    BY <1>6 DEF Succeed

\* What a step of p's handler writes to the account of token t.
Written(p, t) == IF StoreAccount(p) /\ t = Cur(p).token THEN Moved(Cur(p)) ELSE 0

\* Finishing an operation keeps the plan; what is written is no longer due.
LEMMA AdvancePlanned ==
  ASSUME TypeOK, NEW p \in Procs, InPlan(p), Execute(p), Advance(p), todo[p] # <<>>,
         NEW burns \in BOOLEAN, burns <=> req[p].method = "adminBurn"
  PROVE  /\ Planned(Tail(todo[p]), burns)
         /\ \A t \in Token :
              /\ Due(Tail(todo[p]), t) + Written(p, t) <= Due(todo[p], t)
              /\ ~burns => Due(Tail(todo[p]), t) + Written(p, t) = Due(todo[p], t)
  <1> DEFINE ops == todo[p]
  <1>1. /\ ops \in Seq(Op) /\ ops # <<>> /\ Head(ops) = Cur(p) /\ PlaceFits(p)
        /\ burns = (req[p].method = "adminBurn")
    BY DEF TypeOK, Cur, InPlan
  <1>2. Planned(ops, burns)
    BY <1>1 DEF InPlan
  <1>3. Cur(p).amt \in Int /\ Tail(ops) \in Seq(Op) /\ Cur(p) \in Op
    BY CurType
  <1>4. \A t \in Token : Due(ops, t) \in Nat /\ Due(Tail(ops), t) \in Nat
    BY <1>1, <1>3, DueType
  <1> HIDE DEF ops
  <1>5. CASE StoreAccount(p)
    <2>1. Cur(p).amt >= 0
      BY <1>5 DEF StoreAccount, InPlan
    <2>2. Cur(p).kind \in {"sub", "add"}
      BY <1>1, <1>5, AdvanceFrom DEF Writing
    <2>3. CASE Cur(p).kind = "sub"
      <3>1. /\ Planned(Tail(ops), burns)
            /\ \A t \in Token :
                 /\ Due(ops, t) = 0
                 /\ Due(Tail(ops), t) = IF t = Cur(p).token /\ ~burns THEN Cur(p).amt ELSE 0
        BY <1>1, <1>2, <2>1, <2>3, DebitedOp
      <3>2. \A t : Written(p, t) = IF t = Cur(p).token THEN -Cur(p).amt ELSE 0
        BY <1>5, <2>3 DEF Written, Moved
      <3>3. QED
        BY <1>3, <2>1, <3>1, <3>2 DEF ops
    <2>4. CASE Cur(p).kind = "add"
      <3>1. /\ Planned(Tail(ops), burns)
            /\ \A t : Due(ops, t) = Gain(Cur(p), t) + Due(Tail(ops), t)
        BY <1>1, <1>2, <2>4, PaidOp
      <3>2. \A t : Written(p, t) = Gain(Cur(p), t)
        BY <1>3, <1>5, <2>1, <2>4 DEF Written, Moved, Gain
      <3>3. \A t : Gain(Cur(p), t) \in Nat
        BY <1>3, GainType
      <3>4. ASSUME NEW t \in Token PROVE Due(Tail(ops), t) + Written(p, t) = Due(ops, t)
        BY <1>4, <3>1, <3>2, <3>3
      <3>5. QED
        BY <1>4, <3>1, <3>4 DEF ops
    <2>5. QED
      BY <2>2, <2>3, <2>4
  <1>6. CASE ~StoreAccount(p)
    <2>1. Cur(p).kind # "sub"
      BY <1>1, <1>6, AdvanceFrom
    <2>2. /\ Planned(Tail(ops), burns)
          /\ \A t \in Token : Due(ops, t) = Due(Tail(ops), t)
      <3>1. CASE Cur(p).kind = "need"
        BY <1>1, <1>2, <3>1, CheckedOp
      <3>2. CASE Cur(p).kind # "need"
        <4>1. /\ Planned(Tail(ops), burns)
              /\ \A t : Due(ops, t) = Gain(Cur(p), t) + Due(Tail(ops), t)
          BY <1>1, <1>2, <2>1, <3>2, PaidOp
        <4>2. \A t : Gain(Cur(p), t) = 0
          BY <1>1, <1>6, AdvanceMovesNothing
        <4>3. QED
          BY <1>4, <4>1, <4>2
      <3>3. QED
        BY <3>1, <3>2
    <2>3. \A t : Written(p, t) = 0
      BY <1>6 DEF Written
    <2>4. QED
      BY <1>4, <2>2, <2>3 DEF ops
  <1>7. QED
    BY <1>5, <1>6

\* A step of a handler in flight keeps its plan; what is due grows by what the
\* step takes from an account and shrinks by what it pays, a burn apart.
LEMMA ExecutePlanned ==
  ASSUME TypeOK, NEW p \in Procs, InPlan(p), Execute(p)
  PROVE  /\ InPlan(p)'
         /\ \A t \in Token :
              /\ Due(todo'[p], t) + Written(p, t) <= Due(todo[p], t)
              /\ req[p].method # "adminBurn" =>
                   Due(todo'[p], t) + Written(p, t) = Due(todo[p], t)
  <1> DEFINE burns == req[p].method = "adminBurn"
             Kept == /\ InPlan(p)'
                     /\ \A t \in Token : Due(todo'[p], t) + Written(p, t) = Due(todo[p], t)
  <1>0. /\ p \in DOMAIN pc /\ p \in DOMAIN todo /\ todo[p] \in Seq(Op) /\ PlaceFits(p)
        /\ Planned(todo[p], burns) /\ req' = req /\ burns \in BOOLEAN
    BY ExecuteFrame DEF TypeOK, InPlan
  <1>1. \A t : Due(todo[p], t) \in Nat
    BY <1>0, DueType
  <1>2. ASSUME ~StoreAccount(p) PROVE \A t : Written(p, t) = 0
    BY <1>2 DEF Written
  <1>3. CASE todo[p] # <<>> /\ Advance(p)
    <2>1. todo'[p] = Tail(todo[p]) /\ pc'[p] = "run"
      BY <1>0, <1>3 DEF Advance
    <2>2. /\ Planned(Tail(todo[p]), burns)
          /\ \A t \in Token :
               /\ Due(Tail(todo[p]), t) + Written(p, t) <= Due(todo[p], t)
               /\ ~burns => Due(Tail(todo[p]), t) + Written(p, t) = Due(todo[p], t)
      BY <1>0, <1>3, AdvancePlanned
    <2>3. InPlan(p)'
      BY <1>0, <2>1, <2>2 DEF InPlan, PlaceFits
    <2>4. QED
      BY <2>1, <2>2, <2>3
  <1>4. ASSUME NEW place \in {"load", "store", "supply", "fees", "marshal", "put"}, Goto(p, place),
               place \in {"load", "store"} => Cur(p).kind \in Writing /\ Cur(p).amt >= 0,
               place = "supply" => Cur(p).kind \in {"supplyAdd", "supplySub"},
               place \in {"fees", "marshal", "put"} => Cur(p).kind \in {"feeAdd", "feeSub"}
        PROVE  Kept
    <2>1. pc'[p] = place /\ todo' = todo
      BY <1>0, <1>4 DEF Goto
    <2>2. Cur(p)' = Cur(p)
      BY <2>1 DEF Cur
    <2>3. InPlan(p)'
      BY <1>0, <1>4, <2>1, <2>2 DEF InPlan, PlaceFits
    <2>4. ~StoreAccount(p)
      BY <1>0, <1>4, <2>1 DEF StoreAccount, Advance
    <2>5. QED
      BY <1>1, <1>2, <2>1, <2>3, <2>4
  <1>5. ASSUME NEW result, Return(p, result), \A t : Due(todo[p], t) = 0
        PROVE  Kept
    <2>1. pc'[p] = "idle" /\ todo'[p] = <<>>
      BY <1>0, <1>5 DEF Return
    <2>2. Planned(<<>>, burns) /\ \A t : Due(<<>>, t) = 0
      BY NothingLeft DEF Planned
    <2>3. InPlan(p)'
      BY <1>0, <2>1, <2>2 DEF InPlan, PlaceFits
    <2>4. ~StoreAccount(p)
      BY <1>0, <2>1 DEF StoreAccount, Advance
    <2>5. QED
      BY <1>2, <1>5, <2>1, <2>2, <2>3, <2>4
  <1>6. ASSUME todo[p] # <<>> /\ pc[p] = "run" /\ Cur(p).kind \in Writing /\ Goto(p, "load")
        PROVE  Kept
    <2>1. Debit(p) \/ Credit(p)
      <3>1. ~LoadAccount(p) /\ ~StoreAccount(p)
        BY <1>6 DEF LoadAccount, StoreAccount
      <3>2. QED
        BY <1>0, <1>6, <3>1, StepOfOperation DEF Writing
    <2>2. ~Return(p, "error") /\ ~Advance(p)
      BY <1>0, <1>6 DEF Return, Advance, Goto
    <2>3. ~(Cur(p).amt < 0)
      BY <2>1, <2>2 DEF Debit, Credit
    <2>4. Cur(p).amt >= 0
      BY <1>6, <2>3, CurType
    <2>5. QED
      BY <1>4, <1>6, <2>4
  <1>7. ASSUME pc[p] = "load" /\ Goto(p, "store")
        PROVE  Kept
    <2>1. Cur(p).kind \in Writing /\ Cur(p).amt >= 0
      BY <1>0, <1>7 DEF InPlan, PlaceFits
    <2>2. QED
      BY <1>4, <1>7, <2>1
  <1>8. ASSUME \/ Cur(p).kind \in {"supplyAdd", "supplySub"} /\ Goto(p, "supply")
               \/ Cur(p).kind \in {"feeAdd", "feeSub"} /\ Goto(p, "fees")
        PROVE  Kept
    <2>1. CASE Cur(p).kind \in {"supplyAdd", "supplySub"} /\ Goto(p, "supply")
      BY <1>4, <2>1
    <2>2. CASE Cur(p).kind \in {"feeAdd", "feeSub"} /\ Goto(p, "fees")
      BY <1>4, <2>2
    <2>3. QED
      BY <1>8, <2>1, <2>2
  <1>9. ASSUME (pc[p] = "fees" /\ Goto(p, "marshal")) \/ (pc[p] = "marshal" /\ Goto(p, "put"))
        PROVE  Kept
    <2>1. Cur(p).kind \in {"feeAdd", "feeSub"}
      BY <1>0, <1>9 DEF PlaceFits
    <2>2. CASE Goto(p, "marshal")
      BY <1>4, <2>1, <2>2
    <2>3. CASE Goto(p, "put")
      BY <1>4, <2>1, <2>3
    <2>4. QED
      BY <1>9, <2>2, <2>3
  <1>10. ASSUME todo[p] # <<>> /\ Cur(p).kind \in MayFail /\ Return(p, "error")
        PROVE  Kept
    <2>1. \A t : Due(todo[p], t) = 0
      BY <1>0, <1>10, StoppedOp DEF Cur
    <2>2. QED
      BY <1>5, <1>10, <2>1
  <1>11. ASSUME Return(p, "ok")
        PROVE  Kept
    <2>1. todo[p] = <<>>
      BY <1>11, SucceedsAtEnd
    <2>2. \A t : Due(todo[p], t) = 0
      BY <2>1, NothingLeft
    <2>3. QED
      BY <1>5, <1>11, <2>2
  <1>12. Kept \/ (todo[p] # <<>> /\ Advance(p))
    <2>1. \/ todo[p] # <<>> /\ Advance(p)
          \/ todo[p] # <<>> /\ pc[p] = "run" /\ Cur(p).kind \in Writing /\ Goto(p, "load")
          \/ pc[p] = "load" /\ Goto(p, "store")
          \/ Cur(p).kind \in {"supplyAdd", "supplySub"} /\ Goto(p, "supply")
          \/ Cur(p).kind \in {"feeAdd", "feeSub"} /\ Goto(p, "fees")
          \/ pc[p] = "fees" /\ Goto(p, "marshal")
          \/ pc[p] = "marshal" /\ Goto(p, "put")
          \/ todo[p] # <<>> /\ Cur(p).kind \in MayFail /\ Return(p, "error")
          \/ Return(p, "ok")
      BY ExecuteFrame
    <2>2. CASE todo[p] # <<>> /\ pc[p] = "run" /\ Cur(p).kind \in Writing /\ Goto(p, "load")
      BY <1>6, <2>2
    <2>3. CASE pc[p] = "load" /\ Goto(p, "store")
      BY <1>7, <2>3
    <2>4. CASE \/ Cur(p).kind \in {"supplyAdd", "supplySub"} /\ Goto(p, "supply")
               \/ Cur(p).kind \in {"feeAdd", "feeSub"} /\ Goto(p, "fees")
      BY <1>8, <2>4
    <2>5. CASE (pc[p] = "fees" /\ Goto(p, "marshal")) \/ (pc[p] = "marshal" /\ Goto(p, "put"))
      BY <1>9, <2>5
    <2>6. CASE todo[p] # <<>> /\ Cur(p).kind \in MayFail /\ Return(p, "error")
      BY <1>10, <2>6
    <2>7. CASE Return(p, "ok")
      BY <1>11, <2>7
    <2>8. QED
      BY <2>1, <2>2, <2>3, <2>4, <2>5, <2>6, <2>7
  <1>13. CASE Kept
    BY <1>1, <1>13
  <1>14. QED
    BY <1>3, <1>12, <1>13

-----------------------------------------------------------------------------
(* Receiving a request *)

LEMMA FieldsOf ==
  ASSUME NEW kind, NEW a, NEW t, NEW amt
  PROVE  /\ NewOp(kind, a, t, amt).token = t /\ NewOp(kind, a, t, amt).amt = amt
         /\ Need(a, t, amt).token = t /\ Need(a, t, amt).amt = amt
         /\ Sub(a, t, amt).token = t /\ Sub(a, t, amt).amt = amt
         /\ Add(a, t, amt).token = t /\ Add(a, t, amt).amt = amt
         /\ Step(kind).kind = kind
  BY DEF NewOp, Need, Sub, Add, Step

\* The lists of sendTransaction and adminForceTransfer are put together of two
\* and three lists.
LEMMA JoinFive ==
  ASSUME NEW a \in Op, NEW b \in Op, NEW c \in Op, NEW d \in Op, NEW e \in Op
  PROVE  <<a, b>> \o <<c, d>> \o <<e>> = <<a, b, c, d, e>>
  <1>1. <<a, b>> \o <<c, d>> = <<a, b, c, d>>
    <2> DEFINE s == <<a, b>>
               u == <<c, d>>
               w == <<a, b, c, d>>
    <2>1. /\ s \in Seq(Op) /\ Len(s) = 2 /\ s[1] = a /\ s[2] = b
          /\ u \in Seq(Op) /\ Len(u) = 2 /\ u[1] = c /\ u[2] = d
          /\ w \in Seq(Op) /\ Len(w) = 4 /\ w[1] = a /\ w[2] = b /\ w[3] = c /\ w[4] = d
      OBVIOUS
    <2> HIDE DEF s, u, w
    <2>2. /\ s \o u \in Seq(Op) /\ Len(s \o u) = Len(s) + Len(u)
          /\ \A i \in 1..(Len(s) + Len(u)) : (s \o u)[i] = IF i <= Len(s) THEN s[i] ELSE u[i - Len(s)]
      BY <2>1, ConcatProperties
    <2>3. Len(s \o u) = Len(w) /\ \A i \in 1..Len(w) : (s \o u)[i] = w[i]
      BY <2>1, <2>2
    <2>4. s \o u = w
      BY <2>1, <2>2, <2>3, SeqEqual
    <2>5. QED
      BY <2>4 DEF s, u, w
  <1>2. <<a, b, c, d>> \o <<e>> = <<a, b, c, d, e>>
    <2> DEFINE s == <<a, b, c, d>>
               u == <<e>>
               w == <<a, b, c, d, e>>
    <2>1. /\ s \in Seq(Op) /\ Len(s) = 4 /\ s[1] = a /\ s[2] = b /\ s[3] = c /\ s[4] = d
          /\ u \in Seq(Op) /\ Len(u) = 1 /\ u[1] = e
          /\ w \in Seq(Op) /\ Len(w) = 5 /\ w[1] = a /\ w[2] = b /\ w[3] = c /\ w[4] = d /\ w[5] = e
      OBVIOUS
    <2> HIDE DEF s, u, w
    <2>2. /\ s \o u \in Seq(Op) /\ Len(s \o u) = Len(s) + Len(u)
          /\ \A i \in 1..(Len(s) + Len(u)) : (s \o u)[i] = IF i <= Len(s) THEN s[i] ELSE u[i - Len(s)]
      BY <2>1, ConcatProperties
    <2>3. Len(s \o u) = Len(w) /\ \A i \in 1..Len(w) : (s \o u)[i] = w[i]
      BY <2>1, <2>2
    <2>4. s \o u = w
      BY <2>1, <2>2, <2>3, SeqEqual
    <2>5. QED
      BY <2>4 DEF s, u, w
  <1>3. QED
    BY <1>1, <1>2

LEMMA JoinThree ==
  ASSUME NEW a \in Op, NEW b \in Op, NEW e \in Op
  PROVE  <<a, b>> \o <<>> \o <<e>> = <<a, b, e>>
  <1>1. <<a, b>> \o <<e>> = <<a, b, e>>
    <2> DEFINE s == <<a, b>>
               u == <<e>>
               w == <<a, b, e>>
    <2>1. /\ s \in Seq(Op) /\ Len(s) = 2 /\ s[1] = a /\ s[2] = b
          /\ u \in Seq(Op) /\ Len(u) = 1 /\ u[1] = e
          /\ w \in Seq(Op) /\ Len(w) = 3 /\ w[1] = a /\ w[2] = b /\ w[3] = e
      OBVIOUS
    <2> HIDE DEF s, u, w
    <2>2. /\ s \o u \in Seq(Op) /\ Len(s \o u) = Len(s) + Len(u)
          /\ \A i \in 1..(Len(s) + Len(u)) : (s \o u)[i] = IF i <= Len(s) THEN s[i] ELSE u[i - Len(s)]
      BY <2>1, ConcatProperties
    <2>3. Len(s \o u) = Len(w) /\ \A i \in 1..Len(w) : (s \o u)[i] = w[i]
      BY <2>1, <2>2
    <2>4. s \o u = w
      BY <2>1, <2>2, <2>3, SeqEqual
    <2>5. QED
      BY <2>4 DEF s, u, w
  <1>2. <<a, b>> \o <<>> = <<a, b>>
    <2>1. <<a, b>> \in Seq(Op)
      OBVIOUS
    <2>2. QED
      BY <2>1, ConcatEmptySeq
  <1>3. QED
    BY <1>1, <1>2

LEMMA JoinFour ==
  ASSUME NEW a \in Op, NEW b \in Op, NEW c \in Op, NEW d \in Op
  PROVE  <<a, b, c>> \o <<d>> = <<a, b, c, d>>
  <1>1. <<a, b, c>> \o <<d>> = <<a, b, c, d>>
    <2> DEFINE s == <<a, b, c>>
               u == <<d>>
               w == <<a, b, c, d>>
    <2>1. /\ s \in Seq(Op) /\ Len(s) = 3 /\ s[1] = a /\ s[2] = b /\ s[3] = c
          /\ u \in Seq(Op) /\ Len(u) = 1 /\ u[1] = d
          /\ w \in Seq(Op) /\ Len(w) = 4 /\ w[1] = a /\ w[2] = b /\ w[3] = c /\ w[4] = d
      OBVIOUS
    <2> HIDE DEF s, u, w
    <2>2. /\ s \o u \in Seq(Op) /\ Len(s \o u) = Len(s) + Len(u)
          /\ \A i \in 1..(Len(s) + Len(u)) : (s \o u)[i] = IF i <= Len(s) THEN s[i] ELSE u[i - Len(s)]
      BY <2>1, ConcatProperties
    <2>3. Len(s \o u) = Len(w) /\ \A i \in 1..Len(w) : (s \o u)[i] = w[i]
      BY <2>1, <2>2
    <2>4. s \o u = w
      BY <2>1, <2>2, <2>3, SeqEqual
    <2>5. QED
      BY <2>4 DEF s, u, w
  <1>2. QED
    BY <1>1

\* A handler that starts, starts with a plan.
StartsPlanned(p) == \E r, ops : Begin(p, r, ops) /\ StartsWell(r, ops)

LEMMA BeginIfPlanned ==
  ASSUME NEW p \in Procs, NEW ok \in BOOLEAN, NEW r, NEW ops, BeginIf(ok, p, r, ops),
         StartsWell(r, ops)
  PROVE  StartsPlanned(p) \/ Answers(p)
  BY DEF BeginIf, Refuse, StartsPlanned, Answers

\* sendTransaction: the receiver's share and the fee make up the amount.
LEMMA NativeStarts ==
  ASSUME NEW r, r.method = "sendTransaction",
         NEW a \in Op, NEW b \in Op, NEW c \in Op, NEW d \in Op, NEW e \in Op,
         a.kind = "sub", b.kind = "add", c.kind = "add", d.kind = "feeAdd", e.kind = "unlessPaused",
         a.token = b.token, b.token = c.token,
         a.amt >= 0 => b.amt >= 0 /\ c.amt >= 0 /\ b.amt + c.amt = a.amt
  PROVE  /\ StartsWell(r, <<a, b, c, d, e>>)
         /\ (a.amt >= 0 => b.amt = a.amt) => StartsWell(r, <<a, b, e>>)
  <1>1. ASSUME NEW ops \in Seq(Op), Debiting(ops, FALSE) PROVE StartsWell(r, ops)
    BY <1>1, MoveStarts
  <1>2. /\ Debiting(<<a, b, c, d, e>>, FALSE)
        /\ (a.amt >= 0 => b.amt = a.amt) => Debiting(<<a, b, e>>, FALSE)
    BY NativeLists
  <1>3. <<a, b, c, d, e>> \in Seq(Op) /\ <<a, b, e>> \in Seq(Op)
    OBVIOUS
  <1>4. QED
    BY <1>1, <1>2, <1>3

LEMMA ArriveNative ==
  ASSUME TypeOK, meta.bps \in FairRate, NEW p \in Procs, SendNative(p)
  PROVE  StartsPlanned(p)
  <1>1. PICK from \in Senders, to \in Receivers, base \in Amounts :
          SendNative(p)!(from, to, base)
    BY DEF SendNative
  <1> DEFINE amount == base * Unit
             fee    == CalculateFee(amount, meta.bps)
             share  == IF fee > 0 THEN <<Add(Treasury, "GORR", fee),
                                         NewOp("feeAdd", Treasury, "GORR", fee)>>
                                  ELSE <<>>
             r      == NewRequest("sendTransaction", from, to, "GORR", amount)
             a      == Sub(from, "GORR", amount)
             b      == Add(to, "GORR", amount - fee)
             c      == Add(Treasury, "GORR", fee)
             d      == NewOp("feeAdd", Treasury, "GORR", fee)
             e      == Step("unlessPaused")
  <1>2. Begin(p, r, <<a, b>> \o share \o <<e>>)
    BY <1>1
  <1>3. share = IF fee > 0 THEN <<c, d>> ELSE <<>>
    OBVIOUS
  <1> HIDE DEF share
  <1>4. amount \in Int /\ meta.bps \in Int
    <2>1. base \in Int /\ Unit \in Int
      BY NumbersAssumption
    <2>2. QED
      BY <2>1 DEF TypeOK, Meta
  <1> HIDE DEF amount
  <1>5. fee \in Int /\ (amount >= 0 => fee \in 0..amount)
    <2>1. amount >= 0 => amount \in Nat
      BY <1>4
    <2>2. fee \in Int
      <3>1. \A n \in Int, m \in Int : CalculateFee(n, m) \in Int
        BY FeeType
      <3>2. QED
        BY <1>4, <3>1
    <2>3. amount \in Nat => fee \in 0..amount
      <3>1. \A n \in Nat, m \in FairRate : CalculateFee(n, m) \in 0..n
        BY FeeIsPart
      <3>2. QED
        BY <3>1
    <2>4. QED
      BY <2>1, <2>2, <2>3
  <1> HIDE DEF fee
  <1>6. /\ a.token = "GORR" /\ b.token = "GORR" /\ c.token = "GORR"
        /\ a.amt = amount /\ b.amt = amount - fee /\ c.amt = fee
    BY FieldsOf
  <1>7. /\ a.kind = "sub" /\ b.kind = "add" /\ c.kind = "add" /\ d.kind = "feeAdd"
        /\ e.kind = "unlessPaused" /\ r.method = "sendTransaction"
    <2>1. r.method = "sendTransaction"
      BY RequestOf
    <2>2. a.kind = "sub" /\ b.kind = "add" /\ c.kind = "add"
      BY KindOf
    <2>3. d.kind = "feeAdd" /\ e.kind = "unlessPaused"
      BY KindOf
    <2>4. QED
      BY <2>1, <2>2, <2>3
  <1>8. from \in Addr /\ to \in Addr /\ Treasury \in Addr /\ "GORR" \in Token
    BY AddressesAssumption DEF Token
  <1>9. "feeAdd" \in OpKind /\ "unlessPaused" \in OpKind /\ amount - fee \in Int
    BY <1>4, <1>5 DEF OpKind
  <1>10. a \in Op /\ b \in Op /\ c \in Op /\ d \in Op /\ e \in Op
    BY <1>4, <1>5, <1>8, <1>9, StepsType
  <1> HIDE DEF r, a, b, c, d, e
  <1>11. /\ a.amt >= 0 => b.amt >= 0 /\ c.amt >= 0 /\ b.amt + c.amt = a.amt
         /\ ~(fee > 0) => (a.amt >= 0 => b.amt = a.amt)
    BY <1>4, <1>5, <1>6
  <1>12. a.token = b.token /\ b.token = c.token
    BY <1>6
  <1>13. StartsWell(r, <<a, b, c, d, e>>)
    BY <1>7, <1>10, <1>11, <1>12, NativeStarts
  <1>14. ~(fee > 0) => StartsWell(r, <<a, b, e>>)
    BY <1>7, <1>10, <1>11, <1>12, NativeStarts
  <1>15. /\ <<a, b>> \o <<c, d>> \o <<e>> = <<a, b, c, d, e>>
         /\ <<a, b>> \o <<>> \o <<e>> = <<a, b, e>>
    <2>1. <<a, b>> \o <<c, d>> \o <<e>> = <<a, b, c, d, e>>
      BY <1>10, JoinFive
    <2>2. <<a, b>> \o <<>> \o <<e>> = <<a, b, e>>
      BY <1>10, JoinThree
    <2>3. QED
      BY <2>1, <2>2
  <1>16. StartsWell(r, <<a, b>> \o share \o <<e>>)
    BY <1>3, <1>13, <1>14, <1>15
  <1>17. QED
    BY <1>2, <1>16 DEF StartsPlanned

\* sendUSDCc and eth_sendRawTransaction move an amount as it is.
LEMMA MoveListStarts ==
  ASSUME NEW r, r.method \in {"sendUSDCc", "ethSendRaw", "adminForceTransfer", "adminWithdrawFees"},
         NEW n \in Op, NEW a \in Op, NEW b \in Op, NEW d \in Op,
         n.kind = "need", a.kind = "sub", b.kind = "add", d.kind \notin {"need", "sub", "add"},
         b.token = a.token, b.amt = a.amt
  PROVE  /\ StartsWell(r, <<a, b>>) /\ StartsWell(r, <<a, b, d>>)
         /\ StartsWell(r, <<n, a, b>>) /\ StartsWell(r, <<n, a, b, d>>)
  <1>1. ASSUME NEW ops \in Seq(Op), Debiting(ops, FALSE) \/ Checking(ops, FALSE)
        PROVE  StartsWell(r, ops)
    BY <1>1, MoveStarts
  <1>2. /\ Debiting(<<a, b>>, FALSE) /\ Debiting(<<a, b, d>>, FALSE)
        /\ Checking(<<n, a, b>>, FALSE) /\ Checking(<<n, a, b, d>>, FALSE)
    BY TransferLists
  <1>3. /\ <<a, b>> \in Seq(Op) /\ <<a, b, d>> \in Seq(Op)
        /\ <<n, a, b>> \in Seq(Op) /\ <<n, a, b, d>> \in Seq(Op)
    OBVIOUS
  <1>4. QED
    BY <1>1, <1>2, <1>3

LEMMA BurnStarts ==
  ASSUME NEW r, r.method = "adminBurn", NEW a \in Op, NEW d \in Op,
         a.kind = "sub", d.kind = "supplySub"
  PROVE  StartsWell(r, <<a, d>>)
  <1>1. Debiting(<<a, d>>, TRUE)
    BY BurnList
  <1>2. <<a, d>> \in Seq(Op)
    OBVIOUS
  <1>3. QED
    BY <1>1, <1>2, MoveStarts

\* The amounts of requests are integers.
LEMMA AmountType == \A base \in Amounts : base * Unit \in Int
  <1>1. Amounts \subseteq Int /\ Unit \in Int
    BY NumbersAssumption
  <1>2. QED
    BY <1>1

LEMMA ArrivePlanned ==
  ASSUME TypeOK, meta.bps \in FairRate, NEW p \in Procs, Arrive(p)
  PROVE  StartsPlanned(p) \/ Answers(p)
  <1>0. /\ Senders \subseteq Addr /\ Receivers \subseteq Addr /\ Treasury \in Addr
        /\ "GORR" \in Token /\ "USDCc" \in Token
        /\ \A kind \in {"supplyAdd", "supplySub", "fail", "feeSub", "ethRecord"} : kind \in OpKind
    BY AddressesAssumption DEF Token, OpKind
  <1>1. CASE SendNative(p)
    BY <1>1, ArriveNative
  <1>2. CASE SendUSDCc(p)
    <2>0. PICK from \in Senders, to \in Receivers, base \in Amounts :
            SendUSDCc(p)!(from, to, base)
      BY <1>2 DEF SendUSDCc
    <2>1. PICK amount \in FloatWei(base) :
            BeginIf(~paused, p, NewRequest("sendUSDCc", from, to, "USDCc", amount),
                    <<Sub(from, "USDCc", amount), Add(to, "USDCc", amount)>>)
      BY <2>0
    <2>2. amount \in Int
      BY NumbersAssumption, FloatType
    <2> DEFINE a == Sub(from, "USDCc", amount)
               b == Add(to, "USDCc", amount)
               n == Need(from, "USDCc", amount)
               d == Step("ethRecord")
               r == NewRequest("sendUSDCc", from, to, "USDCc", amount)
    <2>3. BeginIf(~paused, p, r, <<a, b>>) /\ (~paused) \in BOOLEAN
      BY <2>1
    <2>4. a \in Op /\ b \in Op /\ n \in Op /\ d \in Op
      BY <1>0, <2>2, StepsType
    <2>5. /\ a.kind = "sub" /\ b.kind = "add" /\ n.kind = "need" /\ d.kind = "ethRecord"
          /\ r.method = "sendUSDCc"
      BY KindOf, RequestOf
    <2>6. b.token = a.token /\ b.amt = a.amt
      BY FieldsOf
    <2> HIDE DEF a, b, n, d, r
    <2>7. StartsWell(r, <<a, b>>)
      <3>1. /\ r.method \in {"sendUSDCc", "ethSendRaw", "adminForceTransfer", "adminWithdrawFees"}
            /\ d.kind \notin {"need", "sub", "add"}
        BY <2>4, <2>5, <2>6
      <3>2. /\ StartsWell(r, <<a, b>>) /\ StartsWell(r, <<a, b, d>>)
            /\ StartsWell(r, <<n, a, b>>) /\ StartsWell(r, <<n, a, b, d>>)
        BY <2>4, <2>5, <2>6, <3>1, MoveListStarts
      <3>3. QED
        BY <3>2
    <2>8. QED
      BY <2>3, <2>7, BeginIfPlanned
  <1>3. CASE AdminMint(p)
    <2>0. PICK from \in Senders, to \in Receivers, token \in Token, base \in Amounts :
            AdminMint(p)!(from, to, token, base)
      BY <1>3 DEF AdminMint
    <2>1. PICK amount \in FloatWei(base) :
            BeginIf(from = Admin, p, NewRequest("adminMint", from, to, token, amount),
                    <<Add(to, token, amount), NewOp("supplyAdd", to, token, amount)>>)
      BY <2>0
    <2>2. amount \in Int
      BY NumbersAssumption, FloatType
    <2> DEFINE a == Add(to, token, amount)
               b == NewOp("supplyAdd", to, token, amount)
               r == NewRequest("adminMint", from, to, token, amount)
    <2>3. BeginIf(from = Admin, p, r, <<a, b>>) /\ (from = Admin) \in BOOLEAN
      BY <2>1
    <2>4. a \in Op /\ b \in Op
      BY <1>0, <2>2, StepsType
    <2>5. /\ a.kind = "add" /\ b.kind = "supplyAdd" /\ r.method = "adminMint"
      BY KindOf, RequestOf
    <2>6. a.token = r.token /\ a.amt = r.amt
      BY FieldsOf DEF NewRequest
    <2> HIDE DEF a, b, r
    <2>7. StartsWell(r, <<a>>) /\ StartsWell(r, <<a, b>>)
      BY <2>4, <2>5, <2>6, MintStarts
    <2>8. QED
      BY <2>3, <2>7, BeginIfPlanned
  <1>4. CASE AdminBurn(p)
    <2>0. PICK from \in Senders, token \in Token, base \in Amounts :
            AdminBurn(p)!(from, token, base)
      BY <1>4 DEF AdminBurn
    <2>1. PICK amount \in FloatWei(base) :
            BeginIf(from = Admin, p, NewRequest("adminBurn", from, from, token, amount),
                    <<Sub(from, token, amount), NewOp("supplySub", from, token, amount)>>)
      BY <2>0
    <2>2. amount \in Int
      BY NumbersAssumption, FloatType
    <2> DEFINE a == Sub(from, token, amount)
               b == NewOp("supplySub", from, token, amount)
               r == NewRequest("adminBurn", from, from, token, amount)
    <2>3. BeginIf(from = Admin, p, r, <<a, b>>) /\ (from = Admin) \in BOOLEAN
      BY <2>1
    <2>4. a \in Op /\ b \in Op
      BY <1>0, <2>2, StepsType
    <2>5. /\ a.kind = "sub" /\ b.kind = "supplySub" /\ r.method = "adminBurn"
      BY KindOf, RequestOf
    <2> HIDE DEF a, b, r
    <2>6. StartsWell(r, <<a, b>>)
      BY <2>4, <2>5, BurnStarts
    <2>7. QED
      BY <2>3, <2>6, BeginIfPlanned
  <1>5. CASE AdminMintToTreasury(p)
    <2>0. PICK from \in Senders, token \in Token, base \in Amounts :
            AdminMintToTreasury(p)!(from, token, base)
      BY <1>5 DEF AdminMintToTreasury
    <2>1. PICK amount \in FloatWei(base) :
            BeginIf(from = Admin, p,
                    NewRequest("adminMintToTreasury", from, Treasury, token, amount),
                    <<Add(Treasury, token, amount)>>)
      BY <2>0
    <2>2. amount \in Int
      BY NumbersAssumption, FloatType
    <2> DEFINE a == Add(Treasury, token, amount)
               b == NewOp("supplyAdd", Treasury, token, amount)
               r == NewRequest("adminMintToTreasury", from, Treasury, token, amount)
    <2>3. BeginIf(from = Admin, p, r, <<a>>) /\ (from = Admin) \in BOOLEAN
      BY <2>1
    <2>4. a \in Op /\ b \in Op
      BY <1>0, <2>2, StepsType
    <2>5. /\ a.kind = "add" /\ b.kind = "supplyAdd" /\ r.method = "adminMintToTreasury"
      BY KindOf, RequestOf
    <2>6. a.token = r.token /\ a.amt = r.amt
      BY FieldsOf DEF NewRequest
    <2> HIDE DEF a, b, r
    <2>7. StartsWell(r, <<a>>) /\ StartsWell(r, <<a, b>>)
      BY <2>4, <2>5, <2>6, MintStarts
    <2>8. QED
      BY <2>3, <2>7, BeginIfPlanned
  <1>6. CASE AdminForceTransfer(p)
    <2>1. PICK caller \in Senders, target \in Senders, token \in Token, base \in Amounts :
            AdminForceTransfer(p)!(caller, target, token, base)
      BY <1>6 DEF AdminForceTransfer
    <2> DEFINE amount    == base * Unit
               zeroCheck == IF token = "GORR" /\ target = Zero
                            THEN <<Step("fail")>> ELSE <<>>
               n         == Need(target, token, amount)
               a         == Sub(target, token, amount)
               b         == Add(Treasury, token, amount)
               d         == Step("fail")
               r         == NewRequest("adminForceTransfer", target, Treasury, token, amount)
               ok        == caller = Admin /\ base > 0
    <2>2. BeginIf(ok, p, r, <<n, a, b>> \o zeroCheck) /\ ok \in BOOLEAN
      BY <2>1
    <2>3. zeroCheck = <<>> \/ zeroCheck = <<d>>
      OBVIOUS
    <2>4. amount \in Int
      BY AmountType
    <2> HIDE DEF zeroCheck, amount, ok
    <2>5. a \in Op /\ b \in Op /\ n \in Op /\ d \in Op
      BY <1>0, <2>4, StepsType
    <2>6. /\ a.kind = "sub" /\ b.kind = "add" /\ n.kind = "need" /\ d.kind = "fail"
          /\ r.method = "adminForceTransfer"
      BY KindOf, RequestOf
    <2>7. b.token = a.token /\ b.amt = a.amt
      BY FieldsOf
    <2> HIDE DEF a, b, n, d, r
    <2>8. StartsWell(r, <<n, a, b>>) /\ StartsWell(r, <<n, a, b, d>>)
      <3>1. /\ r.method \in {"sendUSDCc", "ethSendRaw", "adminForceTransfer", "adminWithdrawFees"}
            /\ d.kind \notin {"need", "sub", "add"}
        BY <2>5, <2>6, <2>7
      <3>2. /\ StartsWell(r, <<a, b>>) /\ StartsWell(r, <<a, b, d>>)
            /\ StartsWell(r, <<n, a, b>>) /\ StartsWell(r, <<n, a, b, d>>)
        BY <2>5, <2>6, <2>7, <3>1, MoveListStarts
      <3>3. QED
        BY <3>2
    <2>9. <<n, a, b>> \o <<d>> = <<n, a, b, d>>
      BY <2>5, JoinFour
    <2>10. <<n, a, b>> \o <<>> = <<n, a, b>>
      <3>1. <<n, a, b>> \in Seq(Op)
        BY <2>5
      <3>2. QED
        BY <3>1, ConcatEmptySeq
    <2>11. StartsWell(r, <<n, a, b>> \o zeroCheck)
      BY <2>3, <2>8, <2>9, <2>10
    <2>12. QED
      BY <2>2, <2>11, BeginIfPlanned
  <1>7. CASE AdminWithdrawFees(p)
    <2>0. PICK from \in Senders, to \in Receivers, token \in Token :
            AdminWithdrawFees(p)!(from, to, token)
      BY <1>7 DEF AdminWithdrawFees
    <2>1. PICK amount \in {base * Unit : base \in Amounts} \cup {meta.fees[token]} :
            BeginIf(from = Admin /\ amount > 0 /\ meta.fees[token] >= amount, p,
                    NewRequest("adminWithdrawFees", from, to, token, amount),
                    <<Need(Treasury, token, amount), Sub(Treasury, token, amount),
                      Add(to, token, amount),
                      NewOp("feeSub", Treasury, token, amount)>>)
      BY <2>0
    <2>2. amount \in Int
      <3>1. meta.fees[token] \in Int
        BY DEF TypeOK, Meta
      <3>2. QED
        BY <3>1, AmountType
    <2> DEFINE n == Need(Treasury, token, amount)
               a == Sub(Treasury, token, amount)
               b == Add(to, token, amount)
               d == NewOp("feeSub", Treasury, token, amount)
               r == NewRequest("adminWithdrawFees", from, to, token, amount)
               ok == from = Admin /\ amount > 0 /\ meta.fees[token] >= amount
    <2>3. BeginIf(ok, p, r, <<n, a, b, d>>) /\ ok \in BOOLEAN
      BY <2>1
    <2>4. a \in Op /\ b \in Op /\ n \in Op /\ d \in Op
      BY <1>0, <2>2, StepsType
    <2>5. /\ a.kind = "sub" /\ b.kind = "add" /\ n.kind = "need" /\ d.kind = "feeSub"
          /\ r.method = "adminWithdrawFees"
      BY KindOf, RequestOf
    <2>6. b.token = a.token /\ b.amt = a.amt
      BY FieldsOf
    <2> HIDE DEF a, b, n, d, r, ok
    <2>7. StartsWell(r, <<n, a, b, d>>)
      <3>1. /\ r.method \in {"sendUSDCc", "ethSendRaw", "adminForceTransfer", "adminWithdrawFees"}
            /\ d.kind \notin {"need", "sub", "add"}
        BY <2>4, <2>5, <2>6
      <3>2. /\ StartsWell(r, <<a, b>>) /\ StartsWell(r, <<a, b, d>>)
            /\ StartsWell(r, <<n, a, b>>) /\ StartsWell(r, <<n, a, b, d>>)
        BY <2>4, <2>5, <2>6, <3>1, MoveListStarts
      <3>3. QED
        BY <3>2
    <2>8. QED
      BY <2>3, <2>7, BeginIfPlanned
  <1>8. CASE AdminSetFees(p)
    BY <1>8 DEF AdminSetFees, Refuse, Answers
  <1>9. CASE AdminPauseTransfers(p)
    BY <1>9 DEF AdminPauseTransfers, Refuse, Answers
  <1>10. CASE EthSendRaw(p)
    <2>1. PICK from \in Senders, to \in Receivers, base \in Amounts, nonce \in 0..MaxNonce :
            EthSendRaw(p)!(from, to, base, nonce)
      BY <1>10 DEF EthSendRaw
    <2> DEFINE value == base * Unit
               r == [NewRequest("ethSendRaw", from, to, "GORR", value) EXCEPT !.nonce = nonce]
               n == Need(from, "GORR", value)
               a == Sub(from, "GORR", value)
               b == Add(to, "GORR", value)
               d == Step("ethRecord")
               ok == nonce = ethNonces[from] /\ to # Zero /\ value > 0
    <2>2. BeginIf(ok, p, r, <<a, b, d>>) /\ ok \in BOOLEAN
      BY <2>1
    <2>3. value \in Int
      BY AmountType
    <2> HIDE DEF value
    <2>4. a \in Op /\ b \in Op /\ n \in Op /\ d \in Op
      BY <1>0, <2>3, StepsType
    <2>5. a.kind = "sub" /\ b.kind = "add" /\ n.kind = "need" /\ d.kind = "ethRecord"
      BY KindOf
    <2>6. r.method = "ethSendRaw"
      BY DEF NewRequest
    <2>7. b.token = a.token /\ b.amt = a.amt
      BY FieldsOf
    <2> HIDE DEF a, b, n, d, r, ok
    <2>8. StartsWell(r, <<a, b, d>>)
      <3>1. /\ r.method \in {"sendUSDCc", "ethSendRaw", "adminForceTransfer", "adminWithdrawFees"}
            /\ d.kind \notin {"need", "sub", "add"}
        BY <2>4, <2>5, <2>6, <2>7
      <3>2. /\ StartsWell(r, <<a, b>>) /\ StartsWell(r, <<a, b, d>>)
            /\ StartsWell(r, <<n, a, b>>) /\ StartsWell(r, <<n, a, b, d>>)
        BY <2>4, <2>5, <2>6, <2>7, <3>1, MoveListStarts
      <3>3. QED
        BY <3>2
    <2>9. QED
      BY <2>2, <2>8, BeginIfPlanned
  <1>11. QED
    BY <1>1, <1>2, <1>3, <1>4, <1>5, <1>6, <1>7, <1>8, <1>9, <1>10 DEF Arrive

-----------------------------------------------------------------------------
(* Rates *)

\* No fee rate the node may use, now or after a restart, is above 100%.
RatesInUse ==
    /\ meta.bps \in FairRate /\ disk.bps \in FairRate
    /\ \A q \in Procs : snap[q].bps \in FairRate

LEMMA ArriveRates ==
  ASSUME TypeOK, RatesFair, RatesInUse, NEW p \in Procs, Arrive(p)
  PROVE  RatesInUse'
  <1>1. \A r, ops, ok : BeginIf(ok, p, r, ops) => meta' = meta
    BY DEF BeginIf, Begin, Refuse
  <1>2. meta'.bps \in FairRate
    <2>1. CASE SendNative(p)
      BY <2>1 DEF SendNative, Begin, RatesInUse
    <2>2. CASE SendUSDCc(p) \/ AdminMint(p) \/ AdminBurn(p) \/ AdminMintToTreasury(p)
      BY <1>1, <2>2 DEF SendUSDCc, AdminMint, AdminBurn, AdminMintToTreasury, RatesInUse
    <2>3. CASE AdminForceTransfer(p) \/ AdminWithdrawFees(p) \/ EthSendRaw(p)
      BY <1>1, <2>3 DEF AdminForceTransfer, AdminWithdrawFees, EthSendRaw, RatesInUse
    <2>4. CASE AdminSetFees(p)
      <3>1. meta' = meta \/ \E bps \in FeeRates : meta' = [meta EXCEPT !.bps = bps]
        BY <2>4 DEF AdminSetFees, Refuse
      <3>2. QED
        BY <3>1 DEF TypeOK, Meta, RatesFair, RatesInUse
    <2>5. CASE AdminPauseTransfers(p)
      BY <2>5 DEF AdminPauseTransfers, Refuse, RatesInUse
    <2>6. QED
      BY <2>1, <2>2, <2>3, <2>4, <2>5 DEF Arrive
  <1>3. \E r : Receive(p, r)
    BY ArriveFrame
  <1>4. disk' = disk /\ snap' = snap
    BY <1>3 DEF Receive, regVars
  <1>5. QED
    BY <1>2, <1>4 DEF RatesInUse

LEMMA ExecuteRates ==
  ASSUME TypeOK, RatesInUse, NEW p \in Procs, Execute(p)
  PROVE  RatesInUse'
  <1> USE DEF RatesInUse, storeVars, memVars, regVars
  <1>1. CASE CheckFunds(p) \/ Debit(p) \/ Credit(p) \/ LoadAccount(p)
    BY <1>1 DEF CheckFunds, Debit, Credit, LoadAccount
  <1>2. CASE StoreAccount(p) \/ ReadSupply(p) \/ WriteSupply(p) \/ ReadFees(p)
    BY <1>2 DEF StoreAccount, ReadSupply, WriteSupply, ReadFees
  <1>3. CASE WriteFees(p)
    <2>1. meta'.bps = meta.bps
      BY <1>3 DEF WriteFees, TypeOK, Meta
    <2>2. QED
      BY <1>3, <2>1 DEF WriteFees
  <1>4. CASE MarshalMeta(p)
    BY <1>4 DEF MarshalMeta, TypeOK
  <1>5. CASE PutMeta(p)
    BY <1>5 DEF PutMeta
  <1>6. CASE RecordEthTx(p) \/ CheckPaused(p) \/ RejectZeroTarget(p) \/ Succeed(p)
    BY <1>6 DEF RecordEthTx, CheckPaused, RejectZeroTarget, Succeed
  <1>7. QED
    BY <1>1, <1>2, <1>3, <1>4, <1>5, <1>6 DEF Execute

-----------------------------------------------------------------------------
(* Sums over the accounts *)

\* Totals are integers, and writing one balance changes the total by as much.
LEMMA TotalType ==
  ASSUME NEW d \in [Addr -> Account], NEW t \in Token
  PROVE  Total(d, t) \in Int
  <1>1. \A a \in Addr : [x \in Addr |-> d[x][t]][a] \in Int
    BY DEF Account
  <1>2. QED
    BY <1>1, AddressesAssumption, SumIsInt DEF Total

SetAt(d, a, tok, v) == [d EXCEPT ![a][tok] = v]

LEMMA TotalOfWrite ==
  ASSUME NEW d \in [Addr -> Account], NEW e \in [Addr -> Account], NEW a \in Addr,
         NEW tok \in Token, NEW v \in Int, e = SetAt(d, a, tok, v), NEW t \in Token
  PROVE  Total(e, t) = Total(d, t) + (IF t = tok THEN v - d[a][tok] ELSE 0)
  <1> DEFINE f == [x \in Addr |-> d[x][t]]
             g == [x \in Addr |-> e[x][t]]
  <1>1. \A x \in Addr : f[x] \in Int /\ g[x] \in Int
    BY DEF Account
  <1>2. \A x \in Addr : x # a => g[x] = f[x]
    BY DEF SetAt
  <1>3. g[a] - f[a] = IF t = tok THEN v - d[a][tok] ELSE 0
    BY DEF Account, SetAt
  <1>4. SumOver(g, Addr) = SumOver(f, Addr) + (g[a] - f[a])
    <2> HIDE DEF f, g
    <2>1. QED
      BY <1>1, <1>2, AddressesAssumption, SumUpdate
  <1>5. QED
    BY <1>3, <1>4 DEF Total

-----------------------------------------------------------------------------
(* One request at a time *)

\* What p computed and loaded is what the store holds.
UpToDate(p) ==
    /\ pc[p] \in {"load", "store"} =>
         next[p] = db[Cur(p).addr][Cur(p).token] + Moved(Cur(p))
    /\ pc[p] = "store" => rec[p] = db[Cur(p).addr]

LEMMA ExecuteUpToDate ==
  ASSUME TypeOK, NEW p \in Procs, UpToDate(p), PlaceFits(p), Execute(p)
  PROVE  UpToDate(p)'
  <1> USE DEF UpToDate, storeVars, memVars, regVars, At
  <1>0. p \in DOMAIN pc /\ p \in DOMAIN todo /\ p \in DOMAIN next /\ p \in DOMAIN rec
    BY DEF TypeOK
  <1>1. ASSUME Advance(p) \/ \E result : Return(p, result) PROVE pc'[p] \in {"run", "idle"}
    BY <1>0, <1>1 DEF Advance, Return
  <1>2. ASSUME NEW place, Goto(p, place) PROVE pc'[p] = place /\ Cur(p)' = Cur(p)
    BY <1>0, <1>2 DEF Goto, Cur
  <1>3. CASE CheckFunds(p) \/ StoreAccount(p) \/ WriteSupply(p) \/ PutMeta(p)
    BY <1>1, <1>3 DEF CheckFunds, StoreAccount, WriteSupply, PutMeta
  <1>4. CASE RecordEthTx(p) \/ CheckPaused(p) \/ RejectZeroTarget(p) \/ Succeed(p)
    BY <1>1, <1>4 DEF RecordEthTx, CheckPaused, RejectZeroTarget, Succeed
  <1>5. CASE Debit(p) \/ Credit(p)
    <2>1. CASE Advance(p) \/ \E result : Return(p, result)
      BY <1>1, <2>1
    <2>2. CASE Goto(p, "load")
      <3>1. /\ next'[p] = db[Cur(p).addr][Cur(p).token] + Moved(Cur(p))
            /\ db' = db
        <4>1. CASE Debit(p)
          <5>1. Cur(p).kind = "sub" /\ db' = db
            BY <4>1 DEF Debit
          <5>2. ~Return(p, "error")
            BY <1>0, <2>2 DEF Goto, Return
          <5>3. next'[p] = db[Cur(p).addr][Cur(p).token] - Cur(p).amt
            BY <1>0, <4>1, <5>2 DEF Debit
          <5>4. db[Cur(p).addr][Cur(p).token] \in Int /\ Cur(p).amt \in Int
            <6>1. todo[p] # <<>>
              BY <4>1 DEF Debit
            <6>2. Cur(p).addr \in Addr /\ Cur(p).token \in Token /\ Cur(p).amt \in Int
              BY <6>1, CurType
            <6>3. QED
              BY <6>2 DEF TypeOK, Account
          <5>5. QED
            BY <5>1, <5>3, <5>4 DEF Moved
        <4>2. CASE Credit(p)
          <5>1. Cur(p).kind = "add" /\ db' = db
            BY <4>2 DEF Credit
          <5>2. ~Advance(p)
            BY <1>0, <2>2 DEF Goto, Advance
          <5>3. next'[p] = db[Cur(p).addr][Cur(p).token] + Cur(p).amt
            BY <1>0, <4>2, <5>2 DEF Credit
          <5>4. QED
            BY <5>1, <5>3 DEF Moved
        <4>3. QED
          BY <1>5, <4>1, <4>2
      <3>2. pc'[p] = "load" /\ Cur(p)' = Cur(p)
        BY <1>2, <2>2
      <3>3. QED
        BY <3>1, <3>2
    <2>3. QED
      BY <1>5, <2>1, <2>2 DEF Debit, Credit
  <1>6. CASE LoadAccount(p)
    <2>1. pc'[p] = "store" /\ Cur(p)' = Cur(p)
      BY <1>2, <1>6 DEF LoadAccount
    <2>2. QED
      BY <1>0, <1>6, <2>1 DEF LoadAccount
  <1>7. CASE ReadSupply(p)
    <2>1. pc'[p] \in {"run", "idle", "supply"}
      BY <1>1, <1>2, <1>7 DEF ReadSupply
    <2>2. QED
      BY <2>1
  <1>8. CASE ReadFees(p) \/ WriteFees(p) \/ MarshalMeta(p)
    <2>1. pc'[p] \in {"fees", "marshal", "put"}
      BY <1>2, <1>8 DEF ReadFees, WriteFees, MarshalMeta
    <2>2. QED
      BY <2>1
  <1>9. QED
    BY <1>3, <1>4, <1>5, <1>6, <1>7, <1>8 DEF Execute

\* The total changes by what the step is about.
LEMMA ExecuteTotal ==
  ASSUME TypeOK, TypeOK', NEW p \in Procs, UpToDate(p), Execute(p), NEW t \in Token
  PROVE  Total(db', t) = Total(db, t) + Written(p, t)
  <1>1. Total(db, t) \in Int
    BY TotalType DEF TypeOK
  <1>2. CASE ~StoreAccount(p)
    <2>1. db' = db
      <3>1. /\ ~CheckFunds(p) /\ ~Debit(p) /\ ~Credit(p) /\ ~LoadAccount(p) /\ ~ReadSupply(p) =>
                 db' = db
            /\ CheckFunds(p) \/ Debit(p) \/ Credit(p) \/ LoadAccount(p) \/ ReadSupply(p) =>
                 db' = db
        BY <1>2 DEF Execute, WriteSupply, ReadFees, WriteFees, MarshalMeta, PutMeta,
                    RecordEthTx, CheckPaused, RejectZeroTarget, Succeed, CheckFunds, Debit, Credit,
                    LoadAccount, ReadSupply, storeVars
      <3>2. QED
        BY <3>1
    <2>2. QED
      BY <1>1, <1>2, <2>1 DEF Written
  <1>3. CASE StoreAccount(p)
    <2>1. /\ pc[p] = "store" /\ todo[p] # <<>>
          /\ db' = [db EXCEPT ![Cur(p).addr] = [rec[p] EXCEPT ![Cur(p).token] = next[p]]]
      BY <1>3 DEF StoreAccount, TypeOK
    <2>2. Cur(p).addr \in Addr /\ Cur(p).token \in Token /\ Cur(p).amt \in Int
      BY <2>1, CurType
    <2>3. db \in [Addr -> Account] /\ db' \in [Addr -> Account] /\ next[p] \in Int
      BY DEF TypeOK
    <2>4. /\ rec[p] = db[Cur(p).addr]
          /\ next[p] = db[Cur(p).addr][Cur(p).token] + Moved(Cur(p))
      BY <2>1 DEF UpToDate
    <2>5. db' = [db EXCEPT ![Cur(p).addr][Cur(p).token] = next[p]]
      BY <2>1, <2>4
    <2>6. Total(db', t) = Total(db, t) + (IF t = Cur(p).token THEN next[p] - db[Cur(p).addr][Cur(p).token] ELSE 0)
      <3> DEFINE e == db'
                 a == Cur(p).addr
                 tok == Cur(p).token
                 v == next[p]
      <3>1. e \in [Addr -> Account] /\ a \in Addr /\ tok \in Token /\ v \in Int
        BY <2>2, <2>3
      <3>2. e = SetAt(db, a, tok, v)
        BY <2>5 DEF SetAt
      <3> HIDE DEF e, a, tok, v
      <3>3. Total(e, t) = Total(db, t) + (IF t = tok THEN v - db[a][tok] ELSE 0)
        BY <2>3, <3>1, <3>2, TotalOfWrite
      <3>4. QED
        BY <3>3 DEF e, a, tok, v
    <2>7. db[Cur(p).addr][Cur(p).token] \in Int /\ Moved(Cur(p)) \in Int
      BY <2>2, <2>3 DEF Account, Moved
    <2>8. next[p] - db[Cur(p).addr][Cur(p).token] = Moved(Cur(p))
      <3> DEFINE b == db[Cur(p).addr][Cur(p).token]
                 m == Moved(Cur(p))
                 n == next[p]
      <3>1. n = b + m /\ b \in Int /\ m \in Int
        BY <2>4, <2>7
      <3> HIDE DEF b, m, n
      <3>2. n - b = m
        BY <3>1
      <3>3. QED
        BY <3>2 DEF b, m, n
    <2>9. CASE t = Cur(p).token
      <3>1. Total(db', t) = Total(db, t) + Moved(Cur(p))
        BY <2>6, <2>8, <2>9
      <3>2. Written(p, t) = Moved(Cur(p))
        BY <1>3, <2>9 DEF Written
      <3>3. QED
        BY <3>1, <3>2
    <2>10. CASE t # Cur(p).token
      <3>1. Total(db', t) = Total(db, t) + 0
        BY <2>6, <2>10
      <3>2. Written(p, t) = 0
        BY <2>10 DEF Written
      <3>3. QED
        BY <3>1, <3>2
    <2>11. QED
      BY <2>9, <2>10
  <1>4. QED
    BY <1>2, <1>3

\* A handler that starts owes at most what its request mints.
LEMMA ArriveFunds ==
  ASSUME TypeOK, TypeOK', meta.bps \in FairRate, NEW p \in Procs, InPlan(p), Arrive(p)
  PROVE  /\ InPlan(p)' /\ db' = db /\ began'[p] = View /\ req'[p].method \in Methods
         /\ pc'[p] \in {"idle", "run"}
         /\ \A t \in Token : /\ Due(todo[p], t) = 0
                             /\ Due(todo'[p], t) <= Mints(req'[p], t)
  <1>0. p \in DOMAIN pc /\ p \in DOMAIN todo /\ p \in DOMAIN req /\ p \in DOMAIN began
    BY DEF TypeOK
  <1>1. ASSUME NEW r, Receive(p, r)
        PROVE  /\ db' = db /\ began'[p] = View /\ req'[p] = r /\ r.method \in Methods
               /\ pc[p] = "idle" /\ todo[p] = <<>>
    BY <1>0, <1>1 DEF Receive, InPlan
  <1>2. \A t : Due(<<>>, t) = 0
    BY NothingLeft
  <1>3. Planned(<<>>, req'[p].method = "adminBurn")
    BY NothingLeft DEF Planned
  <1>4. \A t \in Token : Mints(req'[p], t) \in Nat
    <2>1. req'[p] \in Request
      BY <1>0 DEF TypeOK
    <2>2. req'[p].amt \in Int
      BY <2>1 DEF Request
    <2>3. QED
      BY <2>2 DEF Mints
  <1>5. CASE Answers(p)
    <2>1. PICK r, result : Answer(p, r, result)
      BY <1>5 DEF Answers
    <2>2. pc' = pc /\ todo' = todo /\ Receive(p, r)
      BY <2>1 DEF Answer
    <2>3. pc'[p] = "idle" /\ todo'[p] = <<>>
      BY <1>1, <2>2
    <2>4. InPlan(p)'
      BY <1>3, <2>3 DEF InPlan, PlaceFits
    <2>5. QED
      BY <1>1, <1>2, <1>4, <2>2, <2>3, <2>4
  <1>6. CASE StartsPlanned(p)
    <2>1. PICK r, ops : Begin(p, r, ops) /\ StartsWell(r, ops)
      BY <1>6 DEF StartsPlanned
    <2>2. pc'[p] = "run" /\ todo'[p] = ops /\ Receive(p, r)
      BY <1>0, <2>1 DEF Begin
    <2>3. req'[p] = r
      BY <1>1, <2>2
    <2>4. Planned(todo'[p], req'[p].method = "adminBurn")
      BY <2>1, <2>2, <2>3 DEF StartsWell
    <2>5. \A t \in Token : Due(todo'[p], t) = Mints(req'[p], t)
      BY <2>1, <2>2, <2>3 DEF StartsWell
    <2>6. InPlan(p)'
      BY <2>2, <2>4 DEF InPlan, PlaceFits
    <2>7. \A t \in Token : Due(todo'[p], t) <= Mints(req'[p], t)
      BY <1>4, <2>5
    <2>8. QED
      BY <1>1, <1>2, <2>2, <2>6, <2>7
  <1>7. QED
    BY <1>5, <1>6, ArrivePlanned

\* What the accounts hold and what the handler in flight still has to credit is
\* no more than the accounts held when it began and what it may mint.
Funded(p) ==
    \A t \in Token :
        Total(db, t) + Due(todo[p], t) <= Total(began[p].db, t) + Mints(req[p], t)

FundsInv(p) == InPlan(p) /\ RatesInUse /\ UpToDate(p) /\ Funded(p)

LEMMA FundsTypes ==
  ASSUME TypeOK, NEW p \in Procs, NEW t \in Token
  PROVE  /\ Total(db, t) \in Int /\ Due(todo[p], t) \in Nat
         /\ Total(began[p].db, t) \in Int /\ Mints(req[p], t) \in Nat
  <1>1. db \in [Addr -> Account] /\ began[p].db \in [Addr -> Account] /\ todo[p] \in Seq(Op)
    BY DEF TypeOK
  <1>2. req[p].amt \in Int
    BY DEF TypeOK, Request
  <1>3. Mints(req[p], t) \in Nat
    BY <1>2 DEF Mints
  <1>4. QED
    BY <1>1, <1>3, TotalType, DueType

LEMMA NextFunds ==
  ASSUME NEW p, Procs = {p}, RatesFair, TypeOK, TypeOK', FundsInv(p), [Next]_vars
  PROVE  FundsInv(p)'
  <1>0. p \in Procs /\ InPlan(p) /\ RatesInUse /\ UpToDate(p) /\ Funded(p)
    BY DEF FundsInv
  <1>t. ASSUME NEW t \in Token
        PROVE  /\ Total(db, t) \in Int /\ Due(todo[p], t) \in Nat
               /\ Total(began[p].db, t) \in Int /\ Mints(req[p], t) \in Nat
               /\ Total(db, t)' \in Int /\ Due(todo[p], t)' \in Nat
               /\ Total(began[p].db, t)' \in Int /\ Mints(req[p], t)' \in Nat
    <2>1. /\ db' \in [Addr -> Account] /\ began'[p].db \in [Addr -> Account] /\ todo'[p] \in Seq(Op)
          /\ req'[p].amt \in Int
      BY <1>0 DEF TypeOK, Request
    <2>2. Total(db', t) \in Int /\ Due(todo'[p], t) \in Nat /\ Total(began'[p].db, t) \in Int
      BY <2>1, TotalType, DueType
    <2>3. Mints(req'[p], t) \in Nat
      BY <2>1 DEF Mints
    <2>4. QED
      BY <1>0, <2>2, <2>3, FundsTypes
  <1>1. CASE Arrive(p)
    <2>1. /\ InPlan(p)' /\ db' = db /\ began'[p].db = db /\ pc'[p] \in {"idle", "run"}
          /\ \A t \in Token : Due(todo'[p], t) <= Mints(req'[p], t)
      BY <1>0, <1>1, ArriveFunds DEF RatesInUse, View
    <2>2. RatesInUse'
      BY <1>0, <1>1, ArriveRates
    <2>3. UpToDate(p)'
      BY <2>1 DEF UpToDate
    <2>4. Funded(p)'
      BY <1>t, <2>1 DEF Funded
    <2>5. QED
      BY <2>1, <2>2, <2>3, <2>4 DEF FundsInv
  <1>2. CASE Execute(p)
    <2>1. InPlan(p)' /\ \A t \in Token : Due(todo'[p], t) + Written(p, t) <= Due(todo[p], t)
      BY <1>0, <1>2, ExecutePlanned
    <2>2. RatesInUse' /\ UpToDate(p)'
      BY <1>0, <1>2, ExecuteRates, ExecuteUpToDate DEF InPlan
    <2>3. began' = began /\ req' = req
      BY <1>2 DEF Execute, callVars, CheckFunds, Debit, Credit, LoadAccount, StoreAccount,
                  ReadSupply, WriteSupply, ReadFees, WriteFees, MarshalMeta, PutMeta,
                  RecordEthTx, CheckPaused, RejectZeroTarget, Succeed
    <2>4. Funded(p)'
      <3>1. SUFFICES ASSUME NEW t \in Token
                     PROVE  Total(db', t) + Due(todo'[p], t) <= Total(began[p].db, t) + Mints(req[p], t)
        BY <2>3 DEF Funded
      <3>2. Total(db', t) = Total(db, t) + Written(p, t)
        BY <1>0, <1>2, ExecuteTotal
      <3>3. Due(todo'[p], t) + Written(p, t) <= Due(todo[p], t)
        BY <2>1
      <3>4. Total(db, t) + Due(todo[p], t) <= Total(began[p].db, t) + Mints(req[p], t)
        BY <1>0 DEF Funded
      <3>5. Written(p, t) \in Int
        <4>1. CASE StoreAccount(p)
          <5>1. pc[p] = "store" /\ todo[p] # <<>>
            BY <4>1 DEF StoreAccount, TypeOK
          <5>2. Cur(p).amt \in Int
            BY <1>0, <5>1, CurType
          <5>3. QED
            BY <5>2 DEF Written, Moved
        <4>2. CASE ~StoreAccount(p)
          BY <4>2 DEF Written
        <4>3. QED
          BY <4>1, <4>2
      <3>6. QED
        <4>1. /\ Total(db, t) \in Int /\ Due(todo[p], t) \in Nat /\ Due(todo'[p], t) \in Nat
              /\ Total(began[p].db, t) \in Int /\ Mints(req[p], t) \in Nat
          BY <1>t
        <4>2. QED
          BY <3>2, <3>3, <3>4, <3>5, <4>1
    <2>5. QED
      BY <2>1, <2>2, <2>4 DEF FundsInv
  <1>3. CASE Restart
    <2>1. /\ pc'[p] = "idle" /\ todo'[p] = <<>> /\ db' = db /\ began' = began /\ req' = req
          /\ meta' = disk /\ disk' = disk /\ snap' = snap
      BY <1>0, <1>3 DEF Restart, regVars
    <2>2. InPlan(p)' /\ UpToDate(p)'
      BY <2>1, NothingLeft DEF InPlan, UpToDate, PlaceFits, Planned
    <2>3. RatesInUse'
      BY <1>0, <2>1 DEF RatesInUse
    <2>4. Funded(p)'
      <3>1. \A t : Due(todo'[p], t) = 0
        BY <2>1, NothingLeft
      <3>2. QED
        BY <1>0, <1>t, <2>1, <3>1 DEF Funded
    <2>5. QED
      BY <2>2, <2>3, <2>4 DEF FundsInv
  <1>4. CASE UNCHANGED vars
    <2>1. UNCHANGED <<db, disk, meta, pc, todo, next, rec, snap, req, began>>
      BY <1>4 DEF vars, memVars, regVars, callVars
    <2>2. InPlan(p)' /\ UpToDate(p)'
      BY <1>0, <2>1 DEF InPlan, UpToDate, PlaceFits, Cur
    <2>3. RatesInUse' /\ Funded(p)'
      BY <1>0, <2>1 DEF RatesInUse, Funded
    <2>4. QED
      BY <2>2, <2>3 DEF FundsInv
  <1>5. QED
    BY <1>0, <1>1, <1>2, <1>3, <1>4 DEF Next, Wait

\* Requests that come one at a time never create funds, but for what a mint
\* credits: after any number of requests and whatever access of the store a
\* restart comes after, provided no fee rate is above 100%.
THEOREM OneAtATimeCreatesNothing ==
  ASSUME NEW p, Procs = {p}, RatesFair
  PROVE  Spec => []NothingCreated
  <1>1. Init => FundsInv(p)
    <2>1. SUFFICES ASSUME Init PROVE FundsInv(p)
      OBVIOUS
    <2>2. TypeOK /\ p \in Procs
      BY <2>1, InitType
    <2>3. /\ pc[p] = "idle" /\ todo[p] = <<>> /\ began[p].db = db /\ meta = InitialMeta
          /\ disk = InitialMeta /\ snap[p] = InitialMeta
      BY <2>1 DEF Init, View
    <2>4. InPlan(p) /\ UpToDate(p)
      BY <2>3, NothingLeft DEF InPlan, UpToDate, PlaceFits, Planned
    <2>5. RatesInUse
      BY <2>3 DEF RatesInUse, RatesFair
    <2>6. Funded(p)
      <3>1. \A t : Due(todo[p], t) = 0
        BY <2>3, NothingLeft
      <3>2. \A t \in Token : Total(db, t) \in Int /\ Mints(req[p], t) \in Nat
        BY <2>2, FundsTypes
      <3>3. QED
        BY <2>3, <3>1, <3>2 DEF Funded
    <2>7. QED
      BY <2>4, <2>5, <2>6 DEF FundsInv
  <1>2. TypeOK /\ FundsInv(p) /\ [Next]_vars => FundsInv(p)'
    <2>1. TypeOK /\ [Next]_vars => TypeOK'
      BY NextType
    <2>2. QED
      BY <2>1, NextFunds
  <1>3. TypeOK /\ FundsInv(p) => NothingCreated
    <2>1. SUFFICES ASSUME TypeOK, Funded(p), NEW t \in Token
                   PROVE  Total(db, t) <= Total(began[p].db, t) + Mints(req[p], t)
      BY DEF FundsInv, NothingCreated
    <2>2. /\ Total(db, t) \in Int /\ Due(todo[p], t) \in Nat
          /\ Total(began[p].db, t) \in Int /\ Mints(req[p], t) \in Nat
      <3>1. p \in Procs
        OBVIOUS
      <3>2. QED
        BY <2>1, <3>1, FundsTypes
    <2>3. Total(db, t) + Due(todo[p], t) <= Total(began[p].db, t) + Mints(req[p], t)
      BY <2>1 DEF Funded
    <2>4. QED
      BY <2>2, <2>3
  <1>4. QED
    BY InitType, NextType, <1>1, <1>2, <1>3, PTL DEF Spec
=============================================================================
