---------------------------- MODULE StartupProofs ----------------------------
(* Theorems about Startup, the genesis funds among them, for every number  *)
(* of starts, failing writes, blocks and transfers.                        *)
EXTENDS Startup, SumProofs, SequenceTheorems, TLAPS

WriteName == {"wallets", "fundAdmin", "fundTreasury", "fundEvm", "block", "head"}
FileName == {"wallets", "block", "head"}
Working == mode \in {"genesis", "loading", "running"}

\* A write that is done leaves the list that follows it.
LEMMA TailList ==
  ASSUME NEW s \in Seq(WriteName), s # <<>>
  PROVE  /\ Tail(s) \in Seq(WriteName) /\ Len(Tail(s)) = Len(s) - 1
         /\ Len(s) \in Nat \ {0} /\ Head(s) = s[1]
         /\ \A i \in 1..Len(Tail(s)) : Tail(s)[i] = s[i + 1]
  BY HeadTailProperties, LenProperties, EmptySeq

\* The lists of writes a start begins with.
LEMMA ListTypes ==
  /\ WalletWrites \in Seq(WriteName) /\ GenesisWrites \in Seq(WriteName)
  /\ \/ WalletWrites = <<>> /\ GenesisWrites = <<"fundAdmin", "fundTreasury", "fundEvm", "block", "head">>
     \/ /\ WalletWrites = <<"wallets">>
        /\ GenesisWrites = <<"wallets", "fundAdmin", "fundTreasury", "fundEvm", "block", "head">>
  <1> DEFINE rest == <<"fundAdmin", "fundTreasury", "fundEvm", "block", "head">>
             all == <<"wallets", "fundAdmin", "fundTreasury", "fundEvm", "block", "head">>
  <1>1. rest \in Seq(WriteName) /\ all \in Seq(WriteName) /\ <<"wallets">> \in Seq(WriteName)
        /\ <<>> \in Seq(WriteName)
    BY DEF WriteName
  <1>2. <<>> \o rest = rest
    BY <1>1, ConcatEmptySeq
  <1>3. <<"wallets">> \o rest = all
    <2> DEFINE both == <<"wallets">> \o rest
    <2>1. /\ Len(<<"wallets">>) = 1 /\ Len(rest) = 5 /\ Len(all) = 6
          /\ <<"wallets">>[1] = all[1] /\ \A i \in 1..5 : rest[i] = all[i + 1]
      OBVIOUS
    <2> HIDE DEF rest, all
    <2>2. /\ both \in Seq(WriteName)
          /\ Len(both) = Len(<<"wallets">>) + Len(rest)
          /\ \A i \in 1..(Len(<<"wallets">>) + Len(rest)) :
                both[i] = IF i <= Len(<<"wallets">>) THEN <<"wallets">>[i]
                          ELSE rest[i - Len(<<"wallets">>)]
      BY <1>1, ConcatProperties
    <2> HIDE DEF both
    <2>3. \A i \in 1..6 : both[i] = all[i]
      <3>1. ASSUME NEW i \in 1..6 PROVE both[i] = all[i]
        <4>1. CASE i = 1
          BY <2>1, <2>2, <4>1
        <4>2. CASE i # 1
          <5>1. i - 1 \in 1..5 /\ (i - 1) + 1 = i
            BY <4>2
          <5>2. both[i] = rest[i - 1]
            BY <2>1, <2>2, <4>2
          <5>3. QED
            BY <2>1, <5>1, <5>2
        <4>3. QED
          BY <4>1, <4>2
      <3>2. QED
        BY <3>1
    <2>4. Len(both) = Len(all)
      BY <2>1, <2>2
    <2>5. both = all
      BY <1>1, <2>1, <2>2, <2>3, <2>4, SeqEqual
    <2>6. QED
      BY <2>5 DEF both
  <1>4. QED
    BY <1>1, <1>2, <1>3 DEF WalletWrites, GenesisWrites

-----------------------------------------------------------------------------
(* Types *)

\* The bounds are natural numbers and the addresses are known.
LEMMA Bounds ==
  /\ MaxBlocks \in Nat /\ MaxStarts \in Nat /\ MaxFailures \in Nat /\ MaxTransfers \in Nat
  /\ AdminAlloc \in Nat /\ TreasuryAlloc \in Nat /\ EvmFund \in Nat
  /\ {AdminKey, TreasuryKey, EvmUser, Zero} \subseteq Addr
  <1>1. {MaxStarts, MaxFailures, MaxBlocks, MaxTransfers} \subseteq Nat
    BY StartupAssumption
  <1>2. {AdminAlloc, TreasuryAlloc, EvmFund} \subseteq Nat
    BY StartupAssumption
  <1>3. {AdminKey, TreasuryKey, EvmUser, Zero} \subseteq Addr
    BY StartupAssumption
  <1>4. QED
    BY <1>1, <1>2, <1>3

\* What is in a file is neither the lack of one nor a torn one.
LEMMA NotAFile ==
  /\ Absent # Torn
  /\ \A x, y : [admin |-> x, treasury |-> y] \notin {Absent, Torn}
  /\ \A b : IsBlock(b) => b \notin {Absent, Torn}
  <1>1. Absent # Torn
    <2>1. Absent.content # Torn.content
      BY DEF Absent, Torn
    <2>2. QED
      BY <2>1
  <1>2. DOMAIN Absent = {"content"} /\ DOMAIN Torn = {"content"}
    BY DEF Absent, Torn
  <1>3. \A x, y : DOMAIN [admin |-> x, treasury |-> y] = {"admin", "treasury"}
    OBVIOUS
  <1>4. {"content"} # {"admin", "treasury"} /\ {"content"} # {"num", "time", "parent"}
    OBVIOUS
  <1>5. QED
    BY <1>1, <1>2, <1>3, <1>4 DEF IsBlock

\* A block record is a block.
LEMMA BlockType ==
  ASSUME NEW n \in 0..MaxBlocks, NEW t \in 0..MaxStarts, NEW h
  PROVE  IsBlock([num |-> n, time |-> t, parent |-> h])
  BY DEF IsBlock

LEMMA InitType == Init => TypeOK
  <1> SUFFICES ASSUME Init PROVE TypeOK
    OBVIOUS
  <1>1. MaxBlocks \in Nat /\ MaxStarts \in Nat /\ MaxFailures \in Nat /\ MaxTransfers \in Nat
    BY StartupAssumption
  <1>2. IsBlock(NoBlock)
    BY <1>1, BlockType DEF NoBlock
  <1>3. {admin, treasury} \subseteq Addr
    BY Bounds DEF Init
  <1>4. QED
    BY <1>1, <1>2, <1>3 DEF Init, TypeOK

LEMMA StartType == TypeOK /\ Start => TypeOK'
  <1> SUFFICES ASSUME TypeOK, Start PROVE TypeOK'
    OBVIOUS
  <1>1. starts' \in 0..MaxStarts /\ MaxBlocks \in Nat /\ starts' \in Nat
    BY Bounds DEF Start, TypeOK
  <1>2. IsBlock([NoBlock EXCEPT !.time = starts'])
    <2>1. [NoBlock EXCEPT !.time = starts'] = [num |-> 0, time |-> starts', parent |-> NoHash]
      BY DEF NoBlock
    <2>2. QED
      BY <1>1, <2>1, BlockType
  <1>3. /\ {Keys.admin, Keys.treasury} \subseteq Addr
        /\ {NoKeys.admin, NoKeys.treasury} \subseteq Addr
    BY Bounds DEF Keys, NoKeys
  <1>4. ~open
    BY DEF TypeOK, Start, Doing
  <1>5. /\ mode' \in {"off", "genesis", "loading", "running", "failed"}
        /\ todo' \in Seq(WriteName)
        /\ {admin', treasury'} \subseteq Addr /\ IsBlock(head')
    <2>1. CASE StartGenesis
      BY <1>2, <1>3, <2>1, ListTypes DEF StartGenesis, TypeOK, WriteName
    <2>2. CASE StartLoaded
      BY <1>3, <2>2, ListTypes DEF StartLoaded, TypeOK
    <2>3. CASE StartRefused
      BY <2>3 DEF StartRefused, TypeOK, WriteName
    <2>4. QED
      BY <2>1, <2>2, <2>3 DEF Start
  <1>6. /\ UNCHANGED <<db, wallets, headFile, blockFile, open, failures, transfers, failed>>
    BY DEF Start, disk
  <1>7. QED
    BY <1>1, <1>4, <1>5, <1>6 DEF TypeOK, WriteName, IsBlock

LEMMA FundType ==
  ASSUME TypeOK, NEW w, NEW a \in Addr, NEW amount \in Nat, w \notin FileName, Fund(w, a, amount)
  PROVE  TypeOK'
  <1>1. todo \in Seq(WriteName) /\ todo # <<>> /\ todo' = Tail(todo) /\ open' = FALSE
    BY DEF Fund, Doing, Done, TypeOK, WriteName
  <1>2. todo' \in Seq(WriteName)
    BY <1>1, TailList
  <1>3. db' \in [Addr -> Nat]
    BY DEF Fund, TypeOK
  <1>4. UNCHANGED <<wallets, headFile, blockFile, mode, admin, treasury, head,
                    starts, failures, transfers, failed>>
    BY DEF Fund, InMemory, counters
  <1>5. QED
    BY <1>1, <1>2, <1>3, <1>4 DEF TypeOK, WriteName, IsBlock

LEMMA TruncateType == TypeOK /\ TruncateFile => TypeOK'
  <1> SUFFICES ASSUME TypeOK, TruncateFile PROVE TypeOK'
    OBVIOUS
  <1>1. /\ wallets' \in {wallets, Torn} /\ headFile' \in {headFile, Torn}
        /\ blockFile' = blockFile \/ blockFile' = [blockFile EXCEPT ![head.num] = Torn]
    BY DEF TruncateFile
  <1>2. \A n \in 0..MaxBlocks : blockFile'[n] \in {blockFile[n], Torn}
    BY <1>1 DEF TypeOK
  <1>3. UNCHANGED <<db, todo, mode, admin, treasury, head, starts, failures, transfers, failed>>
    BY DEF TruncateFile, InMemory, counters
  <1>4. open' = TRUE /\ \E f \in FileName : Doing(f)'
    BY <1>3 DEF TruncateFile, Doing, FileName
  <1>5. QED
    BY <1>1, <1>2, <1>3, <1>4 DEF TypeOK, IsBlock, FileName

LEMMA FillType == TypeOK /\ FillFile => TypeOK'
  <1> SUFFICES ASSUME TypeOK, FillFile PROVE TypeOK'
    OBVIOUS
  <1>1. /\ wallets' \in {wallets, Keys} /\ headFile' \in {headFile, head}
        /\ blockFile' = blockFile \/ blockFile' = [blockFile EXCEPT ![head.num] = head]
    BY DEF FillFile
  <1>2. DOMAIN blockFile' = 0..MaxBlocks
    BY <1>1 DEF TypeOK
  <1>6. \A n \in 0..MaxBlocks : \/ blockFile'[n] = blockFile[n]
                               \/ (blockFile'[n] = head /\ n = head.num)
    <2>1. DOMAIN blockFile = 0..MaxBlocks
      BY DEF TypeOK
    <2>2. CASE blockFile' = blockFile
      BY <2>2
    <2>3. CASE blockFile' = [blockFile EXCEPT ![head.num] = head]
      BY <2>1, <2>3
    <2>4. QED
      BY <1>1, <2>2, <2>3
  <1>3. todo \in Seq(WriteName) /\ todo # <<>> /\ todo' = Tail(todo) /\ open' = FALSE
    BY DEF FillFile, Doing, Done, TypeOK, WriteName
  <1>4. todo' \in Seq(WriteName)
    BY <1>3, TailList
  <1>5. UNCHANGED <<db, mode, admin, treasury, head, starts, failures, transfers, failed>>
    BY DEF FillFile, InMemory, counters
  <1>7. QED
    BY <1>1, <1>2, <1>3, <1>4, <1>5, <1>6 DEF TypeOK, IsBlock, WriteName

LEMMA FailType == TypeOK /\ FailFile => TypeOK'
  <1> SUFFICES ASSUME TypeOK, FailFile PROVE TypeOK'
    OBVIOUS
  <1>1. /\ todo \in Seq(WriteName) /\ todo # <<>> /\ todo' \in {<<>>, Tail(todo)}
        /\ open' = FALSE /\ Working
    BY DEF FailFile, Doing, TypeOK, WriteName, Working
  <1>2. todo' \in Seq(WriteName)
    <2>1. Tail(todo) \in Seq(WriteName)
      BY <1>1, TailList
    <2>2. <<>> \in Seq(WriteName)
      BY EmptySeq
    <2>3. QED
      BY <1>1, <2>1, <2>2
  <1>3. failures' \in 0..MaxFailures
    BY Bounds DEF FailFile, TypeOK
  <1>4. failed' \subseteq {"genesis", "loading", "running"} \X FileName
    <2>1. PICK f \in FileName : failed' = failed \cup {<<mode, f>>}
      BY DEF FailFile, FileName
    <2>2. <<mode, f>> \in {"genesis", "loading", "running"} \X FileName
      BY <1>1 DEF Working
    <2>3. QED
      BY <2>1, <2>2 DEF TypeOK, FileName
  <1>5. UNCHANGED <<db, wallets, headFile, blockFile, mode, admin, treasury, head, starts, transfers>>
    BY DEF FailFile, disk
  <1>6. QED
    BY <1>1, <1>2, <1>3, <1>4, <1>5 DEF TypeOK, IsBlock, WriteName, FileName

LEMMA ProduceType == TypeOK /\ Produce => TypeOK'
  <1> SUFFICES ASSUME TypeOK, Produce PROVE TypeOK'
    OBVIOUS
  <1>1. head.num + 1 \in 0..MaxBlocks /\ starts \in 0..MaxStarts
    BY Bounds DEF Produce, TypeOK, IsBlock
  <1>2. IsBlock(head')
    BY <1>1, BlockType DEF Produce, NewBlock
  <1>3. todo' \in Seq(WriteName)
    BY DEF Produce, WriteName
  <1>4. ~open
    BY DEF Produce, TypeOK, Doing
  <1>5. UNCHANGED <<db, wallets, headFile, blockFile, mode, open, admin, treasury,
                    starts, failures, transfers, failed>>
    BY DEF Produce, disk, counters
  <1>6. QED
    BY <1>2, <1>3, <1>4, <1>5 DEF TypeOK, IsBlock, WriteName

LEMMA TransferType == TypeOK /\ Transfer => TypeOK'
  <1> SUFFICES ASSUME TypeOK, Transfer PROVE TypeOK'
    OBVIOUS
  <1>1. db' \in [Addr -> Nat]
    <2>1. PICK from \in Addr, to \in Addr :
             /\ from # to /\ db[from] > 0
             /\ db' = [db EXCEPT ![from] = @ - 1, ![to] = @ + 1]
      BY DEF Transfer
    <2>2. db[from] - 1 \in Nat /\ db[to] + 1 \in Nat
      BY <2>1 DEF TypeOK
    <2>3. QED
      BY <2>1, <2>2 DEF TypeOK
  <1>2. transfers' \in 0..MaxTransfers
    BY Bounds DEF Transfer, TypeOK
  <1>3. UNCHANGED <<wallets, headFile, blockFile, mode, todo, open, admin, treasury, head,
                    starts, failures, failed>>
    BY DEF Transfer
  <1>4. QED
    BY <1>1, <1>2, <1>3 DEF TypeOK, IsBlock, Doing

LEMMA CrashType == TypeOK /\ Crash => TypeOK'
  <1> SUFFICES ASSUME TypeOK, Crash PROVE TypeOK'
    OBVIOUS
  <1>1. IsBlock(head') /\ {admin', treasury'} \subseteq Addr
    BY Bounds, BlockType DEF Crash, NoBlock
  <1>2. /\ mode' = "off" /\ todo' = <<>> /\ open' = FALSE
        /\ UNCHANGED <<db, wallets, headFile, blockFile, starts, failures, transfers, failed>>
    BY DEF Crash, disk, counters
  <1>3. QED
    BY <1>1, <1>2 DEF TypeOK, IsBlock

\* Every step keeps the types.
LEMMA StepType == TypeOK /\ [Next]_vars => TypeOK'
  <1> SUFFICES ASSUME TypeOK, [Next]_vars PROVE TypeOK'
    OBVIOUS
  <1>1. CASE Run
    <2>1. ~open
      BY <1>1 DEF Run, TypeOK, Doing
    <2>2. /\ mode' = "running"
          /\ UNCHANGED <<db, wallets, headFile, blockFile, todo, open, admin, treasury, head,
                         starts, failures, transfers, failed>>
      BY <1>1 DEF Run, disk, counters
    <2>3. QED
      BY <2>1, <2>2 DEF TypeOK, IsBlock
  <1>2. CASE FundAdmin \/ FundTreasury \/ FundEvmUser
    <2>1. /\ admin \in Addr /\ treasury \in Addr /\ EvmUser \in Addr
          /\ AdminAlloc \in Nat /\ TreasuryAlloc \in Nat /\ EvmFund \in Nat
      BY Bounds DEF TypeOK
    <2>2. QED
      BY <1>2, <2>1, FundType DEF FundAdmin, FundTreasury, FundEvmUser, FileName
  <1>3. CASE Rest \/ UNCHANGED vars
    <2>1. UNCHANGED <<db, wallets, headFile, blockFile, mode, todo, open, admin, treasury, head,
                      starts, failures, transfers, failed>>
      BY <1>3 DEF Rest, vars, disk, counters
    <2>2. QED
      BY <2>1 DEF TypeOK, IsBlock, Doing
  <1>4. QED
    BY <1>1, <1>2, <1>3, StartType, TruncateType, FillType, FailType, ProduceType,
       TransferType, CrashType DEF Next, Works

\* Every file is absent, torn or complete, whatever dies and fails.
THEOREM TypeCorrect == Spec => []TypeOK
  BY InitType, StepType, PTL DEF Spec

-----------------------------------------------------------------------------
(* What is left to write *)

\* wallets.json comes first and head.json last; while wallets.json or block_0
\* of a genesis is still to be written there is no head; a running node writes
\* blocks above genesis only.
ListInv ==
    /\ mode = "genesis" =>
          /\ \A i \in 1..Len(todo) :
                /\ todo[i] = "wallets" => i = 1
                /\ todo[i] = "head" => i = Len(todo)
                /\ todo[i] \in {"wallets", "block"} => headFile = Absent
    /\ mode = "loading" => \A i \in 1..Len(todo) : todo[i] = "wallets"
    /\ mode = "running" => \A i \in 1..Len(todo) : todo[i] \in {"block", "head"} /\ head.num > 0
    /\ mode \in {"off", "failed"} => todo = <<>>

\* The write that is under way is the first of the list.
LEMMA DoingFirst ==
  ASSUME TypeOK, NEW w, Doing(w)
  PROVE  /\ Working /\ todo \in Seq(WriteName) /\ todo # <<>>
         /\ Len(todo) \in Nat \ {0} /\ 1 \in 1..Len(todo) /\ todo[1] = w
         /\ Tail(todo) \in Seq(WriteName) /\ Len(Tail(todo)) = Len(todo) - 1
         /\ \A i \in 1..Len(Tail(todo)) : i + 1 \in 1..Len(todo) /\ Tail(todo)[i] = todo[i + 1]
  <1>1. Working /\ todo \in Seq(WriteName) /\ todo # <<>> /\ Head(todo) = w
    BY DEF Doing, TypeOK, Working, WriteName
  <1>2. QED
    BY <1>1, TailList

\* Taking the first write off the list, or all of them, keeps ListInv.
LEMMA ShorterList ==
  ASSUME TypeOK, ListInv, NEW w, Doing(w), todo' \in {<<>>, Tail(todo)},
         UNCHANGED <<mode, head>>,
         headFile' = headFile \/ w = "head"
  PROVE  ListInv'
  <1>1. CASE todo' = <<>>
    BY <1>1 DEF ListInv
  <1>2. CASE todo' = Tail(todo)
    <2>1. /\ Len(todo) \in Nat \ {0} /\ todo[1] = w /\ 1 \in 1..Len(todo)
          /\ Len(todo') = Len(todo) - 1
          /\ \A i \in 1..Len(todo') : i + 1 \in 1..Len(todo) /\ todo'[i] = todo[i + 1]
      BY <1>2, DoingFirst
    <2>2. Working
      BY DoingFirst
    <2>3. ASSUME mode = "genesis", NEW i \in 1..Len(todo')
          PROVE  /\ todo'[i] = "wallets" => i = 1
                 /\ todo'[i] = "head" => i = Len(todo')
                 /\ todo'[i] \in {"wallets", "block"} => headFile' = Absent
      <3>1. w # "head"
        BY <2>1, <2>3 DEF ListInv
      <3>2. QED
        BY <2>1, <2>3, <3>1 DEF ListInv
    <2>4. QED
      BY <2>1, <2>2, <2>3 DEF ListInv, Working
  <1>3. QED
    BY <1>1, <1>2

LEMMA InitList == Init => ListInv
  BY DEF Init, ListInv

\* The two lists of a genesis.
LEMMA GenesisOrder ==
  ASSUME NEW i \in 1..Len(GenesisWrites)
  PROVE  /\ GenesisWrites[i] = "wallets" => i = 1
         /\ GenesisWrites[i] = "head" => i = Len(GenesisWrites)
  <1>1. CASE GenesisWrites = <<"fundAdmin", "fundTreasury", "fundEvm", "block", "head">>
    BY <1>1
  <1>2. CASE GenesisWrites = <<"wallets", "fundAdmin", "fundTreasury", "fundEvm", "block", "head">>
    BY <1>2
  <1>3. QED
    BY <1>1, <1>2, ListTypes

LEMMA StepList == TypeOK /\ ListInv /\ [Next]_vars => ListInv'
  <1> SUFFICES ASSUME TypeOK, ListInv, [Next]_vars PROVE ListInv'
    OBVIOUS
  <1>1. CASE Start
    <2>0. mode = "off" /\ todo = <<>> /\ headFile' = headFile
      BY <1>1 DEF Start, ListInv, disk
    <2>1. CASE StartGenesis
      <3>1. CASE wallets = Torn
        BY <2>0, <2>1, <3>1 DEF StartGenesis, ListInv
      <3>2. CASE wallets # Torn
        <4>1. mode' = "genesis" /\ todo' = GenesisWrites /\ headFile' = Absent
          BY <2>0, <2>1, <3>2 DEF StartGenesis
        <4>2. \A i \in 1..Len(todo') : /\ todo'[i] = "wallets" => i = 1
                                       /\ todo'[i] = "head" => i = Len(todo')
          BY <4>1, GenesisOrder
        <4>3. QED
          BY <4>1, <4>2 DEF ListInv
      <3>3. QED
        BY <3>1, <3>2
    <2>2. CASE StartLoaded
      <3>1. mode' = "loading" /\ todo' \in {<<>>, <<"wallets">>}
        BY <2>2, ListTypes DEF StartLoaded
      <3>2. QED
        BY <3>1 DEF ListInv
    <2>3. CASE StartRefused
      BY <2>0, <2>3 DEF StartRefused, ListInv
    <2>4. QED
      BY <1>1, <2>1, <2>2, <2>3 DEF Start
  <1>2. CASE Run
    BY <1>2 DEF Run, ListInv
  <1>3. CASE FundAdmin \/ FundTreasury \/ FundEvmUser
    <2>1. PICK w \in {"fundAdmin", "fundTreasury", "fundEvm"} : Doing(w)
      BY <1>3 DEF FundAdmin, FundTreasury, FundEvmUser, Fund
    <2>2. todo' = Tail(todo) /\ UNCHANGED <<mode, head, headFile>>
      BY <1>3 DEF FundAdmin, FundTreasury, FundEvmUser, Fund, Done, InMemory
    <2>3. QED
      BY <2>1, <2>2, ShorterList
  <1>4. CASE TruncateFile
    <2>1. PICK f \in FileName : Doing(f)
      BY <1>4 DEF TruncateFile, FileName
    <2>2. UNCHANGED <<mode, todo, head>> /\ (headFile' = headFile \/ Doing("head"))
      BY <1>4 DEF TruncateFile, InMemory
    <2>3. CASE headFile' = headFile
      BY <2>2, <2>3 DEF ListInv
    <2>4. CASE Doing("head")
      <3>1. /\ Len(todo) \in Nat \ {0} /\ todo[1] = "head" /\ 1 \in 1..Len(todo)
        BY <2>4, DoingFirst
      <3>2. mode = "genesis" => Len(todo) = 1
        BY <3>1 DEF ListInv
      <3>3. QED
        BY <2>2, <3>1, <3>2 DEF ListInv
    <2>5. QED
      BY <2>2, <2>3, <2>4
  <1>5. CASE FillFile
    <2>1. PICK f \in FileName : Doing(f)
      BY <1>5 DEF FillFile, TypeOK, FileName
    <2>2. /\ todo' = Tail(todo) /\ UNCHANGED <<mode, head>>
          /\ headFile' = headFile \/ f = "head"
      BY <1>5, <2>1 DEF FillFile, Done, InMemory, Doing
    <2>3. QED
      BY <2>1, <2>2, ShorterList
  <1>6. CASE FailFile
    <2>1. PICK f \in FileName : Doing(f)
      BY <1>6 DEF FailFile, FileName
    <2>2. todo' \in {<<>>, Tail(todo)} /\ UNCHANGED <<mode, head, headFile>>
      BY <1>6 DEF FailFile, disk
    <2>3. QED
      BY <2>1, <2>2, ShorterList
  <1>7. CASE Produce
    <2>1. /\ mode' = "running" /\ todo' = <<"block", "head">> /\ head'.num = head.num + 1
          /\ head.num \in Nat
      BY <1>7 DEF Produce, NewBlock, TypeOK, IsBlock
    <2>2. QED
      BY <2>1 DEF ListInv
  <1>8. CASE Crash
    BY <1>8 DEF Crash, ListInv
  <1>9. CASE Transfer \/ Rest \/ UNCHANGED vars
    BY <1>9 DEF Transfer, Rest, vars, disk, ListInv
  <1>10. QED
    BY <1>1, <1>2, <1>3, <1>4, <1>5, <1>6, <1>7, <1>8, <1>9 DEF Next, Works

\* While the node has a head, block_0.json is not written: there is one genesis
\* block, whatever dies and fails.
THEOREM GenesisBlockIsFinal == Spec => GenesisIsFinal
  <1>1. TypeOK /\ ListInv /\ [Next]_vars =>
           (headFile \notin {Absent, Torn} => blockFile'[0] = blockFile[0])
    <2> SUFFICES ASSUME TypeOK, ListInv, [Next]_vars, headFile \notin {Absent, Torn}
                 PROVE  blockFile'[0] = blockFile[0]
      OBVIOUS
    <2>1. \/ blockFile' = blockFile
          \/ /\ Doing("block")
             /\ \/ blockFile' = [blockFile EXCEPT ![head.num] = Torn]
                \/ blockFile' = [blockFile EXCEPT ![head.num] = head]
      BY DEF Next, Works, Start, Run, FundAdmin, FundTreasury, FundEvmUser, Fund, TruncateFile,
             FillFile, FailFile, Produce, Transfer, Crash, Rest, disk, vars
    <2>2. Doing("block") => head.num # 0
      <3> SUFFICES ASSUME Doing("block") PROVE head.num > 0
        OBVIOUS
      <3>1. Working /\ todo[1] = "block" /\ 1 \in 1..Len(todo)
        BY DoingFirst
      <3>2. QED
        BY <3>1 DEF ListInv, Working
    <2>3. DOMAIN blockFile = 0..MaxBlocks /\ 0 \in 0..MaxBlocks
      BY Bounds DEF TypeOK
    <2>4. QED
      BY <2>1, <2>2, <2>3
  <1>2. QED
    BY <1>1, InitType, InitList, StepType, StepList, PTL DEF Spec, GenesisIsFinal

-----------------------------------------------------------------------------
(* Wallets *)

\* As long as writing wallets.json has not failed: the file is complete once
\* genesis is past it, and is not written again.
WalletInv ==
    ~WalletsFailed =>
        /\ Working => admin = AdminKey /\ treasury = TreasuryKey
        /\ (\/ headFile # Absent
            \/ mode \in {"loading", "running"}
            \/ mode = "genesis" /\ ~Doing("wallets"))
              => wallets = Keys
        /\ Doing("wallets") => mode = "genesis"

LEMMA InitWallet == Init => WalletInv
  BY DEF Init, WalletInv, Working, Doing

LEMMA KeyFields == Keys.admin = AdminKey /\ Keys.treasury = TreasuryKey
  BY DEF Keys

\* A write other than that of wallets.json, done or begun.
LEMMA OtherWrite ==
  ASSUME TypeOK, ListInv, WalletInv, ~WalletsFailed, NEW w, Doing(w), w # "wallets",
         todo' \in {<<>>, todo, Tail(todo)}, UNCHANGED <<mode, admin, treasury, wallets>>
  PROVE  /\ Working' => admin' = AdminKey /\ treasury' = TreasuryKey
         /\ wallets' = Keys
         /\ ~Doing("wallets")'
  <1>1. Working /\ ~Doing("wallets")
    BY DoingFirst DEF Doing
  <1>2. wallets = Keys
    BY <1>1 DEF WalletInv, Working
  <1>3. ~Doing("wallets")'
    <2>1. CASE todo' = Tail(todo)
      <3> SUFFICES ASSUME todo' # <<>>, Head(todo') = "wallets", mode = "genesis" PROVE FALSE
        <4>1. mode = "loading" => w = "wallets"
          BY DoingFirst DEF ListInv
        <4>2. mode = "running" => \A i \in 1..Len(todo) : todo[i] # "wallets"
          BY DEF ListInv
        <4>3. mode = "running" /\ todo' # <<>> => Head(todo') # "wallets"
          BY <2>1, <4>2, DoingFirst, EmptySeq
        <4>4. QED
          BY <4>1, <4>3 DEF Doing
      <3>1. /\ Len(todo') \in Nat \ {0} /\ 1 \in 1..Len(todo') /\ Len(todo) \in Nat
            /\ todo[1 + 1] = "wallets" /\ 1 + 1 \in 1..Len(todo)
        BY <2>1, DoingFirst, TailList
      <3>2. QED
        BY <3>1 DEF ListInv
    <2>2. CASE todo' \in {<<>>, todo}
      BY <1>1, <2>2 DEF Doing
    <2>3. QED
      BY <2>1, <2>2
  <1>4. QED
    BY <1>1, <1>2, <1>3 DEF WalletInv, Working

LEMMA StepWallet == TypeOK /\ ListInv /\ WalletInv /\ [Next]_vars => WalletInv'
  <1> SUFFICES ASSUME TypeOK, ListInv, WalletInv, [Next]_vars, ~WalletsFailed'
               PROVE  /\ Working' => admin' = AdminKey /\ treasury' = TreasuryKey
                      /\ (\/ headFile' # Absent
                          \/ mode' \in {"loading", "running"}
                          \/ mode' = "genesis" /\ ~Doing("wallets")')
                            => wallets' = Keys
                      /\ Doing("wallets")' => mode' = "genesis"
    BY DEF WalletInv
  <1>0. ~WalletsFailed /\ failed \subseteq failed'
    <2>1. failed \subseteq failed'
      BY DEF Next, Works, Start, Run, FundAdmin, FundTreasury, FundEvmUser, Fund, TruncateFile,
             FillFile, FailFile, Produce, Transfer, Crash, Rest, InMemory, vars
    <2>2. QED
      BY <2>1 DEF WalletsFailed
  <1>1. CASE Start
    <2>0. mode = "off" /\ UNCHANGED <<headFile, wallets>> /\ wallets \in {Absent, Torn, Keys}
          /\ Absent # Torn
      BY <1>1, NotAFile DEF Start, disk, TypeOK
    <2>1. CASE StartGenesis /\ wallets = Torn
      BY <1>0, <2>0, <2>1 DEF StartGenesis, WalletInv, Working, Doing
    <2>2. CASE StartGenesis /\ wallets # Torn
      <3>1. /\ mode' = "genesis" /\ todo' = GenesisWrites /\ headFile' = Absent
            /\ admin' = Keys.admin /\ treasury' = Keys.treasury
        BY <2>0, <2>2 DEF StartGenesis
      <3>2. wallets = Absent => Doing("wallets")'
        <4> SUFFICES ASSUME wallets = Absent PROVE Doing("wallets")'
          OBVIOUS
        <4>1. GenesisWrites = <<"wallets", "fundAdmin", "fundTreasury", "fundEvm", "block", "head">>
          BY ListTypes DEF WalletWrites
        <4>2. QED
          BY <3>1, <4>1 DEF Doing
      <3>3. QED
        BY <2>0, <2>2, <3>1, <3>2, KeyFields
    <2>3. CASE StartLoaded
      <3>1. headFile # Absent /\ wallets = Keys
        BY <1>0, <2>3 DEF StartLoaded, WalletInv
      <3>2. mode' = "loading" /\ todo' = WalletWrites
            /\ LET w == IF wallets = Torn THEN NoKeys ELSE Keys IN
               admin' = w.admin /\ treasury' = w.treasury
        BY <2>3 DEF StartLoaded
      <3>3. Keys \notin {Absent, Torn}
        BY NotAFile DEF Keys
      <3>4. QED
        BY <2>0, <3>1, <3>2, <3>3, KeyFields DEF WalletWrites, Doing
    <2>4. CASE StartRefused
      BY <1>0, <2>0, <2>4 DEF StartRefused, WalletInv, Working, Doing
    <2>5. QED
      BY <1>1, <2>1, <2>2, <2>3, <2>4 DEF Start
  <1>2. CASE Run
    BY <1>0, <1>2 DEF Run, WalletInv, Working, Doing, disk
  <1>3. CASE FundAdmin \/ FundTreasury \/ FundEvmUser
    <2>1. PICK w \in {"fundAdmin", "fundTreasury", "fundEvm"} : Doing(w)
      BY <1>3 DEF FundAdmin, FundTreasury, FundEvmUser, Fund
    <2>2. todo' = Tail(todo) /\ UNCHANGED <<mode, admin, treasury, wallets>>
      BY <1>3 DEF FundAdmin, FundTreasury, FundEvmUser, Fund, Done, InMemory
    <2>3. w # "wallets"
      BY <2>1
    <2>4. QED
      BY <1>0, <2>1, <2>2, <2>3, OtherWrite
  <1>4. CASE TruncateFile
    <2>1. PICK f \in FileName : Doing(f)
      BY <1>4 DEF TruncateFile, FileName
    <2>2. UNCHANGED <<mode, todo, head, admin, treasury>>
      BY <1>4 DEF TruncateFile, InMemory
    <2>3. CASE f # "wallets"
      <3>1. wallets' = wallets
        BY <1>4, <2>1, <2>3 DEF TruncateFile, Doing
      <3>2. QED
        BY <1>0, <2>1, <2>2, <2>3, <3>1, OtherWrite
    <2>4. CASE f = "wallets"
      <3>1. mode = "genesis" /\ Doing("wallets")' /\ headFile' = headFile
        BY <1>0, <1>4, <2>1, <2>2, <2>4 DEF TruncateFile, WalletInv, Doing
      <3>2. headFile = Absent
        BY <2>1, <2>4, <3>1, DoingFirst DEF ListInv
      <3>3. QED
        BY <1>0, <2>2, <3>1, <3>2 DEF WalletInv, Working
    <2>5. QED
      BY <2>3, <2>4
  <1>5. CASE FillFile
    <2>1. PICK f \in FileName : Doing(f)
      BY <1>5 DEF FillFile, TypeOK, FileName
    <2>2. todo' = Tail(todo) /\ UNCHANGED <<mode, admin, treasury>>
      BY <1>5 DEF FillFile, Done, InMemory
    <2>3. CASE f # "wallets"
      <3>1. wallets' = wallets
        BY <1>5, <2>1, <2>3 DEF FillFile, Doing
      <3>2. QED
        BY <1>0, <2>1, <2>2, <2>3, <3>1, OtherWrite
    <2>4. CASE f = "wallets"
      <3>1. wallets' = Keys /\ mode = "genesis"
        BY <1>0, <1>5, <2>1, <2>4 DEF FillFile, WalletInv
      <3>2. QED
        BY <1>0, <2>2, <3>1 DEF WalletInv, Working
    <2>5. QED
      BY <2>3, <2>4
  <1>6. CASE FailFile
    <2>1. PICK f \in FileName : Doing(f) /\ failed' = failed \cup {<<mode, f>>}
      BY <1>6 DEF FailFile, FileName
    <2>2. todo' \in {<<>>, Tail(todo)} /\ UNCHANGED <<mode, admin, treasury, wallets>>
      BY <1>6 DEF FailFile, disk
    <2>3. f # "wallets"
      BY <1>0, <2>1 DEF WalletInv, WalletsFailed
    <2>4. QED
      BY <1>0, <2>1, <2>2, <2>3, OtherWrite
  <1>7. CASE Produce
    BY <1>0, <1>7 DEF Produce, WalletInv, Working, Doing, disk
  <1>8. CASE Crash
    BY <1>0, <1>8 DEF Crash, WalletInv, Working, Doing, disk
  <1>9. CASE Transfer \/ Rest \/ UNCHANGED vars
    BY <1>0, <1>9 DEF Transfer, Rest, vars, disk, WalletInv, Working, Doing
  <1>10. QED
    BY <1>1, <1>2, <1>3, <1>4, <1>5, <1>6, <1>7, <1>8, <1>9 DEF Next, Works

\* A running node has the admin and the treasury that genesis funded, for every
\* number of starts and crashes, unless a write of wallets.json failed.
THEOREM WalletsAreStable == Spec => []WalletsStable
  <1>1. WalletInv => WalletsStable
    BY DEF WalletInv, WalletsStable, Working
  <1>2. QED
    BY <1>1, InitType, InitList, InitWallet, StepType, StepList, StepWallet, PTL DEF Spec
-----------------------------------------------------------------------------
(* The chain on disk *)

OnDisk(h) ==
    /\ blockFile[h.num] = h
    /\ \A n \in 0..h.num : Saved(n)
    /\ \A n \in 1..h.num : blockFile[n].parent = Hash(blockFile[n - 1])

\* During genesis head.json is the last write, after that of the block.
GenesisChain ==
    /\ head.num = 0
    /\ (todo = <<>> /\ headFile = head) \/ (todo # <<>> /\ todo[Len(todo)] = "head")
    /\ (\A i \in 1..Len(todo) : todo[i] # "block") => blockFile[0] = head

\* The running node has saved its head, or is writing the block above the saved
\* one, or is writing the head above a chain that is complete.
RunningChain ==
    \/ todo = <<>> /\ headFile = head
    \/ /\ todo = <<"block", "head">>
       /\ headFile \notin {Absent, Torn}
       /\ head.num = headFile.num + 1 /\ head.parent = Hash(headFile)
    \/ todo = <<"head">> /\ OnDisk(head)

ChainInv ==
    failed = {} =>
        /\ headFile \notin {Absent, Torn} => OnDisk(headFile)
        /\ mode = "genesis" => GenesisChain
        /\ mode = "loading" => headFile = head
        /\ mode = "running" => RunningChain

LEMMA InitChain == Init => ChainInv
  BY DEF Init, ChainInv

\* Both lists of a genesis contain the block and end with the head.
LEMMA GenesisEnds ==
  /\ GenesisWrites # <<>> /\ GenesisWrites[Len(GenesisWrites)] = "head"
  /\ \E i \in 1..Len(GenesisWrites) : GenesisWrites[i] = "block"
  <1>1. CASE GenesisWrites = <<"fundAdmin", "fundTreasury", "fundEvm", "block", "head">>
    <2>1. Len(GenesisWrites) = 5 /\ GenesisWrites[5] = "head" /\ GenesisWrites[4] = "block"
      BY <1>1
    <2>2. GenesisWrites # <<>> /\ 4 \in 1..5
      BY <1>1
    <2>3. QED
      BY <2>1, <2>2
  <1>2. CASE GenesisWrites = <<"wallets", "fundAdmin", "fundTreasury", "fundEvm", "block", "head">>
    <2>1. Len(GenesisWrites) = 6 /\ GenesisWrites[6] = "head" /\ GenesisWrites[5] = "block"
      BY <1>2
    <2>2. GenesisWrites # <<>> /\ 5 \in 1..6
      BY <1>2
    <2>3. QED
      BY <2>1, <2>2
  <1>3. QED
    BY <1>1, <1>2, ListTypes

\* A write of a genesis other than block and head leaves GenesisChain as it is.
LEMMA EarlyWrite ==
  ASSUME TypeOK, GenesisChain, NEW w, Doing(w), w \notin {"block", "head"},
         todo' = Tail(todo), UNCHANGED <<head, headFile, blockFile>>
  PROVE  GenesisChain'
  <1>1. /\ Len(todo) \in Nat \ {0} /\ todo[1] = w /\ 1 \in 1..Len(todo) /\ todo # <<>>
        /\ todo' \in Seq(WriteName) /\ Len(todo') = Len(todo) - 1
        /\ \A i \in 1..Len(todo') : i + 1 \in 1..Len(todo) /\ todo'[i] = todo[i + 1]
    BY DoingFirst
  <1>2. todo[Len(todo)] = "head"
    BY <1>1 DEF GenesisChain
  <1>3. Len(todo) # 1
    BY <1>1, <1>2
  <1>4. todo' # <<>> /\ todo'[Len(todo')] = "head"
    <2>1. Len(todo') \in 1..Len(todo') /\ Len(todo') + 1 = Len(todo)
      BY <1>1, <1>3
    <2>2. QED
      BY <1>1, <1>2, <2>1, EmptySeq
  <1>5. (\A i \in 1..Len(todo') : todo'[i] # "block") => \A i \in 1..Len(todo) : todo[i] # "block"
    <2> SUFFICES ASSUME \A i \in 1..Len(todo') : todo'[i] # "block", NEW j \in 1..Len(todo)
                 PROVE  todo[j] # "block"
      OBVIOUS
    <2>1. CASE j = 1
      BY <1>1, <2>1
    <2>2. CASE j # 1
      <3>1. j - 1 \in 1..Len(todo') /\ (j - 1) + 1 = j
        BY <1>1, <2>2
      <3>2. todo'[j - 1] = todo[j]
        BY <1>1, <3>1
      <3>3. QED
        BY <3>1, <3>2
    <2>3. QED
      BY <2>1, <2>2
  <1>6. QED
    BY <1>4, <1>5 DEF GenesisChain

\* A write to block_k.json leaves a chain alone that ends below k.
LEMMA OtherBlock ==
  ASSUME TypeOK, NEW h, h.num \in Nat, OnDisk(h), NEW k, k \notin 0..h.num, NEW c,
         blockFile' = blockFile \/ blockFile' = [blockFile EXCEPT ![k] = c],
         h.num <= MaxBlocks
  PROVE  /\ blockFile'[h.num] = h
         /\ \A n \in 0..h.num : blockFile'[n] = blockFile[n] /\ blockFile'[n] \notin {Absent, Torn}
         /\ \A n \in 1..h.num : blockFile'[n].parent = Hash(blockFile'[n - 1])
  <1>1. DOMAIN blockFile = 0..MaxBlocks /\ MaxBlocks \in Nat
    BY Bounds DEF TypeOK
  <1>2. \A n \in 0..h.num : n \in 0..MaxBlocks /\ n # k
    BY <1>1
  <1>3. \A n \in 0..h.num : blockFile'[n] = blockFile[n]
    BY <1>1, <1>2
  <1>4. \A n \in 1..h.num : n \in 0..h.num /\ n - 1 \in 0..h.num
    OBVIOUS
  <1>5. h.num \in 0..h.num
    OBVIOUS
  <1>6. QED
    BY <1>3, <1>4, <1>5 DEF OnDisk, Saved

LEMMA TruncateChain ==
  ASSUME TypeOK, ListInv, ChainInv, TruncateFile, failed = {}
  PROVE  ChainInv'
  <1>1. PICK f \in FileName : Doing(f)
    BY DEF TruncateFile, FileName
  <1>2. /\ UNCHANGED <<mode, todo, head, failed>> /\ Working /\ todo[1] = f /\ todo # <<>>
        /\ 1 \in 1..Len(todo) /\ Len(todo) \in Nat
    BY <1>1, DoingFirst DEF TruncateFile, InMemory
  <1>3. /\ headFile' = IF f = "head" THEN Torn ELSE headFile
        /\ blockFile' = IF f = "block" THEN [blockFile EXCEPT ![head.num] = Torn] ELSE blockFile
    BY <1>1 DEF TruncateFile, Doing
  <1>4. IsBlock(head) /\ head.num \in 0..MaxBlocks /\ MaxBlocks \in Nat
    BY Bounds DEF TypeOK, IsBlock
  <1>5. CASE f = "wallets"
    <2>1. mode # "running"
      BY <1>2, <1>5 DEF ListInv
    <2>2. UNCHANGED <<headFile, blockFile>>
      BY <1>3, <1>5
    <2>3. QED
      BY <1>2, <2>1, <2>2 DEF ChainInv, OnDisk, Saved, GenesisChain
  <1>6. CASE f = "block"
    <2>1. CASE mode = "genesis"
      <3>1. headFile' = Absent
        BY <1>2, <1>3, <1>6, <2>1 DEF ListInv
      <3>2. GenesisChain'
        BY <1>2, <1>3, <1>6, <2>1 DEF ChainInv, GenesisChain
      <3>3. QED
        BY <1>2, <2>1, <3>1, <3>2 DEF ChainInv
    <2>2. CASE mode = "running"
      <3>1. /\ todo = <<"block", "head">> /\ headFile \notin {Absent, Torn}
            /\ head.num = headFile.num + 1 /\ head.parent = Hash(headFile) /\ OnDisk(headFile)
        BY <1>2, <1>6, <2>2 DEF ChainInv, RunningChain
      <3>2. headFile.num \in Nat /\ headFile.num <= MaxBlocks
        BY <3>1, Bounds DEF TypeOK, IsBlock
      <3>3. head.num \notin 0..headFile.num
        BY <3>1, <3>2
      <3>4. headFile' = headFile
        BY <1>3, <1>6
      <3>5. OnDisk(headFile)'
        BY <1>3, <1>6, <3>1, <3>2, <3>3, <3>4, OtherBlock DEF OnDisk, Saved
      <3>6. RunningChain'
        BY <1>2, <3>1, <3>4 DEF RunningChain
      <3>7. QED
        BY <1>2, <2>2, <3>5, <3>6 DEF ChainInv
    <2>3. CASE mode = "loading"
      BY <1>2, <1>6, <2>3 DEF ListInv
    <2>4. QED
      BY <1>2, <2>1, <2>2, <2>3 DEF Working
  <1>7. CASE f = "head"
    <2>1. headFile' = Torn /\ blockFile' = blockFile
      BY <1>3, <1>7
    <2>2. mode # "loading"
      BY <1>2, <1>7 DEF ListInv
    <2>3. mode = "genesis" => GenesisChain'
      BY <1>2, <1>7, <2>1 DEF ChainInv, GenesisChain
    <2>4. mode = "running" => RunningChain'
      <3> SUFFICES ASSUME mode = "running" PROVE RunningChain'
        OBVIOUS
      <3>1. todo = <<"head">> /\ OnDisk(head)
        <4>1. todo # <<"block", "head">>
          BY <1>2, <1>7
        <4>2. QED
          BY <1>2, <4>1 DEF ChainInv, RunningChain
      <3>2. OnDisk(head)'
        BY <1>2, <2>1, <3>1 DEF OnDisk, Saved
      <3>3. QED
        BY <1>2, <3>1, <3>2 DEF RunningChain
    <2>5. QED
      BY <1>2, <2>1, <2>2, <2>3, <2>4 DEF ChainInv
  <1>8. QED
    BY <1>5, <1>6, <1>7 DEF FileName

LEMMA FillChain ==
  ASSUME TypeOK, ListInv, ChainInv, FillFile, failed = {}
  PROVE  ChainInv'
  <1>1. PICK f \in FileName : Doing(f)
    BY DEF FillFile, TypeOK, FileName
  <1>2. /\ UNCHANGED <<mode, head, failed>> /\ todo' = Tail(todo)
        /\ Working /\ todo[1] = f /\ todo # <<>>
        /\ 1 \in 1..Len(todo) /\ Len(todo) \in Nat /\ Len(todo') = Len(todo) - 1
        /\ todo' \in Seq(WriteName)
        /\ \A i \in 1..Len(todo') : i + 1 \in 1..Len(todo) /\ todo'[i] = todo[i + 1]
    BY <1>1, DoingFirst DEF FillFile, InMemory, Done
  <1>3. /\ headFile' = IF f = "head" THEN head ELSE headFile
        /\ blockFile' = IF f = "block" THEN [blockFile EXCEPT ![head.num] = head] ELSE blockFile
    BY <1>1 DEF FillFile, Doing
  <1>4. /\ IsBlock(head) /\ head.num \in 0..MaxBlocks /\ MaxBlocks \in Nat
        /\ head \notin {Absent, Torn} /\ DOMAIN blockFile = 0..MaxBlocks
    BY Bounds, NotAFile DEF TypeOK, IsBlock
  <1>5. CASE f = "wallets"
    <2>1. mode # "running"
      BY <1>2, <1>5 DEF ListInv
    <2>2. UNCHANGED <<headFile, blockFile>>
      BY <1>3, <1>5
    <2>3. mode = "genesis" => GenesisChain'
      BY <1>1, <1>2, <1>5, <2>2, EarlyWrite DEF ChainInv
    <2>4. QED
      BY <1>2, <2>1, <2>2, <2>3 DEF ChainInv, OnDisk, Saved
  <1>6. CASE f = "block"
    <2>1. headFile' = headFile /\ blockFile'[head.num] = head
      BY <1>3, <1>4, <1>6
    <2>2. CASE mode = "genesis"
      <3>1. headFile' = Absent
        BY <1>2, <1>3, <1>6, <2>2 DEF ListInv
      <3>2. todo[Len(todo)] = "head" /\ head.num = 0
        BY <1>2, <2>2 DEF ChainInv, GenesisChain
      <3>3. todo' # <<>> /\ todo'[Len(todo')] = "head"
        <4>1. Len(todo) # 1
          BY <1>2, <1>6, <3>2
        <4>2. Len(todo') \in 1..Len(todo') /\ Len(todo') + 1 = Len(todo)
          BY <1>2, <4>1
        <4>3. QED
          BY <1>2, <3>2, <4>2, EmptySeq
      <3>4. QED
        BY <1>2, <2>1, <2>2, <3>1, <3>2, <3>3 DEF ChainInv, GenesisChain
    <2>3. CASE mode = "running"
      <3>1. /\ todo = <<"block", "head">> /\ headFile \notin {Absent, Torn}
            /\ head.num = headFile.num + 1 /\ head.parent = Hash(headFile) /\ OnDisk(headFile)
        BY <1>2, <1>6, <2>3 DEF ChainInv, RunningChain
      <3>2. headFile.num \in Nat /\ headFile.num <= MaxBlocks
        BY <3>1, Bounds DEF TypeOK, IsBlock
      <3>3. head.num \notin 0..headFile.num
        BY <3>1, <3>2
      <3>4. /\ blockFile'[headFile.num] = headFile
            /\ \A n \in 0..headFile.num : blockFile'[n] \notin {Absent, Torn}
            /\ \A n \in 1..headFile.num : blockFile'[n].parent = Hash(blockFile'[n - 1])
        BY <1>3, <1>6, <3>1, <3>2, <3>3, OtherBlock
      <3>5. OnDisk(headFile)'
        BY <2>1, <3>4 DEF OnDisk, Saved
      <3>6. OnDisk(head)'
        <4>1. \A n \in 0..head.num : n \in 0..headFile.num \/ n = head.num
          BY <3>1, <3>2
        <4>2. \A n \in 1..head.num : n \in 1..headFile.num \/ n = head.num
          BY <3>1, <3>2
        <4>3. head.num - 1 = headFile.num
          BY <3>1, <3>2
        <4>4. \A n \in 0..head.num : blockFile'[n] \notin {Absent, Torn}
          BY <1>4, <2>1, <3>4, <4>1
        <4>5. \A n \in 1..head.num : blockFile'[n].parent = Hash(blockFile'[n - 1])
          BY <2>1, <3>1, <3>4, <4>2, <4>3
        <4>6. QED
          BY <1>2, <2>1, <4>4, <4>5 DEF OnDisk, Saved
      <3>7. todo' = <<"head">>
        BY <1>2, <3>1
      <3>8. QED
        BY <1>2, <2>3, <3>5, <3>6, <3>7 DEF ChainInv, RunningChain
    <2>4. CASE mode = "loading"
      BY <1>2, <1>6, <2>4 DEF ListInv
    <2>5. QED
      BY <1>2, <2>2, <2>3, <2>4 DEF Working
  <1>7. CASE f = "head"
    <2>1. headFile' = head /\ blockFile' = blockFile
      BY <1>3, <1>7
    <2>2. CASE mode = "genesis"
      <3>1. Len(todo) = 1
        BY <1>2, <1>7, <2>2 DEF ListInv
      <3>2. blockFile[0] = head /\ head.num = 0
        BY <1>2, <1>7, <2>2, <3>1 DEF ChainInv, GenesisChain
      <3>3. todo' = <<>>
        BY <1>2, <3>1, EmptySeq
      <3>4. OnDisk(headFile)'
        BY <1>4, <2>1, <3>2 DEF OnDisk, Saved
      <3>5. QED
        BY <1>2, <2>1, <2>2, <3>2, <3>3, <3>4 DEF ChainInv, GenesisChain
    <2>3. CASE mode = "running"
      <3>1. todo = <<"head">> /\ OnDisk(head)
        <4>1. todo # <<"block", "head">>
          BY <1>2, <1>7
        <4>2. QED
          BY <1>2, <2>3, <4>1 DEF ChainInv, RunningChain
      <3>2. todo' = <<>>
        BY <1>2, <3>1
      <3>3. OnDisk(headFile)'
        BY <2>1, <3>1 DEF OnDisk, Saved
      <3>4. QED
        BY <1>2, <2>1, <2>3, <3>2, <3>3 DEF ChainInv, RunningChain
    <2>4. CASE mode = "loading"
      BY <1>2, <1>7, <2>4 DEF ListInv
    <2>5. QED
      BY <1>2, <2>2, <2>3, <2>4 DEF Working
  <1>8. QED
    BY <1>5, <1>6, <1>7 DEF FileName

LEMMA StepChain == TypeOK /\ ListInv /\ ChainInv /\ [Next]_vars => ChainInv'
  <1> SUFFICES ASSUME TypeOK, ListInv, ChainInv, [Next]_vars, failed' = {} PROVE ChainInv'
    BY DEF ChainInv
  <1>0. failed = {} /\ ~FailFile
    <2>1. failed \subseteq failed'
      BY DEF Next, Works, Start, Run, FundAdmin, FundTreasury, FundEvmUser, Fund, TruncateFile,
             FillFile, FailFile, Produce, Transfer, Crash, Rest, InMemory, vars
    <2>2. FailFile => failed' # {}
      BY DEF FailFile
    <2>3. QED
      BY <2>1, <2>2
  <1>1. CASE Start
    <2>0. UNCHANGED <<headFile, blockFile>>
      BY <1>1 DEF Start, disk
    <2>1. headFile \notin {Absent, Torn} => OnDisk(headFile)'
      BY <1>0, <2>0 DEF ChainInv, OnDisk, Saved
    <2>2. CASE StartGenesis /\ wallets = Torn
      BY <2>0, <2>1, <2>2 DEF StartGenesis, ChainInv
    <2>3. CASE StartGenesis /\ wallets # Torn
      <3>1. /\ mode' = "genesis" /\ todo' = GenesisWrites /\ head' = [NoBlock EXCEPT !.time = starts']
        BY <2>3 DEF StartGenesis
      <3>2. head'.num = 0
        BY <3>1 DEF NoBlock
      <3>3. GenesisChain'
        BY <3>1, <3>2, GenesisEnds DEF GenesisChain
      <3>4. QED
        BY <2>0, <2>1, <3>1, <3>3 DEF ChainInv
    <2>4. CASE StartLoaded
      BY <2>0, <2>1, <2>4 DEF StartLoaded, ChainInv
    <2>5. CASE StartRefused
      BY <2>0, <2>1, <2>5 DEF StartRefused, ChainInv
    <2>6. QED
      BY <1>1, <2>2, <2>3, <2>4, <2>5 DEF Start
  <1>2. CASE Run
    <2>1. /\ mode \in {"genesis", "loading"} /\ todo = <<>> /\ mode' = "running"
          /\ UNCHANGED <<headFile, blockFile, todo, head>>
      BY <1>2 DEF Run, disk
    <2>2. headFile = head
      BY <1>0, <2>1 DEF ChainInv, GenesisChain
    <2>3. QED
      BY <1>0, <2>1, <2>2 DEF ChainInv, RunningChain, OnDisk, Saved
  <1>3. CASE FundAdmin \/ FundTreasury \/ FundEvmUser
    <2>1. PICK w \in {"fundAdmin", "fundTreasury", "fundEvm"} : Doing(w)
      BY <1>3 DEF FundAdmin, FundTreasury, FundEvmUser, Fund
    <2>2. todo' = Tail(todo) /\ UNCHANGED <<mode, head, headFile, blockFile>>
      BY <1>3 DEF FundAdmin, FundTreasury, FundEvmUser, Fund, Done, InMemory
    <2>3. mode = "genesis"
      <3>1. Working /\ todo[1] = w /\ 1 \in 1..Len(todo)
        BY <2>1, DoingFirst
      <3>2. QED
        BY <2>1, <3>1 DEF ListInv, Working
    <2>4. w \notin {"block", "head"}
      BY <2>1
    <2>5. GenesisChain'
      BY <1>0, <2>1, <2>2, <2>3, <2>4, EarlyWrite DEF ChainInv
    <2>6. QED
      BY <1>0, <2>2, <2>3, <2>5 DEF ChainInv, OnDisk, Saved
  <1>4. CASE TruncateFile
    BY <1>0, <1>4, TruncateChain
  <1>5. CASE FillFile
    BY <1>0, <1>5, FillChain
  <1>6. CASE Produce
    <2>1. /\ mode = "running" /\ mode' = "running" /\ todo = <<>> /\ todo' = <<"block", "head">>
          /\ head'.num = head.num + 1 /\ head'.parent = Hash(head)
          /\ UNCHANGED <<headFile, blockFile>>
      BY <1>6 DEF Produce, NewBlock, disk
    <2>2. headFile = head /\ head \notin {Absent, Torn}
      BY <1>0, <2>1, NotAFile DEF ChainInv, RunningChain, TypeOK
    <2>3. RunningChain'
      BY <2>1, <2>2 DEF RunningChain
    <2>4. QED
      BY <1>0, <2>1, <2>3 DEF ChainInv, OnDisk, Saved
  <1>7. CASE Crash
    BY <1>0, <1>7 DEF Crash, disk, ChainInv, OnDisk, Saved
  <1>8. CASE Transfer \/ Rest \/ UNCHANGED vars
    <2>1. UNCHANGED <<headFile, blockFile, mode, todo, head>>
      BY <1>8 DEF Transfer, Rest, vars, disk
    <2>2. QED
      BY <1>0, <2>1 DEF ChainInv, RunningChain, GenesisChain, OnDisk, Saved
  <1>9. QED
    BY <1>0, <1>1, <1>2, <1>3, <1>4, <1>5, <1>6, <1>7, <1>8 DEF Next, Works

\* As long as no write fails the node runs on a chain that is complete and linked
\* on disk down to the genesis block, for every number of blocks and starts and
\* wherever the process died, in genesis too.
THEOREM NodeRunsOnWholeChain == Spec => []RunsOnWholeChain
  <1>1. TypeOK /\ ChainInv => RunsOnWholeChain
    <2> SUFFICES ASSUME TypeOK, ChainInv, mode = "running", todo = <<>>, failed = {}
                 PROVE  /\ headFile = head
                        /\ \A n \in 0..head.num : Saved(n)
                        /\ blockFile[head.num] = head
                        /\ \A n \in 1..head.num : blockFile[n].parent = Hash(blockFile[n - 1])
      BY DEF RunsOnWholeChain
    <2>1. headFile = head
      BY DEF ChainInv, RunningChain
    <2>2. OnDisk(head)
      BY <2>1, NotAFile DEF ChainInv, TypeOK
    <2>3. QED
      BY <2>1, <2>2 DEF OnDisk
  <1>2. QED
    BY <1>1, InitType, InitList, InitChain, StepType, StepList, StepChain, PTL DEF Spec

-----------------------------------------------------------------------------
(* What genesis funds *)

\* The balances a genesis gives, and whether a balance is still to be written.
Alloc == [a \in Addr |-> IF a = AdminKey THEN AdminAlloc
                         ELSE IF a = TreasuryKey THEN TreasuryAlloc
                         ELSE IF a = EvmUser THEN EvmFund ELSE 0]
Left(w) == \E i \in 1..Len(todo) : todo[i] = w
GenesisFunds ==
    /\ admin = AdminKey /\ treasury = TreasuryKey
    /\ todo # <<>> /\ todo[Len(todo)] = "head"
    /\ ~Left("fundAdmin") => db[AdminKey] = AdminAlloc
    /\ ~Left("fundTreasury") => db[TreasuryKey] = TreasuryAlloc
    /\ ~Left("fundEvm") => db[EvmUser] = EvmFund

\* Until head.json is written every account has nothing or what genesis gives
\* it, and what a genesis has no write left for is given; from then on genesis
\* has no more balances to write and the sum is what it gave.
FundInv ==
    <<"genesis", "head">> \notin failed =>
        IF headFile = Absent
        THEN /\ mode \in {"off", "genesis", "failed"}
             /\ \A a \in Addr : db[a] \in {0, Alloc[a]}
             /\ mode = "genesis" => GenesisFunds
        ELSE /\ Total = GenesisTotal
             /\ mode = "genesis" => \A i \in 1..Len(todo) : todo[i] = "head"

LEMMA Accounts ==
  /\ IsFiniteSet(Addr) /\ {AdminKey, TreasuryKey, EvmUser, Zero} \subseteq Addr
  /\ AdminKey # TreasuryKey /\ AdminKey # EvmUser /\ TreasuryKey # EvmUser
  <1> DEFINE four == {AdminKey, TreasuryKey, EvmUser, Zero}
  <1>1. IsFiniteSet(Addr) /\ four \subseteq Addr /\ Cardinality(four) = 4
    BY StartupAssumption
  <1>2. ASSUME NEW x, NEW y, NEW z, four = {x, y, z} PROVE FALSE
    <2>1. /\ IsFiniteSet({x}) /\ Cardinality({x}) = 1
          /\ IsFiniteSet({x, y}) /\ Cardinality({x, y}) <= 2
          /\ IsFiniteSet({x, y, z}) /\ Cardinality({x, y, z}) <= 3
      <3>1. IsFiniteSet({x}) /\ Cardinality({x}) = 1
        BY FS_Singleton
      <3>2. {x, y} = {x} \cup {y} /\ {x, y, z} = {x, y} \cup {z}
        OBVIOUS
      <3>3. /\ IsFiniteSet({x} \cup {y})
            /\ Cardinality({x} \cup {y}) = IF y \in {x} THEN Cardinality({x}) ELSE Cardinality({x}) + 1
        BY <3>1, FS_AddElement
      <3>4. IsFiniteSet({x, y}) /\ Cardinality({x, y}) \in {1, 2}
        BY <3>1, <3>2, <3>3
      <3>5. /\ IsFiniteSet({x, y} \cup {z})
            /\ Cardinality({x, y} \cup {z}) = IF z \in {x, y} THEN Cardinality({x, y}) ELSE Cardinality({x, y}) + 1
        BY <3>4, FS_AddElement
      <3>6. QED
        BY <3>1, <3>2, <3>4, <3>5
    <2>2. QED
      BY <1>1, <1>2, <2>1
  <1>3. AdminKey # TreasuryKey
    <2>1. AdminKey = TreasuryKey => four = {AdminKey, EvmUser, Zero}
      OBVIOUS
    <2> HIDE DEF four
    <2>2. QED
      BY <1>2, <2>1
  <1>4. AdminKey # EvmUser
    <2>1. AdminKey = EvmUser => four = {AdminKey, TreasuryKey, Zero}
      OBVIOUS
    <2> HIDE DEF four
    <2>2. QED
      BY <1>2, <2>1
  <1>5. TreasuryKey # EvmUser
    <2>1. TreasuryKey = EvmUser => four = {AdminKey, TreasuryKey, Zero}
      OBVIOUS
    <2> HIDE DEF four
    <2>2. QED
      BY <1>2, <2>1
  <1>6. QED
    BY <1>1, <1>3, <1>4, <1>5

\* The allocations are what they sum up to, and are natural numbers.
LEMMA AllocSum ==
  /\ \A a \in Addr : Alloc[a] \in Nat
  /\ Alloc[AdminKey] = AdminAlloc /\ Alloc[TreasuryKey] = TreasuryAlloc /\ Alloc[EvmUser] = EvmFund
  /\ \A a \in Addr \ {AdminKey, TreasuryKey, EvmUser} : Alloc[a] = 0
  /\ SumOver(Alloc, Addr) = GenesisTotal
  <1> DEFINE z == [a \in Addr |-> 0]
             x == [z EXCEPT ![AdminKey] = AdminAlloc]
             y == [x EXCEPT ![TreasuryKey] = TreasuryAlloc]
  <1>1. /\ AdminKey \in Addr /\ TreasuryKey \in Addr /\ EvmUser \in Addr
        /\ AdminKey # TreasuryKey /\ AdminKey # EvmUser /\ TreasuryKey # EvmUser
    BY Accounts
  <1>2. AdminAlloc \in Nat /\ TreasuryAlloc \in Nat /\ EvmFund \in Nat
    BY Bounds
  <1>3. /\ \A a \in Addr : Alloc[a] \in Nat
        /\ Alloc[AdminKey] = AdminAlloc /\ Alloc[TreasuryKey] = TreasuryAlloc /\ Alloc[EvmUser] = EvmFund
        /\ \A a \in Addr \ {AdminKey, TreasuryKey, EvmUser} : Alloc[a] = 0
    BY <1>1, <1>2 DEF Alloc
  <1>4. /\ \A a \in Addr : z[a] = 0
        /\ \A a \in Addr : a # AdminKey => x[a] = z[a]
        /\ x[AdminKey] = AdminAlloc
        /\ \A a \in Addr : a # TreasuryKey => y[a] = x[a]
        /\ y[TreasuryKey] = TreasuryAlloc
        /\ \A a \in Addr : a # EvmUser => Alloc[a] = y[a]
    BY <1>1 DEF Alloc
  <1> HIDE DEF z, x, y
  <1>5. \A a \in Addr : z[a] \in Int /\ x[a] \in Int /\ y[a] \in Int /\ Alloc[a] \in Int
    BY <1>1, <1>2, <1>3, <1>4
  <1>6. SumOver(z, Addr) = 0
    BY <1>4, Accounts, SumOfZeros
  <1>7. SumOver(x, Addr) = SumOver(z, Addr) + (x[AdminKey] - z[AdminKey])
    BY <1>1, <1>4, <1>5, Accounts, SumUpdate
  <1>8. SumOver(y, Addr) = SumOver(x, Addr) + (y[TreasuryKey] - x[TreasuryKey])
    BY <1>1, <1>4, <1>5, Accounts, SumUpdate
  <1>9. SumOver(Alloc, Addr) = SumOver(y, Addr) + (Alloc[EvmUser] - y[EvmUser])
    BY <1>1, <1>4, <1>5, Accounts, SumUpdate
  <1>10. x[AdminKey] - z[AdminKey] = AdminAlloc /\ y[TreasuryKey] - x[TreasuryKey] = TreasuryAlloc
         /\ Alloc[EvmUser] - y[EvmUser] = EvmFund
    BY <1>1, <1>2, <1>3, <1>4
  <1>11. QED
    BY <1>2, <1>3, <1>6, <1>7, <1>8, <1>9, <1>10 DEF GenesisTotal

\* A genesis that has no balance left to write has given every allocation.
LEMMA AllGiven ==
  ASSUME TypeOK, \A a \in Addr : db[a] \in {0, Alloc[a]}, GenesisFunds,
         ~Left("fundAdmin"), ~Left("fundTreasury"), ~Left("fundEvm")
  PROVE  Total = GenesisTotal
  <1>1. \A a \in Addr : db[a] = Alloc[a]
    BY Accounts, AllocSum DEF GenesisFunds
  <1>2. db = Alloc
    BY <1>1 DEF TypeOK, Alloc
  <1>3. QED
    BY <1>2, AllocSum DEF Total

\* Moving funds from one account to another keeps the sum.
LEMMA TransferKeepsTotal ==
  ASSUME TypeOK, Transfer
  PROVE  Total' = Total
  <1>1. PICK from \in Addr, to \in Addr :
           /\ from # to /\ db[from] > 0
           /\ db' = [db EXCEPT ![from] = @ - 1, ![to] = @ + 1]
    BY DEF Transfer
  <1> DEFINE mid == [db EXCEPT ![from] = @ - 1]
  <1>2. /\ \A a \in Addr : db[a] \in Int /\ mid[a] \in Int /\ db'[a] \in Int
        /\ \A a \in Addr : a # from => mid[a] = db[a]
        /\ \A a \in Addr : a # to => db'[a] = mid[a]
        /\ mid[from] - db[from] = -1 /\ db'[to] - mid[to] = 1
    BY <1>1 DEF TypeOK
  <1> HIDE DEF mid
  <1>3. SumOver(mid, Addr) = SumOver(db, Addr) + (mid[from] - db[from])
    BY <1>2, Accounts, SumUpdate
  <1>4. SumOver(db', Addr) = SumOver(mid, Addr) + (db'[to] - mid[to])
    BY <1>2, Accounts, SumUpdate
  <1>5. SumOver(db, Addr) \in Int
    BY <1>2, Accounts, SumIsInt
  <1>6. QED
    BY <1>2, <1>3, <1>4, <1>5 DEF Total

-----------------------------------------------------------------------------
(* Every step keeps FundInv *)

LEMMA InitFunds == Init => FundInv
  BY DEF Init, FundInv

\* The writes a genesis begins with.
LEMMA GenesisGives ==
  /\ GenesisWrites # <<>> /\ GenesisWrites[Len(GenesisWrites)] = "head"
  /\ \A w \in {"fundAdmin", "fundTreasury", "fundEvm"} :
        \E i \in 1..Len(GenesisWrites) : GenesisWrites[i] = w
  <1>1. CASE GenesisWrites = <<"fundAdmin", "fundTreasury", "fundEvm", "block", "head">>
    <2>1. /\ Len(GenesisWrites) = 5
          /\ GenesisWrites[1] = "fundAdmin" /\ GenesisWrites[2] = "fundTreasury"
          /\ GenesisWrites[3] = "fundEvm"
      BY <1>1
    <2>2. 1 \in 1..5 /\ 2 \in 1..5 /\ 3 \in 1..5
      OBVIOUS
    <2>3. QED
      BY <2>1, <2>2, GenesisEnds
  <1>2. CASE GenesisWrites = <<"wallets", "fundAdmin", "fundTreasury", "fundEvm", "block", "head">>
    <2>1. /\ Len(GenesisWrites) = 6
          /\ GenesisWrites[2] = "fundAdmin" /\ GenesisWrites[3] = "fundTreasury"
          /\ GenesisWrites[4] = "fundEvm"
      BY <1>2
    <2>2. 2 \in 1..6 /\ 3 \in 1..6 /\ 4 \in 1..6
      OBVIOUS
    <2>3. QED
      BY <2>1, <2>2, GenesisEnds
  <1>3. QED
    BY <1>1, <1>2, ListTypes

\* A write of genesis before head.json that is done leaves head.json to write
\* and every other write that was left.
LEMMA WriteTaken ==
  ASSUME TypeOK, NEW w, Doing(w), w # "head", todo[Len(todo)] = "head", todo' = Tail(todo)
  PROVE  /\ todo' # <<>> /\ todo'[Len(todo')] = "head"
         /\ \A v : v # w /\ Left(v) => Left(v)'
  <1>1. /\ Len(todo) \in Nat \ {0} /\ todo[1] = w /\ 1 \in 1..Len(todo)
        /\ todo' \in Seq(WriteName) /\ Len(todo') = Len(todo) - 1
        /\ \A i \in 1..Len(todo') : i + 1 \in 1..Len(todo) /\ todo'[i] = todo[i + 1]
    BY DoingFirst
  <1>2. Len(todo) # 1
    BY <1>1
  <1>3. Len(todo') \in 1..Len(todo') /\ Len(todo') + 1 = Len(todo)
    BY <1>1, <1>2
  <1>4. todo' # <<>> /\ todo'[Len(todo')] = "head"
    BY <1>1, <1>3, EmptySeq
  <1>5. ASSUME NEW v, v # w, NEW i \in 1..Len(todo), todo[i] = v
        PROVE  \E j \in 1..Len(todo') : todo'[j] = v
    <2>1. i # 1
      BY <1>1, <1>5
    <2>2. i - 1 \in 1..Len(todo') /\ (i - 1) + 1 = i
      BY <1>1, <2>1
    <2>3. todo'[i - 1] = v
      BY <1>1, <1>5, <2>2
    <2>4. QED
      BY <2>2, <2>3
  <1>6. QED
    BY <1>4, <1>5 DEF Left

\* Without head.json: a write other than a balance is done or has failed.
LEMMA OtherTaken ==
  ASSUME TypeOK, FundInv, mode = "genesis", headFile = Absent, <<"genesis", "head">> \notin failed,
         NEW w \in {"wallets", "block"}, Doing(w), todo' = Tail(todo),
         UNCHANGED <<db, headFile, mode, admin, treasury>>
  PROVE  FundInv'
  <1>1. GenesisFunds /\ \A a \in Addr : db[a] \in {0, Alloc[a]}
    BY DEF FundInv
  <1>2. /\ todo' # <<>> /\ todo'[Len(todo')] = "head"
        /\ \A v : v # w /\ Left(v) => Left(v)'
    BY <1>1, WriteTaken DEF GenesisFunds
  <1>3. /\ Left("fundAdmin") => Left("fundAdmin")'
        /\ Left("fundTreasury") => Left("fundTreasury")'
        /\ Left("fundEvm") => Left("fundEvm")'
    BY <1>2
  <1>4. GenesisFunds'
    BY <1>1, <1>2, <1>3 DEF GenesisFunds
  <1>5. QED
    BY <1>1, <1>4 DEF FundInv, Alloc

\* A balance is written by a genesis only, before there is a head.json.
LEMMA GivingTime ==
  ASSUME TypeOK, ListInv, FundInv, <<"genesis", "head">> \notin failed,
         NEW w \in {"fundAdmin", "fundTreasury", "fundEvm"}, Doing(w)
  PROVE  mode = "genesis" /\ headFile = Absent /\ GenesisFunds /\ \A a \in Addr : db[a] \in {0, Alloc[a]}
  <1>1. Working /\ todo[1] = w /\ 1 \in 1..Len(todo)
    BY DoingFirst
  <1>2. mode = "genesis"
    BY <1>1 DEF ListInv, Working
  <1>3. headFile = Absent
    BY <1>1, <1>2 DEF FundInv
  <1>4. QED
    BY <1>2, <1>3 DEF FundInv

LEMMA FundKeeps ==
  ASSUME TypeOK, ListInv, FundInv, <<"genesis", "head">> \notin failed,
         FundAdmin \/ FundTreasury \/ FundEvmUser
  PROVE  FundInv'
  <1>1. /\ todo' = Tail(todo)
        /\ UNCHANGED <<headFile, mode, admin, treasury, failed>>
    BY DEF FundAdmin, FundTreasury, FundEvmUser, Fund, Done, InMemory
  <1>2. /\ AdminKey \in Addr /\ TreasuryKey \in Addr /\ EvmUser \in Addr
        /\ AdminKey # TreasuryKey /\ AdminKey # EvmUser /\ TreasuryKey # EvmUser
    BY Accounts
  <1>3. ASSUME NEW w \in {"fundAdmin", "fundTreasury", "fundEvm"}, Doing(w)
        PROVE  /\ mode = "genesis" /\ headFile = Absent /\ GenesisFunds
               /\ \A a \in Addr : db[a] \in {0, Alloc[a]}
               /\ todo' # <<>> /\ todo'[Len(todo')] = "head"
               /\ \A v : v # w /\ Left(v) => Left(v)'
    <2>1. /\ mode = "genesis" /\ headFile = Absent /\ GenesisFunds
          /\ \A a \in Addr : db[a] \in {0, Alloc[a]}
      BY <1>3, GivingTime
    <2>2. todo[Len(todo)] = "head" /\ w # "head"
      BY <2>1 DEF GenesisFunds
    <2>3. QED
      BY <1>1, <1>3, <2>1, <2>2, WriteTaken
  <1>4. CASE FundAdmin
    <2>1. Doing("fundAdmin") /\ db' = [db EXCEPT ![admin] = AdminAlloc]
      BY <1>4 DEF FundAdmin, Fund
    <2>2. /\ mode = "genesis" /\ headFile = Absent /\ GenesisFunds
          /\ \A a \in Addr : db[a] \in {0, Alloc[a]}
          /\ todo' # <<>> /\ todo'[Len(todo')] = "head"
          /\ Left("fundTreasury") => Left("fundTreasury")'
          /\ Left("fundEvm") => Left("fundEvm")'
      BY <1>3, <2>1
    <2>3. db'[AdminKey] = AdminAlloc /\ \A a \in Addr : a # AdminKey => db'[a] = db[a]
      BY <1>2, <2>1, <2>2 DEF GenesisFunds, TypeOK
    <2>4. GenesisFunds'
      BY <1>1, <1>2, <2>2, <2>3 DEF GenesisFunds
    <2>5. \A a \in Addr : db'[a] \in {0, Alloc[a]}
      BY <2>2, <2>3, AllocSum
    <2>6. QED
      BY <1>1, <2>2, <2>4, <2>5 DEF FundInv, Alloc
  <1>5. CASE FundTreasury
    <2>1. Doing("fundTreasury") /\ db' = [db EXCEPT ![treasury] = TreasuryAlloc]
      BY <1>5 DEF FundTreasury, Fund
    <2>2. /\ mode = "genesis" /\ headFile = Absent /\ GenesisFunds
          /\ \A a \in Addr : db[a] \in {0, Alloc[a]}
          /\ todo' # <<>> /\ todo'[Len(todo')] = "head"
          /\ Left("fundAdmin") => Left("fundAdmin")'
          /\ Left("fundEvm") => Left("fundEvm")'
      BY <1>3, <2>1
    <2>3. db'[TreasuryKey] = TreasuryAlloc /\ \A a \in Addr : a # TreasuryKey => db'[a] = db[a]
      BY <1>2, <2>1, <2>2 DEF GenesisFunds, TypeOK
    <2>4. GenesisFunds'
      BY <1>1, <1>2, <2>2, <2>3 DEF GenesisFunds
    <2>5. \A a \in Addr : db'[a] \in {0, Alloc[a]}
      BY <2>2, <2>3, AllocSum
    <2>6. QED
      BY <1>1, <2>2, <2>4, <2>5 DEF FundInv, Alloc
  <1>6. CASE FundEvmUser
    <2>1. Doing("fundEvm") /\ db' = [db EXCEPT ![EvmUser] = EvmFund]
      BY <1>6 DEF FundEvmUser, Fund
    <2>2. /\ mode = "genesis" /\ headFile = Absent /\ GenesisFunds
          /\ \A a \in Addr : db[a] \in {0, Alloc[a]}
          /\ todo' # <<>> /\ todo'[Len(todo')] = "head"
          /\ Left("fundAdmin") => Left("fundAdmin")'
          /\ Left("fundTreasury") => Left("fundTreasury")'
      BY <1>3, <2>1
    <2>3. db'[EvmUser] = EvmFund /\ \A a \in Addr : a # EvmUser => db'[a] = db[a]
      BY <1>2, <2>1, <2>2 DEF GenesisFunds, TypeOK
    <2>4. GenesisFunds'
      BY <1>1, <1>2, <2>2, <2>3 DEF GenesisFunds
    <2>5. \A a \in Addr : db'[a] \in {0, Alloc[a]}
      BY <2>2, <2>3, AllocSum
    <2>6. QED
      BY <1>1, <2>2, <2>4, <2>5 DEF FundInv, Alloc
  <1>7. QED
    BY <1>4, <1>5, <1>6

\* head.json is opened by a genesis that has given everything.
LEMMA TruncateKeeps ==
  ASSUME TypeOK, ListInv, FundInv, <<"genesis", "head">> \notin failed, TruncateFile
  PROVE  FundInv'
  <1>1. UNCHANGED <<db, todo, mode, admin, treasury, failed>>
    BY DEF TruncateFile, InMemory
  <1>2. CASE headFile' = headFile
    BY <1>1, <1>2 DEF FundInv, GenesisFunds, Left, Total, Alloc
  <1>3. CASE headFile' # headFile
    <2>1. Doing("head") /\ headFile' = Torn /\ Torn # Absent
      BY <1>3, NotAFile DEF TruncateFile
    <2>2. Len(todo) \in Nat \ {0} /\ todo[1] = "head" /\ 1 \in 1..Len(todo)
      BY <2>1, DoingFirst
    <2>3. CASE headFile # Absent
      BY <1>1, <2>1, <2>3 DEF FundInv, Total
    <2>4. CASE headFile = Absent
      <3>1. mode = "genesis"
        BY <2>1, <2>4 DEF FundInv, Doing
      <3>2. Len(todo) = 1
        BY <2>2, <3>1 DEF ListInv
      <3>3. \A i \in 1..Len(todo) : todo[i] = "head"
        BY <2>2, <3>2
      <3>4. ~Left("fundAdmin") /\ ~Left("fundTreasury") /\ ~Left("fundEvm")
        BY <3>3 DEF Left
      <3>5. Total = GenesisTotal
        BY <2>4, <3>1, <3>4, AllGiven DEF FundInv
      <3>6. QED
        BY <1>1, <2>1, <3>3, <3>5 DEF FundInv, Total
    <2>5. QED
      BY <2>3, <2>4
  <1>4. QED
    BY <1>2, <1>3

LEMMA FillKeeps ==
  ASSUME TypeOK, ListInv, FundInv, <<"genesis", "head">> \notin failed, FillFile
  PROVE  FundInv'
  <1>1. PICK f \in FileName : Doing(f)
    BY DEF FillFile, TypeOK, FileName
  <1>2. /\ UNCHANGED <<db, mode, admin, treasury, failed>> /\ todo' = Tail(todo)
        /\ headFile' = IF Doing("head") THEN head ELSE headFile
    BY DEF FillFile, InMemory, Done
  <1>3. /\ todo[1] = f /\ 1 \in 1..Len(todo) /\ Len(todo) \in Nat \ {0} /\ Len(todo') = Len(todo) - 1
        /\ \A i \in 1..Len(todo') : i + 1 \in 1..Len(todo) /\ todo'[i] = todo[i + 1]
    BY <1>1, <1>2, DoingFirst
  <1>4. head # Absent
    BY NotAFile DEF TypeOK
  <1>5. CASE headFile # Absent
    <2>1. headFile' # Absent /\ Total = GenesisTotal
      BY <1>2, <1>4, <1>5 DEF FundInv
    <2>2. mode = "genesis" => \A i \in 1..Len(todo') : todo'[i] = "head"
      BY <1>3, <1>5 DEF FundInv
    <2>3. QED
      BY <1>2, <2>1, <2>2 DEF FundInv, Total
  <1>6. CASE headFile = Absent /\ f # "head"
    <2>1. mode = "genesis"
      BY <1>1, <1>6 DEF FundInv, Doing
    <2>2. headFile' = headFile
      BY <1>1, <1>2, <1>6 DEF Doing
    <2>3. f \in {"wallets", "block"}
      BY <1>6 DEF FileName
    <2>4. QED
      BY <1>1, <1>2, <1>6, <2>1, <2>2, <2>3, OtherTaken
  <1>7. CASE headFile = Absent /\ f = "head"
    <2>1. mode = "genesis"
      BY <1>1, <1>7 DEF FundInv, Doing
    <2>2. Len(todo) = 1 /\ headFile' = head
      BY <1>1, <1>2, <1>3, <1>7, <2>1 DEF ListInv
    <2>3. \A i \in 1..Len(todo) : todo[i] = "head"
      BY <1>3, <1>7, <2>2
    <2>4. ~Left("fundAdmin") /\ ~Left("fundTreasury") /\ ~Left("fundEvm")
      BY <2>3 DEF Left
    <2>5. Total = GenesisTotal
      BY <1>7, <2>1, <2>4, AllGiven DEF FundInv
    <2>6. \A i \in 1..Len(todo') : todo'[i] = "head"
      BY <1>3, <2>2
    <2>7. QED
      BY <1>2, <1>4, <2>2, <2>5, <2>6 DEF FundInv, Total
  <1>8. QED
    BY <1>5, <1>6, <1>7

LEMMA FailKeeps ==
  ASSUME TypeOK, ListInv, FundInv, FailFile, <<"genesis", "head">> \notin failed'
  PROVE  FundInv'
  <1>1. PICK f \in FileName : Doing(f) /\ failed' = failed \cup {<<mode, f>>}
    BY DEF FailFile, FileName
  <1>2. <<"genesis", "head">> \notin failed /\ <<mode, f>> # <<"genesis", "head">>
    BY <1>1
  <1>3. /\ UNCHANGED <<db, headFile, mode, admin, treasury>>
        /\ todo' = IF mode = "running" THEN <<>> ELSE Tail(todo)
    BY DEF FailFile, disk
  <1>4. CASE mode # "genesis"
    BY <1>2, <1>3, <1>4 DEF FundInv, Total, Alloc
  <1>5. CASE mode = "genesis" /\ headFile = Absent
    <2>1. f \in {"wallets", "block"}
      BY <1>2, <1>5 DEF FileName
    <2>2. QED
      BY <1>1, <1>2, <1>3, <1>5, <2>1, OtherTaken
  <1>6. CASE mode = "genesis" /\ headFile # Absent
    <2>1. todo[1] = f /\ 1 \in 1..Len(todo)
      BY <1>1, DoingFirst
    <2>2. f = "head"
      BY <1>2, <1>6, <2>1 DEF FundInv
    <2>3. QED
      BY <1>2, <1>6, <2>2
  <1>7. QED
    BY <1>4, <1>5, <1>6

LEMMA StartKeeps ==
  ASSUME TypeOK, FundInv, <<"genesis", "head">> \notin failed, Start
  PROVE  FundInv'
  <1>1. UNCHANGED <<db, headFile, failed>>
    BY DEF Start, disk
  <1>2. CASE StartGenesis
    <2>1. headFile = Absent /\ \A a \in Addr : db[a] \in {0, Alloc[a]}
      BY <1>2 DEF StartGenesis, FundInv
    <2>2. CASE wallets = Torn
      BY <1>1, <1>2, <2>1, <2>2 DEF StartGenesis, FundInv, Alloc
    <2>3. CASE wallets # Torn
      <3>1. mode' = "genesis" /\ todo' = GenesisWrites /\ admin' = AdminKey /\ treasury' = TreasuryKey
        BY <1>2, <2>3, KeyFields DEF StartGenesis
      <3>2. Left("fundAdmin")' /\ Left("fundTreasury")' /\ Left("fundEvm")'
        BY <3>1, GenesisGives DEF Left
      <3>3. GenesisFunds'
        BY <3>1, <3>2, GenesisGives DEF GenesisFunds
      <3>4. QED
        BY <1>1, <2>1, <3>1, <3>3 DEF FundInv, Alloc
    <2>4. QED
      BY <2>2, <2>3
  <1>3. CASE StartLoaded \/ StartRefused
    <2>1. headFile # Absent /\ mode' \in {"loading", "failed"}
      BY <1>3, NotAFile DEF StartLoaded, StartRefused
    <2>2. QED
      BY <1>1, <2>1 DEF FundInv, Total
  <1>4. QED
    BY <1>2, <1>3 DEF Start

LEMMA StepFunds == TypeOK /\ ListInv /\ FundInv /\ [Next]_vars => FundInv'
  <1> SUFFICES ASSUME TypeOK, ListInv, FundInv, [Next]_vars, <<"genesis", "head">> \notin failed'
               PROVE  FundInv'
    BY DEF FundInv
  <1>0. <<"genesis", "head">> \notin failed
    BY DEF Next, Works, Start, Run, FundAdmin, FundTreasury, FundEvmUser, Fund, TruncateFile,
           FillFile, FailFile, Produce, Transfer, Crash, Rest, InMemory, vars
  <1>1. CASE Start
    BY <1>0, <1>1, StartKeeps
  <1>2. CASE Run
    <2>1. /\ mode \in {"genesis", "loading"} /\ todo = <<>> /\ mode' = "running"
          /\ UNCHANGED <<db, headFile>>
      BY <1>2 DEF Run, disk
    <2>2. headFile # Absent
      BY <1>0, <2>1 DEF FundInv, GenesisFunds
    <2>3. QED
      BY <1>0, <2>1, <2>2 DEF FundInv, Total
  <1>3. CASE FundAdmin \/ FundTreasury \/ FundEvmUser
    BY <1>0, <1>3, FundKeeps
  <1>4. CASE TruncateFile
    BY <1>0, <1>4, TruncateKeeps
  <1>5. CASE FillFile
    BY <1>0, <1>5, FillKeeps
  <1>6. CASE FailFile
    BY <1>6, FailKeeps
  <1>7. CASE Produce
    BY <1>0, <1>7 DEF Produce, disk, FundInv, Total
  <1>8. CASE Transfer
    <2>1. mode = "running" /\ mode' = mode /\ headFile' = headFile
      BY <1>8 DEF Transfer
    <2>2. Total' = Total
      BY <1>8, TransferKeepsTotal
    <2>3. QED
      BY <1>0, <2>1, <2>2 DEF FundInv
  <1>9. CASE Crash
    BY <1>0, <1>9 DEF Crash, disk, FundInv, Total, Alloc
  <1>10. CASE Rest \/ UNCHANGED vars
    <2>1. UNCHANGED <<db, headFile, mode, todo, admin, treasury>>
      BY <1>10 DEF Rest, vars, disk
    <2>2. QED
      BY <1>0, <2>1 DEF FundInv, GenesisFunds, Left, Total, Alloc
  <1>11. QED
    BY <1>1, <1>2, <1>3, <1>4, <1>5, <1>6, <1>7, <1>8, <1>9, <1>10 DEF Next, Works

\* However often a genesis was cut short and done again, it has never given more
\* than its three allocations, and the node runs with exactly their sum, for
\* every set of accounts and every number of starts, failures and transfers,
\* unless the write of head.json failed in a genesis.
THEOREM GenesisFundsOnce == Spec => []FundedOnce
  <1>1. TypeOK /\ FundInv => FundedOnce
    <2> SUFFICES ASSUME TypeOK, FundInv, <<"genesis", "head">> \notin failed
                 PROVE  Total <= GenesisTotal /\ (mode = "running" => Total = GenesisTotal)
      BY DEF FundedOnce
    <2>1. CASE headFile # Absent
      <3>1. Total = GenesisTotal
        BY <2>1 DEF FundInv
      <3>2. GenesisTotal \in Nat
        BY Bounds DEF GenesisTotal
      <3>3. QED
        BY <3>1, <3>2
    <2>2. CASE headFile = Absent
      <3>1. mode # "running" /\ \A a \in Addr : db[a] \in {0, Alloc[a]}
        BY <2>2 DEF FundInv
      <3>2. \A a \in Addr : db[a] \in Int /\ Alloc[a] \in Int /\ db[a] <= Alloc[a]
        BY <3>1, AllocSum
      <3>3. Total <= GenesisTotal
        BY <3>2, Accounts, AllocSum, SumMonotone DEF Total
      <3>4. QED
        BY <3>1, <3>3
    <2>3. QED
      BY <2>1, <2>2
  <1>2. QED
    BY <1>1, InitType, InitList, InitFunds, StepType, StepList, StepFunds, PTL DEF Spec
=============================================================================
