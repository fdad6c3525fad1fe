--------------------------- MODULE EventBusProofs ---------------------------
(* Theorems about EventBus for every number of requests, connections,      *)
(* events and every capacity of channels and sockets.                      *)
EXTENDS EventBus, SequenceTheorems, NaturalsInduction, WellFoundedInduction, TLAPS

-----------------------------------------------------------------------------
(* Sequences *)

\* Appending adds one last element.
LEMMA AppendElement ==
  ASSUME NEW S, NEW s \in Seq(S), NEW x \in S
  PROVE  /\ Append(s, x) \in Seq(S)
         /\ Len(Append(s, x)) = Len(s) + 1
         /\ DOMAIN Append(s, x) = 1..(Len(s) + 1)
         /\ \A i \in 1..Len(s) : Append(s, x)[i] = s[i]
         /\ Append(s, x)[Len(s) + 1] = x
  BY AppendProperties

\* The tail of a sequence is the sequence moved by one.
LEMMA TailElement ==
  ASSUME NEW S, NEW s \in Seq(S), s # <<>>
  PROVE  /\ Tail(s) \in Seq(S) /\ Len(Tail(s)) = Len(s) - 1
         /\ Head(s) \in S /\ Head(s) = s[1]
         /\ Len(s) \in Nat \ {0}
         /\ \A i \in 1..Len(Tail(s)) : Tail(s)[i] = s[i + 1]
  BY HeadTailProperties, LenProperties, EmptySeq

-----------------------------------------------------------------------------
(* Types *)

\* A topic's numbers are positive, and so is every number that is handed out.
LEMMA NumbersType ==
  ASSUME TypeOK, NEW t \in Topic
  PROVE  /\ Numbered[t] \in Nat /\ Later(t) \in Nat \ {0}
         /\ sent[t] \in Nat /\ sent[t] <= Later(t)
         /\ NextNumber(t) \in 1..Later(t)
         /\ sent[t] <= NextNumber(t)
         /\ sent[t] < NextNumber(t) \/ NextNumber(t) = Later(t)
         /\ chan[t] \in Seq(1..Later(t)) /\ Len(chan[t]) <= Capacity
  BY BoundsAssumption DEF TypeOK, Later, NextNumber

\* The event a handler has in hand while it waits.
LEMMA NoEventType == NoEvent \in Event
  BY BoundsAssumption DEF NoEvent, Event, Topic, Later

\* A numbered event goes to the end of a history of events.
LEMMA NoteType ==
  ASSUME NEW h \in Seq(Event), NEW e \in Event PROVE Note(h, e) \in Seq(Event)
  BY AppendElement DEF Note

LEMMA InitType == Init => TypeOK
  <1> SUFFICES ASSUME Init PROVE TypeOK
    OBVIOUS
  <1>1. \A t \in Topic : 0 <= Later(t) /\ <<>> \in Seq(1..Later(t)) /\ Len(<<>>) <= Capacity
    BY BoundsAssumption DEF Later
  <1>2. QED
    BY <1>1, NoEventType, BoundsAssumption DEF Init, TypeOK

LEMMA EmitType ==
  ASSUME TypeOK, NEW p \in Procs, Emit(p) PROVE TypeOK'
  <1> DEFINE t == rpc[p]
             n == NextNumber(t)
  <1>1. t \in Topic
    BY DEF TypeOK, Emit, EmittedTopic, Topic
  <1>2. /\ n \in 1..Later(t) /\ n \in Nat /\ Later(t) \in Nat
        /\ chan[t] \in Seq(1..Later(t)) /\ Len(chan[t]) <= Capacity
    BY <1>1, NumbersType
  <1>3. sent' = [sent EXCEPT ![t] = n]
    BY DEF Emit
  <1>4. \/ Len(chan[t]) < Capacity /\ chan' = [chan EXCEPT ![t] = Append(@, n)]
        \/ chan' = chan
    BY DEF Emit
  <1>5. /\ Append(chan[t], n) \in Seq(1..Later(t))
        /\ Append(chan[t], n) \in Seq(Nat)
        /\ Len(Append(chan[t], n)) = Len(chan[t]) + 1
        /\ Len(chan[t]) \in Nat
    <2> HIDE DEF t, n
    <2>1. chan[t] \in Seq(Nat)
      BY <1>1 DEF TypeOK
    <2> QED BY <1>2, <2>1, AppendElement, LenProperties
  <1>6. /\ sent' \in [Topic -> Nat] /\ chan' \in [Topic -> Seq(Nat)]
        /\ \A u \in Topic : /\ chan'[u] \in Seq(1..Later(u)) /\ Len(chan'[u]) <= Capacity
                            /\ sent'[u] <= Later(u)
    <2> HIDE DEF t, n
    <2>1. sent \in [Topic -> Nat] /\ chan \in [Topic -> Seq(Nat)] /\ Capacity \in Nat
      BY BoundsAssumption DEF TypeOK
    <2>2. sent' \in [Topic -> Nat] /\ chan' \in [Topic -> Seq(Nat)]
      BY <1>1, <1>2, <1>3, <1>4, <1>5, <2>1
    <2>3. ASSUME NEW u \in Topic
          PROVE  /\ chan'[u] \in Seq(1..Later(u)) /\ Len(chan'[u]) <= Capacity
                 /\ sent'[u] <= Later(u)
      <3>1. CASE u = t
        <4>1. sent'[u] = n /\ chan'[u] \in {chan[t], Append(chan[t], n)}
          BY <1>1, <1>3, <1>4, <2>1, <3>1
        <4>2. Len(chan'[u]) <= Capacity
          BY <1>1, <1>2, <1>4, <1>5, <2>1, <3>1
        <4>3. chan'[u] \in Seq(1..Later(t))
          BY <1>2, <1>5, <4>1
        <4>4. sent'[u] <= Later(t)
          BY <1>2, <4>1
        <4>5. QED
          BY <3>1, <4>2, <4>3, <4>4
      <3>2. CASE u # t
        <4>1. sent'[u] = sent[u] /\ chan'[u] = chan[u]
          BY <1>3, <1>4, <2>1, <3>2
        <4>2. QED
          BY <4>1 DEF TypeOK
      <3>3. QED
        BY <3>1, <3>2
    <2> QED BY <2>2, <2>3
  <1>7. rpc' \in [Procs -> EmittedTopic \cup {"idle"}]
    BY DEF Emit, TypeOK
  <1>8. QED
    BY <1>6, <1>7 DEF TypeOK, Emit, connVars, histVars

LEMMA TakeType ==
  ASSUME TypeOK, NEW c \in Clients, NEW t \in Topic, Take(c, t) PROVE TypeOK'
  <1> DEFINE e == [topic |-> t, n |-> Head(chan[t])]
  <1>1. /\ chan[t] \in Seq(1..Later(t)) /\ chan[t] \in Seq(Nat)
        /\ chan[t] # <<>> /\ Len(chan[t]) <= Capacity
    BY DEF Take, TypeOK
  <1>2. /\ Tail(chan[t]) \in Seq(1..Later(t)) /\ Tail(chan[t]) \in Seq(Nat)
        /\ Len(Tail(chan[t])) = Len(chan[t]) - 1 /\ Len(chan[t]) \in Nat
        /\ Head(chan[t]) \in 1..Later(t)
    BY <1>1, TailElement, LenProperties
  <1>3. e \in Event
    BY <1>2 DEF Event
  <1>4. Note(taken[c], e) \in Seq(Event)
    <2> HIDE DEF e
    <2> QED BY <1>3, NoteType DEF TypeOK
  <1>5. /\ hand' = [hand EXCEPT ![c] = e]
        /\ taken' = [taken EXCEPT ![c] = Note(@, e)]
        /\ chan' = [chan EXCEPT ![t] = Tail(@)]
        /\ place' = [place EXCEPT ![c] = "write"]
        /\ UNCHANGED <<sent, rpc, peer, done, socket, got>>
    BY DEF Take
  <1>6. /\ chan' \in [Topic -> Seq(Nat)]
        /\ \A u \in Topic : chan'[u] \in Seq(1..Later(u)) /\ Len(chan'[u]) <= Capacity
    <2>1. chan \in [Topic -> Seq(Nat)] /\ Capacity \in Nat
      BY BoundsAssumption DEF TypeOK
    <2>2. chan' \in [Topic -> Seq(Nat)]
      BY <1>2, <1>5, <2>1
    <2>3. ASSUME NEW u \in Topic
          PROVE  chan'[u] \in Seq(1..Later(u)) /\ Len(chan'[u]) <= Capacity
      <3>1. CASE u = t
        <4>1. chan'[u] = Tail(chan[t])
          BY <1>5, <2>1, <3>1
        <4>2. Len(Tail(chan[t])) <= Capacity
          BY <1>1, <1>2, <2>1
        <4>3. QED
          BY <1>2, <3>1, <4>1, <4>2
      <3>2. CASE u # t
        <4>1. chan'[u] = chan[u]
          BY <1>5, <2>1, <3>2
        <4>2. QED
          BY <4>1 DEF TypeOK
      <3>3. QED
        BY <3>1, <3>2
    <2>4. QED
      BY <2>2, <2>3
  <1>7. hand' \in [Clients -> Event] /\ taken' \in [Clients -> Seq(Event)]
    <2> HIDE DEF e
    <2> QED BY <1>3, <1>4, <1>5 DEF TypeOK
  <1>8. QED
    BY <1>5, <1>6, <1>7 DEF TypeOK

LEMMA ReadType ==
  ASSUME TypeOK, NEW c \in Clients, Read(c) PROVE TypeOK'
  <1>1. socket[c] \in Seq(Event) /\ socket[c] # <<>> /\ Len(socket[c]) <= Window
    BY DEF Read, TypeOK
  <1>2. /\ Tail(socket[c]) \in Seq(Event) /\ Head(socket[c]) \in Event
        /\ Len(Tail(socket[c])) = Len(socket[c]) - 1 /\ Len(socket[c]) \in Nat
    BY <1>1, TailElement, LenProperties
  <1>3. Note(got[c], Head(socket[c])) \in Seq(Event)
    BY <1>2, NoteType DEF TypeOK
  <1>4. got' \in [Clients -> Seq(Event)]
    BY <1>3 DEF Read, TypeOK
  <1>5. socket' \in [Clients -> Seq(Event)] /\ \A d \in Clients : Len(socket'[d]) <= Window
    BY <1>1, <1>2, BoundsAssumption DEF Read, TypeOK
  <1>6. QED
    BY <1>4, <1>5 DEF Read, TypeOK, busVars

LEMMA WriteType ==
  ASSUME TypeOK, NEW c \in Clients, Write(c) PROVE TypeOK'
  <1>1. hand[c] \in Event /\ socket[c] \in Seq(Event) /\ Len(socket[c]) <= Window
    BY DEF TypeOK
  <1>2. /\ Append(socket[c], hand[c]) \in Seq(Event)
        /\ Len(Append(socket[c], hand[c])) = Len(socket[c]) + 1 /\ Len(socket[c]) \in Nat
    BY <1>1, AppendElement, LenProperties
  <1>3. socket' \in [Clients -> Seq(Event)] /\ \A d \in Clients : Len(socket'[d]) <= Window
    <2>1. \/ socket' = socket
          \/ Len(socket[c]) < Window /\ socket' = [socket EXCEPT ![c] = Append(@, hand[c])]
      BY DEF Write
    <2>2. /\ socket \in [Clients -> Seq(Event)] /\ Window \in Nat
          /\ \A d \in Clients : Len(socket[d]) <= Window
      BY BoundsAssumption DEF TypeOK
    <2>3. socket' \in [Clients -> Seq(Event)]
      BY <1>2, <2>1, <2>2
    <2>4. ASSUME NEW d \in Clients PROVE Len(socket'[d]) <= Window
      <3>1. \/ socket'[d] = socket[d]
            \/ Len(socket[c]) < Window /\ socket'[d] = Append(socket[c], hand[c])
        BY <2>1, <2>2
      <3>2. QED
        BY <1>2, <2>2, <3>1
    <2>5. QED
      BY <2>3, <2>4
  <1>4. hand' \in [Clients -> Event] /\ place' \in [Clients -> {"off", "select", "write", "closed"}]
    BY NoEventType DEF Write, TypeOK
  <1>5. QED
    BY <1>3, <1>4 DEF Write, TypeOK, busVars, histVars

\* Every step keeps the types.
LEMMA StepType == TypeOK /\ [Next]_vars => TypeOK'
  <1> SUFFICES ASSUME TypeOK, [Next]_vars PROVE TypeOK'
    OBVIOUS
  <1>1. ASSUME NEW p \in Procs, Handle(p) PROVE TypeOK'
    BY <1>1 DEF Handle, TypeOK, connVars, histVars
  <1>2. ASSUME NEW p \in Procs, Emit(p) PROVE TypeOK'
    BY <1>2, EmitType
  <1>3. ASSUME NEW c \in Clients, Connect(c) PROVE TypeOK'
    BY <1>3 DEF Connect, TypeOK, busVars, histVars
  <1>4. ASSUME NEW c \in Clients, Stall(c) \/ Resume(c) PROVE TypeOK'
    BY <1>4 DEF Stall, Resume, TypeOK, busVars, histVars
  <1>5. ASSUME NEW c \in Clients, Disconnect(c) PROVE TypeOK'
    <2>1. <<>> \in Seq(Event) /\ Len(<<>>) <= Window
      BY BoundsAssumption
    <2>2. QED
      BY <1>5, <2>1 DEF Disconnect, TypeOK, busVars, histVars
  <1>6. ASSUME NEW c \in Clients, Read(c) PROVE TypeOK'
    BY <1>6, ReadType
  <1>7. ASSUME NEW c \in Clients, CloseDone(c) \/ Return(c) PROVE TypeOK'
    BY <1>7 DEF CloseDone, Return, TypeOK, busVars, histVars
  <1>8. ASSUME NEW c \in Clients, Write(c) PROVE TypeOK'
    BY <1>8, WriteType
  <1>9. ASSUME NEW c \in Clients, NEW t \in Topic, Take(c, t) PROVE TypeOK'
    BY <1>9, TakeType
  <1>10. CASE UNCHANGED vars
    BY <1>10 DEF TypeOK, vars, busVars, connVars, histVars
  <1>11. QED
    BY <1>1, <1>2, <1>3, <1>4, <1>5, <1>6, <1>7, <1>8, <1>9, <1>10 DEF Next

\* Channels and sockets stay within their buffers, for every number of
\* requests, connections and events.
THEOREM TypeCorrect == Spec => []TypeOK
  BY InitType, StepType, PTL DEF Spec

-----------------------------------------------------------------------------
(* The feed *)

\* A channel holds the numbers of its topic in the order of emission; only the
\* events that are not told apart may come more than once.
InOrder ==
    \A t \in Topic :
        /\ \A i \in 1..Len(chan[t]) : chan[t][i] <= sent[t]
        /\ \A i, j \in 1..Len(chan[t]) :
              i < j => chan[t][i] < chan[t][j] \/ chan[t][i] = Later(t)

\* What was taken is older than everything in the channel.
TakenIsOlder ==
    \A c \in Clients : \A k \in 1..Len(taken[c]) :
        LET e == taken[c][k] IN
        /\ IsNumbered(e) /\ e.n <= sent[e.topic]
        /\ \A i \in 1..Len(chan[e.topic]) : e.n < chan[e.topic][i]

FeedInv == TypeOK /\ InOrder /\ TakenIsOlder

LEMMA InitFeed == Init => FeedInv
  <1> SUFFICES ASSUME Init PROVE FeedInv
    OBVIOUS
  <1>1. /\ \A t \in Topic : chan[t] = <<>>
        /\ \A c \in Clients : taken[c] = <<>>
    BY DEF Init
  <1>2. QED
    BY <1>1, InitType DEF FeedInv, InOrder, TakenIsOlder

\* An emission: the new number is above everything in the channel and above
\* everything taken, unless it is the one all later events share.
LEMMA EmitFeed ==
  ASSUME FeedInv, NEW p \in Procs, Emit(p)
  PROVE  InOrder' /\ TakenIsOlder' /\ Feed!Offer(rpc[p])
  <1> DEFINE t == rpc[p]
             n == NextNumber(t)
  <1>1. t \in Topic
    BY DEF FeedInv, TypeOK, Emit, EmittedTopic, Topic
  <1>2. /\ Numbered[t] \in Nat /\ Later(t) \in Nat /\ sent[t] \in Nat /\ n \in Nat
        /\ sent[t] <= Later(t) /\ sent[t] <= n /\ n <= Later(t)
        /\ sent[t] < n \/ n = Later(t)
        /\ chan[t] \in Seq(1..Later(t)) /\ chan[t] \in Seq(Nat)
    BY <1>1, NumbersType DEF FeedInv, TypeOK
  <1>3. /\ sent' = [sent EXCEPT ![t] = n] /\ UNCHANGED taken
        /\ chan' = chan \/ chan' = [chan EXCEPT ![t] = Append(@, n)]
    BY DEF Emit, histVars
  <1> HIDE DEF t, n
  <1>4. /\ sent'[t] = n /\ \A u \in Topic : u # t => sent'[u] = sent[u] /\ chan'[u] = chan[u]
        /\ chan'[t] \in {chan[t], Append(chan[t], n)}
    BY <1>1, <1>3 DEF FeedInv, TypeOK
  <1>5. /\ Len(chan[t]) \in Nat
        /\ Len(Append(chan[t], n)) = Len(chan[t]) + 1
        /\ \A i \in 1..Len(chan[t]) : Append(chan[t], n)[i] = chan[t][i] /\ chan[t][i] \in 1..Later(t)
        /\ Append(chan[t], n)[Len(chan[t]) + 1] = n
    BY <1>2, AppendElement, LenProperties, ElementOfSeq
  <1>6. InOrder'
    <2> SUFFICES ASSUME NEW u \in Topic
                 PROVE  /\ \A i \in 1..Len(chan'[u]) : chan'[u][i] <= sent'[u]
                        /\ \A i, j \in 1..Len(chan'[u]) :
                              i < j => chan'[u][i] < chan'[u][j] \/ chan'[u][i] = Later(u)
      BY DEF InOrder, Later
    <2>1. CASE u # t
      BY <1>4, <2>1 DEF FeedInv, InOrder
    <2>2. CASE u = t
      <3>1. /\ \A i \in 1..Len(chan[t]) : chan[t][i] <= sent[t]
            /\ \A i, j \in 1..Len(chan[t]) :
                  i < j => chan[t][i] < chan[t][j] \/ chan[t][i] = Later(t)
        BY <1>1 DEF FeedInv, InOrder
      <3>2. CASE chan'[t] = chan[t]
        BY <1>2, <1>4, <1>5, <2>2, <3>1, <3>2
      <3>3. CASE chan'[t] = Append(chan[t], n)
        <4>1. \A i \in 1..Len(chan'[t]) : i \in 1..Len(chan[t]) \/ i = Len(chan[t]) + 1
          BY <1>5, <3>3
        <4>2. \A i \in 1..Len(chan'[t]) : chan'[t][i] <= sent'[t]
          BY <1>2, <1>4, <1>5, <3>1, <3>3, <4>1
        <4>3. ASSUME NEW i \in 1..Len(chan'[t]), NEW j \in 1..Len(chan'[t]), i < j
              PROVE  chan'[t][i] < chan'[t][j] \/ chan'[t][i] = Later(t)
          <5>1. i \in 1..Len(chan[t]) /\ (j \in 1..Len(chan[t]) \/ j = Len(chan[t]) + 1)
            BY <1>5, <3>3, <4>1, <4>3
          <5>2. chan'[t][i] = chan[t][i] /\ chan[t][i] <= sent[t] /\ chan[t][i] \in 1..Later(t)
            BY <1>5, <3>1, <3>3, <5>1
          <5>3. CASE j \in 1..Len(chan[t])
            BY <1>5, <3>1, <3>3, <4>3, <5>1, <5>3
          <5>4. CASE j = Len(chan[t]) + 1
            <6>1. chan'[t][j] = n
              BY <1>5, <3>3, <5>4
            <6>2. QED
              BY <1>2, <5>2, <6>1
          <5>5. QED
            BY <5>1, <5>3, <5>4
        <4>4. QED
          BY <2>2, <4>2, <4>3
      <3>4. QED
        BY <1>4, <3>2, <3>3
    <2>3. QED
      BY <2>1, <2>2
  <1>7. TakenIsOlder'
    <2> SUFFICES ASSUME NEW c \in Clients, NEW k \in 1..Len(taken[c]), NEW e, e = taken[c][k]
                 PROVE  /\ IsNumbered(e) /\ e.n <= sent'[e.topic]
                        /\ \A i \in 1..Len(chan'[e.topic]) : e.n < chan'[e.topic][i]
      BY <1>3 DEF TakenIsOlder, IsNumbered
    <2>1. /\ IsNumbered(e) /\ e.n <= sent[e.topic]
          /\ \A i \in 1..Len(chan[e.topic]) : e.n < chan[e.topic][i]
      BY DEF FeedInv, TakenIsOlder
    <2>2. e \in Event
      BY ElementOfSeq DEF FeedInv, TypeOK
    <2>3. e.topic \in Topic /\ e.n \in Nat
      BY <2>2 DEF Event
    <2>4. CASE e.topic # t
      BY <1>4, <2>1, <2>3, <2>4
    <2>5. CASE e.topic = t
      <3>1. e.n <= Numbered[t] /\ e.n < Later(t)
        BY <1>2, <2>1, <2>3, <2>5 DEF IsNumbered, Later
      <3>2. e.n < n
        BY <1>2, <2>1, <2>3, <2>5, <3>1
      <3>3. \A i \in 1..Len(chan'[t]) : e.n < chan'[t][i]
        <4>1. CASE chan'[t] = chan[t]
          BY <2>1, <2>5, <4>1
        <4>2. CASE chan'[t] = Append(chan[t], n)
          <5>1. \A i \in 1..Len(chan'[t]) : \/ i \in 1..Len(chan[t]) /\ chan'[t][i] = chan[t][i]
                                            \/ chan'[t][i] = n
            BY <1>5, <4>2
          <5>2. QED
            BY <2>1, <2>5, <3>2, <5>1
        <4>3. QED
          BY <1>4, <4>1, <4>2
      <3>4. QED
        BY <1>2, <1>4, <2>1, <2>3, <2>5, <3>2, <3>3
    <2>6. QED
      BY <2>4, <2>5
  <1>8. Feed!Offer(rpc[p])
    <2>1. n = IF sent[t] <= Numbered[t] THEN sent[t] + 1 ELSE sent[t]
      BY <1>2 DEF n, NextNumber, Later
    <2>2. QED
      BY <1>3, <2>1 DEF Feed!Offer, t
  <1>9. QED
    BY <1>6, <1>7, <1>8

\* Receiving from a channel: what is taken is its oldest event.
LEMMA TakeFeed ==
  ASSUME FeedInv, NEW c \in Clients, NEW t \in Topic, Take(c, t)
  PROVE  /\ InOrder' /\ TakenIsOlder'
         /\ UNCHANGED <<sent, taken>> \/ \E e \in Feed!Event : Feed!Assign(c, e)
  <1> DEFINE x == Head(chan[t])
             e == [topic |-> t, n |-> x]
  <1>1. /\ chan[t] \in Seq(1..Later(t)) /\ chan[t] # <<>>
        /\ Numbered[t] \in Nat /\ Later(t) \in Nat /\ sent[t] \in Nat
    BY NumbersType DEF FeedInv, Take
  <1>2. /\ Len(Tail(chan[t])) = Len(chan[t]) - 1 /\ Len(chan[t]) \in Nat \ {0}
        /\ x = chan[t][1] /\ x \in 1..Later(t)
        /\ \A i \in 1..Len(Tail(chan[t])) : Tail(chan[t])[i] = chan[t][i + 1]
        /\ \A i \in 1..Len(chan[t]) : chan[t][i] \in 1..Later(t)
    BY <1>1, TailElement, ElementOfSeq
  <1>3. /\ \A i \in 1..Len(chan[t]) : chan[t][i] <= sent[t]
        /\ \A i, j \in 1..Len(chan[t]) :
              i < j => chan[t][i] < chan[t][j] \/ chan[t][i] = Later(t)
    BY DEF FeedInv, InOrder
  <1>4. /\ sent' = sent
        /\ chan' = [chan EXCEPT ![t] = Tail(@)]
        /\ taken' = [taken EXCEPT ![c] = Note(@, e)]
    BY DEF Take
  <1>5. /\ chan'[t] = Tail(chan[t])
        /\ \A u \in Topic : u # t => chan'[u] = chan[u]
    BY <1>4 DEF FeedInv, TypeOK
  <1>6. InOrder'
    <2> SUFFICES ASSUME NEW u \in Topic
                 PROVE  /\ \A i \in 1..Len(chan'[u]) : chan'[u][i] <= sent[u]
                        /\ \A i, j \in 1..Len(chan'[u]) :
                              i < j => chan'[u][i] < chan'[u][j] \/ chan'[u][i] = Later(u)
      BY <1>4 DEF InOrder, Later
    <2>1. CASE u # t
      BY <1>5, <2>1 DEF FeedInv, InOrder
    <2>2. CASE u = t
      <3>1. \A i \in 1..Len(chan'[t]) : /\ i + 1 \in 1..Len(chan[t])
                                        /\ chan'[t][i] = chan[t][i + 1]
        BY <1>2, <1>5
      <3>2. \A i \in 1..Len(chan'[t]) : chan'[t][i] <= sent[t]
        BY <1>3, <3>1
      <3>3. ASSUME NEW i \in 1..Len(chan'[t]), NEW j \in 1..Len(chan'[t]), i < j
            PROVE  chan'[t][i] < chan'[t][j] \/ chan'[t][i] = Later(t)
        <4>1. i + 1 < j + 1 /\ i + 1 \in 1..Len(chan[t]) /\ j + 1 \in 1..Len(chan[t])
          BY <1>2, <3>1, <3>3
        <4>2. QED
          BY <1>3, <3>1, <4>1
      <3>4. QED
        BY <2>2, <3>2, <3>3
    <2>3. QED
      BY <2>1, <2>2
  <1>7. \A d \in Clients : \A k \in 1..Len(taken[d]) :
           taken[d][k].topic = t => taken[d][k].n < x
    BY <1>2 DEF FeedInv, TakenIsOlder
  \* What was taken before is older than what is left in the channels.
  <1>8. ASSUME NEW d \in Clients, NEW k \in 1..Len(taken[d]), NEW o, o = taken[d][k]
        PROVE  /\ IsNumbered(o) /\ o.n <= sent[o.topic]
               /\ \A i \in 1..Len(chan'[o.topic]) : o.n < chan'[o.topic][i]
    <2>1. /\ IsNumbered(o) /\ o.n <= sent[o.topic]
          /\ \A i \in 1..Len(chan[o.topic]) : o.n < chan[o.topic][i]
      BY <1>8 DEF FeedInv, TakenIsOlder
    <2>2. o \in Event
      BY <1>8, ElementOfSeq DEF FeedInv, TypeOK
    <2>3. o.topic \in Topic
      BY <2>2 DEF Event
    <2>4. CASE o.topic # t
      BY <1>5, <2>1, <2>3, <2>4
    <2>5. CASE o.topic = t
      <3>1. \A i \in 1..Len(chan'[t]) : /\ i + 1 \in 1..Len(chan[t])
                                        /\ chan'[t][i] = chan[t][i + 1]
        BY <1>2, <1>5
      <3>2. QED
        BY <2>1, <2>5, <3>1
    <2>6. QED
      BY <2>4, <2>5
  <1>9. e \in Event /\ e.topic = t /\ e.n = x
    BY <1>2 DEF Event
  <1> HIDE DEF e, x
  <1>10. CASE ~IsNumbered(e)
    <2>1. taken' = taken
      BY <1>4, <1>10 DEF Note, FeedInv, TypeOK
    <2>2. TakenIsOlder'
      BY <1>4, <1>8, <2>1 DEF TakenIsOlder, IsNumbered
    <2>3. QED
      BY <1>4, <1>6, <2>1, <2>2
  <1>11. CASE IsNumbered(e)
    <2>1. taken' = [taken EXCEPT ![c] = Append(@, e)]
      BY <1>4, <1>11 DEF Note
    <2>2. taken[c] \in Seq(Event) /\ taken \in [Clients -> Seq(Event)]
      BY DEF FeedInv, TypeOK
    <2>3. /\ Len(taken[c]) \in Nat /\ Len(Append(taken[c], e)) = Len(taken[c]) + 1
          /\ \A k \in 1..Len(taken[c]) : Append(taken[c], e)[k] = taken[c][k]
          /\ Append(taken[c], e)[Len(taken[c]) + 1] = e
      BY <1>9, <2>2, AppendElement, LenProperties
    <2>4. /\ taken'[c] = Append(taken[c], e)
          /\ \A d \in Clients : d # c => taken'[d] = taken[d]
      BY <2>1, <2>2
    <2>5. x <= Numbered[t] /\ x < Later(t) /\ x <= sent[t]
      BY <1>1, <1>2, <1>3, <1>9, <1>11 DEF IsNumbered, Later
    <2>6. \A i \in 1..Len(chan'[t]) : x < chan'[t][i]
      <3>1. ASSUME NEW i \in 1..Len(chan'[t]) PROVE x < chan'[t][i]
        <4>1. i + 1 \in 1..Len(chan[t]) /\ 1 \in 1..Len(chan[t]) /\ 1 < i + 1
              /\ chan'[t][i] = chan[t][i + 1]
          BY <1>2, <1>5
        <4>2. QED
          BY <1>2, <1>3, <2>5, <4>1
      <3>2. QED
        BY <3>1
    <2>7. TakenIsOlder'
      <3> SUFFICES ASSUME NEW d \in Clients, NEW k \in 1..Len(taken'[d]), NEW o, o = taken'[d][k]
                   PROVE  /\ IsNumbered(o) /\ o.n <= sent[o.topic]
                          /\ \A i \in 1..Len(chan'[o.topic]) : o.n < chan'[o.topic][i]
        BY <1>4 DEF TakenIsOlder, IsNumbered
      <3>1. CASE k \in 1..Len(taken[d]) /\ o = taken[d][k]
        BY <1>8, <3>1
      <3>2. CASE o = e
        BY <1>9, <1>11, <2>5, <2>6, <3>2
      <3>3. QED
        BY <2>3, <2>4, <3>1, <3>2
    <2>8. e \in Feed!Event
      BY <1>2, <1>9, <2>5 DEF Feed!Event, Event, x
    <2>9. Feed!New(e)
      <3>1. \A d \in Clients : DOMAIN taken[d] = 1..Len(taken[d])
        BY LenProperties DEF FeedInv, TypeOK
      <3>2. QED
        BY <1>7, <1>9, <3>1 DEF Feed!New
    <2>10. Feed!Assign(c, e)
      BY <1>4, <1>9, <2>1, <2>5, <2>9 DEF Feed!Assign
    <2>11. QED
      BY <1>6, <2>7, <2>8, <2>10
  <1>12. QED
    BY <1>10, <1>11

\* A step that touches neither the channels nor what was taken is none of the
\* feed's; an emission offers an event and a receive assigns one or stutters.
LEMMA StepFeed == FeedInv /\ [Next]_vars => FeedInv' /\ [Feed!Next]_<<sent, taken>>
  <1> SUFFICES ASSUME FeedInv, [Next]_vars PROVE FeedInv' /\ [Feed!Next]_<<sent, taken>>
    OBVIOUS
  <1>1. TypeOK'
    BY StepType DEF FeedInv
  <1>2. CASE UNCHANGED <<chan, sent, taken>>
    BY <1>1, <1>2 DEF FeedInv, InOrder, TakenIsOlder, IsNumbered, Later
  <1>3. ASSUME NEW p \in Procs, Emit(p) PROVE FeedInv' /\ Feed!Next
    <2>1. rpc[p] \in Topic
      BY <1>3 DEF FeedInv, TypeOK, Emit, EmittedTopic, Topic
    <2>2. QED
      BY <1>1, <1>3, <2>1, EmitFeed DEF FeedInv, Feed!Next
  <1>4. ASSUME NEW c \in Clients, NEW t \in Topic, Take(c, t)
        PROVE  FeedInv' /\ [Feed!Next]_<<sent, taken>>
    <2>1. InOrder' /\ TakenIsOlder'
      BY <1>4, TakeFeed
    <2>2. UNCHANGED <<sent, taken>> \/ \E e \in Feed!Event : Feed!Assign(c, e)
      BY <1>4, TakeFeed
    <2>3. QED
      BY <1>1, <2>1, <2>2 DEF FeedInv, Feed!Next
  <1>5. CASE UNCHANGED vars
    BY <1>2, <1>5 DEF vars, busVars, histVars
  <1>6. ASSUME Next PROVE FeedInv' /\ [Feed!Next]_<<sent, taken>>
    <2>1. \/ UNCHANGED <<chan, sent, taken>>
          \/ \E p \in Procs : Emit(p)
          \/ \E c \in Clients, t \in Topic : Take(c, t)
      BY <1>6 DEF Next, Handle, Connect, Stall, Resume, Disconnect, Read, CloseDone, Write,
                  Return, busVars, histVars
    <2>2. QED
      BY <1>2, <1>3, <1>4, <2>1
  <1>7. QED
    BY <1>5, <1>6

\* The connections together implement one lossy feed: no event is handed to two
\* clients, and none after a later event of its topic, for every number of
\* requests, connections and events and however they are scheduled.
THEOREM ConnectionsAreOneFeed == Spec => EachEventOnceInOrder
  <1>1. Init => Feed!Init
    BY DEF Init, Feed!Init
  <1>2. QED
    BY <1>1, InitFeed, StepFeed, PTL DEF Spec, EachEventOnceInOrder, Feed!Spec

-----------------------------------------------------------------------------
(* OnlyNumbered *)

LEMMA SmallestNumber ==
  ASSUME NEW B \in SUBSET Nat, B # {}
  PROVE  \E n \in B : \A m \in B : n <= m
  <1>1. PICK n \in B : \A m \in B : <<m, n>> \notin OpToRel(<, Nat)
    BY NatLessThanWellFounded, WFMin, Zenon
  <1>2. \A m \in B : ~(m < n)
    BY <1>1 DEF OpToRel
  <1>3. QED
    BY <1>2

\* The function that OnlyNumbered defines by recursion, up to length k.
Filter(s, k, g) == g = [i \in 0..k |-> IF i = 0 THEN <<>> ELSE Note(g[i - 1], s[i])]

LEMMA FilterExists ==
  ASSUME NEW s, NEW k \in Nat
  PROVE  \E g : Filter(s, k, g)
  <1> DEFINE B == {n \in Nat : ~ \E g : Filter(s, n, g)}
  <1>1. ASSUME B # {} PROVE FALSE
    <2>1. PICK n \in B : \A m \in B : n <= m
      <3>1. B \in SUBSET Nat
        OBVIOUS
      <3> HIDE DEF B
      <3>2. QED
        BY <1>1, <3>1, SmallestNumber
    <2>2. n \in Nat /\ ~ \E g : Filter(s, n, g)
      BY <2>1
    <2>3. CASE n = 0
      <3> DEFINE g == [m \in 0..0 |-> <<>>]
      <3>1. Filter(s, 0, g)
        BY DEF Filter
      <3>2. QED
        BY <2>2, <2>3, <3>1
    <2>4. CASE n # 0
      <3>1. n - 1 \in Nat /\ n - 1 \notin B
        BY <2>1, <2>2, <2>4
      <3>2. PICK h : Filter(s, n - 1, h)
        BY <3>1
      <3> DEFINE g == [m \in 0..n |-> IF m < n THEN h[m] ELSE Note(h[n - 1], s[n])]
      <3>3. \A m \in 0..n : g[m] = IF m = 0 THEN <<>> ELSE Note(g[m - 1], s[m])
        <4>1. TAKE m \in 0..n
        <4>2. CASE m = 0
          BY <2>2, <2>4, <3>2, <4>2 DEF Filter
        <4>3. CASE m # 0 /\ m < n
          <5>1. m \in 0..(n - 1) /\ m - 1 \in 0..n /\ m - 1 < n /\ m - 1 # n
            BY <2>2, <4>3
          <5>2. g[m] = h[m] /\ g[m - 1] = h[m - 1]
            BY <4>3, <5>1
          <5>3. h[m] = Note(h[m - 1], s[m])
            BY <3>2, <4>3, <5>1 DEF Filter
          <5>4. QED
            BY <4>3, <5>2, <5>3
        <4>4. CASE m = n
          BY <2>2, <2>4, <4>4
        <4>5. QED
          BY <2>2, <4>2, <4>3, <4>4
      <3>4. g = [m \in 0..n |-> g[m]]
        OBVIOUS
      <3> HIDE DEF g
      <3>5. Filter(s, n, g)
        BY <3>3, <3>4 DEF Filter
      <3>6. QED
        BY <2>2, <3>5
    <2>5. QED
      BY <2>3, <2>4
  <1>2. QED
    BY <1>1

\* The recursion of a sequence of events, step by step.
LEMMA FilterSteps ==
  ASSUME NEW s \in Seq(Event)
  PROVE  \E g : /\ OnlyNumbered(s) = g[Len(s)] /\ g[0] = <<>>
                /\ \A i \in 1..Len(s) : g[i] = Note(g[i - 1], s[i])
                /\ \A i \in 0..Len(s) : g[i] \in Seq(Event)
  <1> DEFINE g == CHOOSE g : Filter(s, Len(s), g)
  <1>1. OnlyNumbered(s) = g[Len(s)]
    BY DEF OnlyNumbered, Filter
  <1>2. Filter(s, Len(s), g) /\ Len(s) \in Nat
    BY FilterExists, LenProperties
  <1> HIDE DEF g
  <1>3. g[0] = <<>> /\ \A i \in 1..Len(s) : g[i] = Note(g[i - 1], s[i])
    BY <1>2 DEF Filter
  <1> DEFINE B == {n \in 0..Len(s) : g[n] \notin Seq(Event)}
  <1>4. ASSUME B # {} PROVE FALSE
    <2>1. PICK n \in B : \A m \in B : n <= m
      <3>1. B \in SUBSET Nat
        BY <1>2
      <3> HIDE DEF B
      <3>2. QED
        BY <1>4, <3>1, SmallestNumber
    <2>2. n \in 0..Len(s) /\ g[n] \notin Seq(Event)
      BY <2>1
    <2>3. n # 0
      BY <1>3, <2>2, EmptySeq
    <2>4. n - 1 \in 0..Len(s) /\ n \in 1..Len(s) /\ g[n - 1] \in Seq(Event)
      BY <1>2, <2>1, <2>2, <2>3
    <2>5. s[n] \in Event /\ g[n] = Note(g[n - 1], s[n])
      BY <1>3, <2>4, ElementOfSeq
    <2>6. QED
      BY <2>2, <2>4, <2>5, NoteType
  <1>5. QED
    BY <1>1, <1>3, <1>4

LEMMA OnlyNumberedType ==
  ASSUME NEW s \in Seq(Event)
  PROVE  OnlyNumbered(s) \in Seq(Event)
  <1>1. Len(s) \in 0..Len(s)
    BY LenProperties
  <1>2. QED
    BY <1>1, FilterSteps

LEMMA OnlyNumberedEmpty == OnlyNumbered(<<>>) = <<>>
  BY FilterSteps, EmptySeq

\* An event at the end is noted last.
LEMMA OnlyNumberedAppend ==
  ASSUME NEW s \in Seq(Event), NEW e \in Event
  PROVE  OnlyNumbered(Append(s, e)) = Note(OnlyNumbered(s), e)
  <1> DEFINE u == Append(s, e)
             k == Len(s)
  <1>1. /\ u \in Seq(Event) /\ Len(u) = k + 1 /\ k \in Nat
        /\ \A i \in 1..k : u[i] = s[i]
        /\ u[k + 1] = e
    BY AppendElement, LenProperties
  <1> HIDE DEF u, k
  <1>2. PICK g : /\ OnlyNumbered(s) = g[k] /\ g[0] = <<>>
                 /\ \A i \in 1..k : g[i] = Note(g[i - 1], s[i])
    BY FilterSteps DEF k
  <1>3. PICK h : /\ OnlyNumbered(u) = h[k + 1] /\ h[0] = <<>>
                 /\ \A i \in 1..(k + 1) : h[i] = Note(h[i - 1], u[i])
    BY <1>1, FilterSteps
  <1> DEFINE B == {n \in 0..k : g[n] # h[n]}
  <1>4. ASSUME B # {} PROVE FALSE
    <2>1. PICK n \in B : \A m \in B : n <= m
      <3>1. B \in SUBSET Nat
        BY <1>1
      <3> HIDE DEF B
      <3>2. QED
        BY <1>4, <3>1, SmallestNumber
    <2>2. n \in 0..k /\ g[n] # h[n] /\ n # 0
      BY <1>2, <1>3, <2>1
    <2>3. n - 1 \in 0..k /\ n \in 1..k /\ n \in 1..(k + 1) /\ g[n - 1] = h[n - 1]
      BY <1>1, <2>1, <2>2
    <2>4. QED
      BY <1>1, <1>2, <1>3, <2>2, <2>3
  <1>5. k \in 0..k /\ k + 1 \in 1..(k + 1) /\ k + 1 - 1 = k
    BY <1>1
  <1>6. g[k] = h[k]
    BY <1>4, <1>5
  <1>7. h[k + 1] = Note(h[k], e)
    BY <1>1, <1>3, <1>5
  <1>8. QED
    BY <1>2, <1>3, <1>6, <1>7 DEF u

\* An event is noted the same at the end of a part and of the whole.
LEMMA NoteConcat ==
  ASSUME NEW a \in Seq(Event), NEW b \in Seq(Event), NEW e \in Event
  PROVE  a \o Note(b, e) = Note(a \o b, e)
  <1>1. a \o Append(b, e) = Append(a \o b, e)
    <2>1. <<e>> \in Seq(Event) /\ a \o b \in Seq(Event)
      BY ConcatProperties
    <2>2. Append(b, e) = b \o <<e>> /\ Append(a \o b, e) = (a \o b) \o <<e>>
      BY <2>1, AppendIsConcat
    <2>3. QED
      BY <2>1, <2>2, ConcatAssociative
  <1>2. QED
    BY <1>1 DEF Note

\* The first event moves to the end of what was read.
LEMMA OnlyNumberedHead ==
  ASSUME NEW a \in Seq(Event), NEW s \in Seq(Event), s # <<>>
  PROVE  a \o OnlyNumbered(s) = Note(a, Head(s)) \o OnlyNumbered(Tail(s))
  <1> DEFINE u == Tail(s)
             k == Len(u)
             x == Head(s)
  <1>1. /\ u \in Seq(Event) /\ x \in Event /\ x = s[1] /\ k \in Nat /\ Len(s) = k + 1
        /\ \A i \in 1..k : u[i] = s[i + 1]
    BY TailElement, LenProperties
  <1> HIDE DEF u, k, x
  <1>2. PICK g : /\ OnlyNumbered(u) = g[k] /\ g[0] = <<>>
                 /\ \A i \in 1..k : g[i] = Note(g[i - 1], u[i])
                 /\ \A i \in 0..k : g[i] \in Seq(Event)
    BY <1>1, FilterSteps DEF k
  <1>3. PICK h : /\ OnlyNumbered(s) = h[k + 1] /\ h[0] = <<>>
                 /\ \A i \in 1..(k + 1) : h[i] = Note(h[i - 1], s[i])
                 /\ \A i \in 0..(k + 1) : h[i] \in Seq(Event)
    BY <1>1, FilterSteps
  <1> DEFINE b == Note(a, x)
  <1>4. b \in Seq(Event) /\ b \o <<>> = b
    BY <1>1, NoteType, ConcatEmptySeq
  <1> HIDE DEF b
  <1>5. a \o h[1] = b \o g[0]
    <2>1. h[1] = Note(<<>>, x)
      BY <1>1, <1>3
    <2>2. a \o <<>> = a /\ <<>> \in Seq(Event)
      BY ConcatEmptySeq
    <2>3. a \o Note(<<>>, x) = Note(a \o <<>>, x)
      BY <1>1, <2>2, NoteConcat
    <2>4. QED
      BY <1>2, <1>4, <2>1, <2>2, <2>3 DEF b
  <1> DEFINE Left(n) == a \o h[n + 1]
             Right(n) == b \o g[n]
  <1>6. ASSUME NEW n \in 1..k, Left(n - 1) = Right(n - 1) PROVE Left(n) = Right(n)
    <2>1. /\ n - 1 \in 0..k /\ n + 1 \in 1..(k + 1) /\ n + 1 - 1 = n
          /\ n - 1 + 1 = n /\ n \in 0..(k + 1)
      BY <1>1
    <2>2. a \o h[n] = b \o g[n - 1]
      BY <1>6, <2>1, Zenon
    <2>3. h[n + 1] = Note(h[n], s[n + 1]) /\ h[n] \in Seq(Event)
      BY <1>3, <2>1
    <2>4. g[n] = Note(g[n - 1], s[n + 1]) /\ g[n - 1] \in Seq(Event)
      BY <1>1, <1>2, <2>1
    <2>5. s[n + 1] \in Event
      BY <1>1, <2>1, ElementOfSeq
    <2>6. a \o Note(h[n], s[n + 1]) = Note(a \o h[n], s[n + 1])
      BY <2>3, <2>5, NoteConcat
    <2>7. b \o Note(g[n - 1], s[n + 1]) = Note(b \o g[n - 1], s[n + 1])
      BY <1>4, <2>4, <2>5, NoteConcat
    <2>8. QED
      BY <2>2, <2>3, <2>4, <2>6, <2>7, Zenon
  <1>7. Left(0) = Right(0)
    BY <1>5
  <1> HIDE DEF Left, Right
  <1> DEFINE B == {n \in 0..k : Left(n) # Right(n)}
  <1>8. ASSUME B # {} PROVE FALSE
    <2>1. PICK n \in B : \A m \in B : n <= m
      <3>1. B \in SUBSET Nat
        BY <1>1
      <3> HIDE DEF B
      <3>2. QED
        BY <1>8, <3>1, SmallestNumber
    <2>2. n \in 0..k /\ Left(n) # Right(n) /\ n # 0
      BY <1>7, <2>1
    <2>3. n - 1 \in 0..k /\ n \in 1..k
      BY <1>1, <2>2
    <2>4. Left(n - 1) = Right(n - 1)
      BY <1>1, <2>1, <2>3
    <2>5. QED
      BY <1>6, <2>2, <2>3, <2>4
  <1>9. Left(k) = Right(k)
    BY <1>1, <1>8
  <1>10. QED
    BY <1>2, <1>3, <1>9 DEF b, u, x, Left, Right

-----------------------------------------------------------------------------
(* What a client reads *)

\* A beginning, element by element.
LEMMA PrefixElements ==
  ASSUME NEW s \in Seq(Event), NEW t \in Seq(Event)
  PROVE  IsPrefix(s, t) <=> /\ Len(s) <= Len(t)
                            /\ \A i \in 1..Len(s) : s[i] = t[i]
  <1>1. Len(s) \in Nat /\ Len(t) \in Nat
    BY LenProperties
  <1>2. CASE Len(s) > Len(t)
    BY <1>1, <1>2 DEF IsPrefix
  <1>3. CASE Len(s) <= Len(t)
    <2>1. SubSeq(s, 1, Len(s)) = s
      BY SubSeqFull
    <2>2. \A i \in 1..Len(s) : t[i] \in Event
      BY <1>1, <1>3, ElementOfSeq
    <2> DEFINE u == SubSeq(t, 1, Len(s))
    <2>3. /\ u \in Seq(Event)
          /\ Len(u) = IF 1 <= Len(s) THEN Len(s) - 1 + 1 ELSE 0
          /\ \A i \in 1..(Len(s) - 1 + 1) : u[i] = t[1 + i - 1]
      BY <1>1, <2>2, SubSeqProperties
    <2>4. Len(u) = Len(s) /\ \A i \in 1..Len(s) : u[i] = t[i]
      BY <1>1, <2>3
    <2> HIDE DEF u
    <2>5. s = u <=> \A i \in 1..Len(s) : s[i] = t[i]
      <3>1. ASSUME \A i \in 1..Len(s) : s[i] = t[i] PROVE s = u
        BY <2>3, <2>4, <3>1, SeqEqual
      <3>2. QED
        BY <2>4, <3>1
    <2>6. IsPrefix(s, t) <=> s = u
      BY <1>3, <2>1 DEF IsPrefix, u
    <2>7. QED
      BY <1>3, <2>5, <2>6
  <1>4. QED
    BY <1>1, <1>2, <1>3

LEMMA PrefixOfConcat ==
  ASSUME NEW s \in Seq(Event), NEW t \in Seq(Event)
  PROVE  IsPrefix(s, s \o t)
  <1>1. Len(s) \in Nat /\ Len(t) \in Nat
    BY LenProperties
  <1>2. /\ s \o t \in Seq(Event) /\ Len(s \o t) = Len(s) + Len(t)
        /\ \A i \in 1..Len(s) + Len(t) : (s \o t)[i] = IF i <= Len(s) THEN s[i] ELSE t[i - Len(s)]
    BY ConcatProperties
  <1>3. Len(s) <= Len(s \o t) /\ \A i \in 1..Len(s) : s[i] = (s \o t)[i]
    BY <1>1, <1>2
  <1>4. QED
    BY <1>2, <1>3, PrefixElements

LEMMA PrefixOfNote ==
  ASSUME NEW s \in Seq(Event), NEW t \in Seq(Event), NEW e \in Event, IsPrefix(s, t)
  PROVE  IsPrefix(s, Note(t, e))
  <1>1. Len(s) <= Len(t) /\ \A i \in 1..Len(s) : s[i] = t[i]
    BY PrefixElements
  <1>2. /\ Append(t, e) \in Seq(Event) /\ Len(Append(t, e)) = Len(t) + 1
        /\ \A i \in 1..Len(t) : Append(t, e)[i] = t[i]
        /\ Len(s) \in Nat /\ Len(t) \in Nat
    BY AppendElement, LenProperties
  <1>3. IsPrefix(s, Append(t, e))
    <2>1. Len(s) <= Len(Append(t, e)) /\ \A i \in 1..Len(s) : s[i] = Append(t, e)[i]
      BY <1>1, <1>2
    <2>2. QED
      BY <1>2, <2>1, PrefixElements
  <1>4. QED
    BY <1>3 DEF Note

LEMMA ConnectionType ==
  ASSUME TypeOK, NEW c \in Clients
  PROVE  /\ got[c] \in Seq(Event) /\ taken[c] \in Seq(Event) /\ socket[c] \in Seq(Event)
         /\ hand[c] \in Event /\ InTransit(c) \in Seq(Event)
         /\ OnlyNumbered(InTransit(c)) \in Seq(Event)
         /\ Pipeline(c) \in Seq(Event)
  <1>1. /\ got[c] \in Seq(Event) /\ taken[c] \in Seq(Event) /\ socket[c] \in Seq(Event)
        /\ hand[c] \in Event
    BY DEF TypeOK
  <1>2. InTransit(c) \in Seq(Event)
    BY <1>1, AppendElement DEF InTransit
  <1>3. QED
    BY <1>1, <1>2, OnlyNumberedType, ConcatProperties DEF Pipeline

\* A step that leaves a connection's history and messages alone leaves its
\* pipeline alone.
LEMMA SamePipeline ==
  ASSUME NEW c \in Clients, got'[c] = got[c], InTransit(c)' = InTransit(c)
  PROVE  Pipeline(c)' = Pipeline(c)
  BY DEF Pipeline

\* An event that the handler takes goes to the end of the pipeline.
LEMMA TakePipeline ==
  ASSUME TypeOK, NEW c \in Clients, NEW t \in Topic, Take(c, t),
         NEW e, e = [topic |-> t, n |-> Head(chan[t])]
  PROVE  /\ e \in Event
         /\ Pipeline(c)' = Note(Pipeline(c), e)
         /\ taken'[c] = Note(taken[c], e)
         /\ \A d \in Clients : d # c => Pipeline(d)' = Pipeline(d) /\ taken'[d] = taken[d]
  <1>1. e \in Event
    <2>1. chan[t] \in Seq(1..Later(t)) /\ chan[t] # <<>>
      BY DEF Take, TypeOK
    <2>2. Head(chan[t]) \in 1..Later(t) /\ Later(t) \in Nat
      BY <2>1, TailElement, NumbersType
    <2>3. QED
      BY <2>2 DEF Event
  <1>2. /\ hand' = [hand EXCEPT ![c] = e] /\ taken' = [taken EXCEPT ![c] = Note(@, e)]
        /\ place' = [place EXCEPT ![c] = "write"] /\ place[c] = "select"
        /\ UNCHANGED <<peer, socket, got>>
    BY DEF Take
  <1>3. /\ hand'[c] = e /\ taken'[c] = Note(taken[c], e) /\ place'[c] = "write"
        /\ \A d \in Clients : d # c => /\ hand'[d] = hand[d] /\ taken'[d] = taken[d]
                                       /\ place'[d] = place[d]
    BY <1>2 DEF TypeOK
  <1>4. InTransit(c) = socket[c] /\ InTransit(c)' = Append(socket[c], e)
    BY <1>2, <1>3 DEF InTransit
  <1>5. OnlyNumbered(InTransit(c)') = Note(OnlyNumbered(InTransit(c)), e)
    BY <1>1, <1>4, OnlyNumberedAppend, ConnectionType
  <1>6. Pipeline(c)' = got[c] \o OnlyNumbered(InTransit(c)')
    BY <1>2 DEF Pipeline
  <1>7. Pipeline(c)' = Note(Pipeline(c), e)
    <2> DEFINE k == OnlyNumbered(InTransit(c))
    <2>1. Pipeline(c) = got[c] \o k
      BY DEF Pipeline
    <2>2. Pipeline(c)' = got[c] \o Note(k, e)
      BY <1>5, <1>6
    <2>3. k \in Seq(Event) /\ got[c] \in Seq(Event)
      BY ConnectionType
    <2> HIDE DEF k
    <2>4. got[c] \o Note(k, e) = Note(got[c] \o k, e)
      BY <1>1, <2>3, NoteConcat
    <2>5. QED
      BY <2>1, <2>2, <2>4
  <1>8. ASSUME NEW d \in Clients, d # c PROVE Pipeline(d)' = Pipeline(d)
    <2>1. InTransit(d)' = InTransit(d)
      BY <1>2, <1>3, <1>8 DEF InTransit
    <2>2. QED
      BY <1>2, <2>1, SamePipeline
  <1>9. QED
    BY <1>1, <1>3, <1>7, <1>8

\* What the client reads moves from the front of the messages to its history.
LEMMA ReadPipeline ==
  ASSUME TypeOK, NEW c \in Clients, Read(c)
  PROVE  \A d \in Clients : Pipeline(d)' = Pipeline(d) /\ taken'[d] = taken[d]
  <1>1. /\ socket[c] # <<>> /\ got' = [got EXCEPT ![c] = Note(@, Head(socket[c]))]
        /\ socket' = [socket EXCEPT ![c] = Tail(@)]
        /\ UNCHANGED <<place, hand, taken>>
    BY DEF Read, busVars
  <1>2. /\ got'[c] = Note(got[c], Head(socket[c])) /\ socket'[c] = Tail(socket[c])
        /\ \A d \in Clients : d # c => got'[d] = got[d] /\ socket'[d] = socket[d]
    BY <1>1 DEF TypeOK
  <1>3. /\ InTransit(c) # <<>> /\ Head(InTransit(c)) = Head(socket[c])
        /\ Tail(InTransit(c)) = InTransit(c)'
    <2>1. socket[c] \in Seq(Event) /\ hand[c] \in Event
      BY ConnectionType
    <2>2. /\ Append(socket[c], hand[c]) # <<>>
          /\ Head(Append(socket[c], hand[c])) = Head(socket[c])
          /\ Tail(Append(socket[c], hand[c])) = Append(Tail(socket[c]), hand[c])
      BY <1>1, <2>1
    <2>3. QED
      BY <1>1, <1>2, <2>2 DEF InTransit
  <1>4. Pipeline(c)' = Pipeline(c)
    <2>1. /\ got[c] \o OnlyNumbered(InTransit(c))
               = Note(got[c], Head(InTransit(c))) \o OnlyNumbered(Tail(InTransit(c)))
      BY <1>3, ConnectionType, OnlyNumberedHead
    <2>2. QED
      BY <1>2, <1>3, <2>1 DEF Pipeline
  <1>5. ASSUME NEW d \in Clients, d # c PROVE Pipeline(d)' = Pipeline(d)
    <2>1. InTransit(d)' = InTransit(d)
      BY <1>1, <1>2, <1>5 DEF InTransit
    <2>2. QED
      BY <1>2, <1>5, <2>1, SamePipeline
  <1>6. QED
    BY <1>1, <1>4, <1>5

\* A write moves the event behind the others, or, when the client has left,
\* drops it.
LEMMA WritePipeline ==
  ASSUME TypeOK, NEW c \in Clients, Write(c)
  PROVE  /\ \A d \in Clients : d # c \/ peer[c] # "gone" => Pipeline(d)' = Pipeline(d)
         /\ peer[c] = "gone" => Pipeline(c) = Note(Pipeline(c)', hand[c])
         /\ UNCHANGED <<peer, taken>>
  <1>1. /\ place[c] = "write" /\ place' = [place EXCEPT ![c] = "select"]
        /\ hand' = [hand EXCEPT ![c] = NoEvent] /\ UNCHANGED <<peer, got, taken>>
        /\ IF peer[c] = "gone" THEN socket' = socket
                               ELSE socket' = [socket EXCEPT ![c] = Append(@, hand[c])]
    BY DEF Write, busVars, histVars
  <1>2. /\ place'[c] = "select"
        /\ socket'[c] = IF peer[c] = "gone" THEN socket[c] ELSE Append(socket[c], hand[c])
        /\ \A d \in Clients : d # c => /\ place'[d] = place[d] /\ hand'[d] = hand[d]
                                       /\ socket'[d] = socket[d]
    BY <1>1 DEF TypeOK
  <1>3. ASSUME peer[c] # "gone" PROVE Pipeline(c)' = Pipeline(c)
    <2>1. InTransit(c)' = InTransit(c)
      BY <1>1, <1>2, <1>3 DEF InTransit
    <2>2. QED
      BY <1>1, <2>1, SamePipeline
  <1>4. ASSUME peer[c] = "gone" PROVE Pipeline(c) = Note(Pipeline(c)', hand[c])
    <2>1. InTransit(c) = Append(socket[c], hand[c]) /\ InTransit(c)' = socket[c]
      BY <1>1, <1>2, <1>4 DEF InTransit
    <2>2. /\ OnlyNumbered(InTransit(c)) = Note(OnlyNumbered(socket[c]), hand[c])
          /\ OnlyNumbered(socket[c]) \in Seq(Event)
      BY <2>1, ConnectionType, OnlyNumberedAppend, OnlyNumberedType
    <2>3. Pipeline(c)' = got[c] \o OnlyNumbered(socket[c])
      BY <1>1, <2>1 DEF Pipeline
    <2>4. Pipeline(c) = got[c] \o Note(OnlyNumbered(socket[c]), hand[c])
      BY <2>2 DEF Pipeline
    <2>5. got[c] \in Seq(Event) /\ hand[c] \in Event
      BY ConnectionType
    <2>6. got[c] \o Note(OnlyNumbered(socket[c]), hand[c])
             = Note(got[c] \o OnlyNumbered(socket[c]), hand[c])
      BY <2>2, <2>5, NoteConcat
    <2>7. QED
      BY <2>3, <2>4, <2>6
  <1>5. ASSUME NEW d \in Clients, d # c PROVE Pipeline(d)' = Pipeline(d)
    <2>1. InTransit(d)' = InTransit(d)
      BY <1>2, <1>5 DEF InTransit
    <2>2. QED
      BY <1>1, <2>1, SamePipeline
  <1>6. QED
    BY <1>1, <1>3, <1>4, <1>5

LEMMA NoteElements ==
  ASSUME NEW s \in Seq(Event), NEW e \in Event
  PROVE  Elements(Note(s, e)) = IF IsNumbered(e) THEN Elements(s) \cup {e} ELSE Elements(s)
  <1>1. /\ Append(s, e) \in Seq(Event) /\ DOMAIN Append(s, e) = 1..(Len(s) + 1)
        /\ \A i \in 1..Len(s) : Append(s, e)[i] = s[i]
        /\ Append(s, e)[Len(s) + 1] = e
        /\ DOMAIN s = 1..Len(s) /\ Len(s) \in Nat
    BY AppendElement, LenProperties
  <1>2. Elements(Append(s, e)) = Elements(s) \cup {e}
    <2>1. \A i \in 1..(Len(s) + 1) : i \in 1..Len(s) \/ i = Len(s) + 1
      BY <1>1
    <2>2. \A i \in 1..Len(s) : i \in 1..(Len(s) + 1)
      BY <1>1
    <2>3. Len(s) + 1 \in 1..(Len(s) + 1)
      BY <1>1
    <2>4. ASSUME NEW x \in Elements(Append(s, e)) PROVE x \in Elements(s) \cup {e}
      BY <1>1, <2>1 DEF Elements
    <2>5. ASSUME NEW x \in Elements(s) PROVE x \in Elements(Append(s, e))
      BY <1>1, <2>2 DEF Elements
    <2>6. e \in Elements(Append(s, e))
      BY <1>1, <2>3 DEF Elements
    <2>7. QED
      BY <2>4, <2>5, <2>6
  <1>3. QED
    BY <1>2 DEF Note

\* A handler exists only once its client came, and what a client that left
\* would still have got is something its handler took.
ReadInv ==
    /\ ClientReadsWhatIsTaken
    /\ \A c \in Clients :
          /\ peer[c] = "away" => place[c] = "off"
          /\ peer[c] = "gone" => Elements(Pipeline(c)) \subseteq Elements(taken[c])

LEMMA InitReads == Init => ReadInv
  <1> SUFFICES ASSUME Init, NEW c \in Clients
               PROVE  /\ peer[c] = "away" /\ place[c] = "off" /\ Pipeline(c) = taken[c]
    BY DEF ReadInv, ClientReadsWhatIsTaken
  <1>1. /\ peer[c] = "away" /\ place[c] = "off" /\ taken[c] = <<>> /\ got[c] = <<>>
        /\ InTransit(c) = <<>>
    BY DEF Init, InTransit
  <1>2. Pipeline(c) = <<>>
    BY <1>1, OnlyNumberedEmpty, ConcatEmptySeq, EmptySeq DEF Pipeline
  <1>3. QED
    BY <1>1, <1>2

\* A client that leaves loses what it has not read.
LEMMA DisconnectReads ==
  ASSUME TypeOK, ReadInv, NEW c \in Clients, Disconnect(c)
  PROVE  /\ \A d \in Clients : d # c => Pipeline(d)' = Pipeline(d) /\ peer'[d] = peer[d]
         /\ UNCHANGED <<place, taken>>
         /\ peer[c] # "gone" /\ peer'[c] = "gone"
         /\ Pipeline(c) = taken[c]
         /\ IsPrefix(got'[c], taken[c])
         /\ Elements(Pipeline(c)') \subseteq Elements(taken[c])
  <1>1. /\ peer[c] \in {"reading", "stalled"} /\ peer' = [peer EXCEPT ![c] = "gone"]
        /\ socket' = [socket EXCEPT ![c] = <<>>]
        /\ UNCHANGED <<place, hand, got, taken>>
    BY DEF Disconnect, busVars, histVars
  <1>2. /\ peer'[c] = "gone" /\ socket'[c] = <<>>
        /\ \A d \in Clients : d # c => peer'[d] = peer[d] /\ socket'[d] = socket[d]
    BY <1>1 DEF TypeOK
  <1>3. ASSUME NEW d \in Clients, d # c PROVE Pipeline(d)' = Pipeline(d)
    <2>1. InTransit(d)' = InTransit(d)
      BY <1>1, <1>2, <1>3 DEF InTransit
    <2>2. QED
      BY <1>1, <2>1, SamePipeline
  <1>4. Pipeline(c) = taken[c]
    BY <1>1 DEF ReadInv, ClientReadsWhatIsTaken
  <1>5. IsPrefix(got[c], taken[c])
    BY <1>4, ConnectionType, PrefixOfConcat DEF Pipeline
  <1>6. Elements(Pipeline(c)') \subseteq Elements(Pipeline(c))
    <2>1. /\ got[c] \in Seq(Event) /\ socket[c] \in Seq(Event) /\ hand[c] \in Event
      BY ConnectionType
    <2> DEFINE k == OnlyNumbered(socket[c])
               x == hand[c]
               full == got[c] \o k
    <2>2. k \in Seq(Event)
      BY <2>1, OnlyNumberedType
    <2>3. full \in Seq(Event)
      BY <2>1, <2>2, ConcatProperties
    <2> HIDE DEF k, full
    <2>4. Elements(got[c]) \subseteq Elements(full)
      <3>1. /\ DOMAIN got[c] = 1..Len(got[c]) /\ DOMAIN full = 1..Len(full)
            /\ Len(got[c]) \in Nat /\ Len(k) \in Nat
        BY <2>1, <2>2, <2>3, LenProperties
      <3>2. /\ Len(full) = Len(got[c]) + Len(k)
            /\ \A i \in 1..(Len(got[c]) + Len(k)) :
                  full[i] = IF i <= Len(got[c]) THEN got[c][i] ELSE k[i - Len(got[c])]
        BY <2>1, <2>2, ConcatProperties DEF full
      <3>3. \A i \in 1..Len(got[c]) : i \in 1..Len(full) /\ full[i] = got[c][i]
        BY <3>1, <3>2
      <3>4. QED
        BY <3>1, <3>3 DEF Elements
    <2>5. CASE place[c] = "write"
      <3>1. InTransit(c) = Append(socket[c], x) /\ InTransit(c)' = Append(<<>>, x)
        BY <1>1, <1>2, <2>5 DEF InTransit
      <3>2. OnlyNumbered(InTransit(c)) = Note(k, x)
        BY <2>1, <3>1, OnlyNumberedAppend DEF k
      <3>3. OnlyNumbered(InTransit(c)') = Note(<<>>, x)
        BY <2>1, <3>1, OnlyNumberedAppend, OnlyNumberedEmpty, EmptySeq
      <3>4. Pipeline(c) = Note(full, x)
        <4>1. Pipeline(c) = got[c] \o Note(k, x)
          BY <3>2 DEF Pipeline
        <4>2. got[c] \o Note(k, x) = Note(got[c] \o k, x)
          BY <2>1, <2>2, NoteConcat
        <4>3. QED
          BY <4>1, <4>2 DEF full
      <3>5. Pipeline(c)' = Note(got[c], x)
        <4>1. Pipeline(c)' = got[c] \o Note(<<>>, x)
          BY <1>1, <3>3 DEF Pipeline
        <4>2. got[c] \o Note(<<>>, x) = Note(got[c] \o <<>>, x)
          BY <2>1, NoteConcat, EmptySeq
        <4>3. got[c] \o <<>> = got[c]
          BY <2>1, ConcatEmptySeq
        <4>4. QED
          BY <4>1, <4>2, <4>3
      <3>6. Elements(Note(got[c], x)) \subseteq Elements(Note(full, x))
        BY <2>1, <2>3, <2>4, NoteElements
      <3>7. QED
        BY <3>4, <3>5, <3>6
    <2>6. CASE place[c] # "write"
      <3>1. InTransit(c) = socket[c] /\ InTransit(c)' = <<>>
        BY <1>1, <1>2, <2>6 DEF InTransit
      <3>2. Pipeline(c) = full
        BY <3>1 DEF Pipeline, full, k
      <3>3. Pipeline(c)' = got[c]
        <4>1. Pipeline(c)' = got[c] \o OnlyNumbered(<<>>)
          BY <1>1, <3>1 DEF Pipeline
        <4>2. QED
          BY <2>1, <4>1, OnlyNumberedEmpty, ConcatEmptySeq
      <3>4. QED
        BY <2>4, <3>2, <3>3
    <2>7. QED
      BY <2>5, <2>6
  <1>7. QED
    BY <1>1, <1>2, <1>3, <1>4, <1>5, <1>6

\* What the steps other than these three leave alone.
Quiet ==
    /\ \A c \in Clients : Pipeline(c)' = Pipeline(c)
    /\ UNCHANGED <<got, taken>>
    /\ \A c \in Clients : /\ peer'[c] = "gone" <=> peer[c] = "gone"
                          /\ peer'[c] = "away" => peer[c] = "away" /\ place'[c] = place[c]

LEMMA QuietSteps ==
  ASSUME TypeOK, ReadInv,
         \/ \E p \in Procs : Handle(p) \/ Emit(p)
         \/ \E c \in Clients : Connect(c) \/ Stall(c) \/ Resume(c) \/ CloseDone(c) \/ Return(c)
         \/ UNCHANGED vars
  PROVE  Quiet
  <1>1. ASSUME UNCHANGED <<peer, place, hand, socket, got, taken>> PROVE Quiet
    <2>1. \A c \in Clients : InTransit(c)' = InTransit(c)
      BY <1>1 DEF InTransit
    <2>2. \A c \in Clients : Pipeline(c)' = Pipeline(c)
      BY <1>1, <2>1, SamePipeline
    <2>3. QED
      BY <1>1, <2>2 DEF Quiet
  <1>2. ASSUME NEW c \in Clients, Connect(c) \/ Stall(c) \/ Resume(c) \/ CloseDone(c) \/ Return(c)
        PROVE  Quiet
    <2>1. UNCHANGED <<hand, socket, got, taken>>
      BY <1>2 DEF Connect, Stall, Resume, CloseDone, Return, histVars
    <2>2. \A d \in Clients : place'[d] = "write" <=> place[d] = "write"
      BY <1>2 DEF Connect, Stall, Resume, CloseDone, Return, ReadInv, TypeOK
    <2>3. \A d \in Clients : /\ peer'[d] = "gone" <=> peer[d] = "gone"
                             /\ peer'[d] = "away" => peer[d] = "away" /\ place'[d] = place[d]
      BY <1>2 DEF Connect, Stall, Resume, CloseDone, Return, ReadInv, TypeOK
    <2>4. \A d \in Clients : InTransit(d)' = InTransit(d)
      BY <2>1, <2>2 DEF InTransit
    <2>5. \A d \in Clients : Pipeline(d)' = Pipeline(d)
      BY <2>1, <2>4, SamePipeline
    <2>6. QED
      BY <2>1, <2>3, <2>5 DEF Quiet
  <1>3. ASSUME NEW p \in Procs, Handle(p) \/ Emit(p) PROVE Quiet
    BY <1>1, <1>3 DEF Handle, Emit, connVars, histVars
  <1>4. CASE UNCHANGED vars
    BY <1>1, <1>4 DEF vars, connVars, histVars
  <1>5. QED
    BY <1>2, <1>3, <1>4

\* The steps by what they do to what the clients read.
LEMMA StepKinds ==
  ASSUME TypeOK, ReadInv, [Next]_vars
  PROVE  \/ Quiet
         \/ \E c \in Clients : Disconnect(c) \/ Read(c) \/ Write(c)
         \/ \E c \in Clients, t \in Topic : Take(c, t)
  BY QuietSteps DEF Next

LEMMA StepReads == TypeOK /\ ReadInv /\ [Next]_vars => ReadInv'
  <1> SUFFICES ASSUME TypeOK, ReadInv, [Next]_vars, NEW d \in Clients
               PROVE  /\ IF peer'[d] = "gone" THEN IsPrefix(got'[d], taken'[d])
                                              ELSE Pipeline(d)' = taken'[d]
                      /\ peer'[d] = "away" => place'[d] = "off"
                      /\ peer'[d] = "gone" =>
                            Elements(Pipeline(d)') \subseteq Elements(taken'[d])
    BY DEF ReadInv, ClientReadsWhatIsTaken, Elements
  <1>1. /\ IF peer[d] = "gone" THEN IsPrefix(got[d], taken[d]) ELSE Pipeline(d) = taken[d]
        /\ peer[d] = "away" => place[d] = "off"
        /\ peer[d] = "gone" => Elements(Pipeline(d)) \subseteq Elements(taken[d])
    BY DEF ReadInv, ClientReadsWhatIsTaken
  <1>2. CASE Quiet
    BY <1>1, <1>2 DEF Quiet
  <1>3. CASE \E c \in Clients : Disconnect(c)
    <2>1. PICK c \in Clients : Disconnect(c)
      BY <1>3
    <2>2. UNCHANGED got
      BY <2>1 DEF Disconnect, histVars
    <2>3. QED
      BY <1>1, <2>1, <2>2, DisconnectReads
  <1>4. CASE \E c \in Clients : Read(c)
    <2>1. PICK c \in Clients : Read(c)
      BY <1>4
    <2>2. peer[c] = "reading" /\ UNCHANGED <<peer, place>> /\ (d # c => got'[d] = got[d])
      BY <2>1 DEF Read, TypeOK
    <2>3. Pipeline(d)' = Pipeline(d) /\ taken'[d] = taken[d]
      BY <2>1, ReadPipeline
    <2>4. QED
      BY <1>1, <2>2, <2>3
  <1>5. CASE \E c \in Clients : Write(c)
    <2>1. PICK c \in Clients : Write(c)
      BY <1>5
    <2>2. /\ d # c \/ peer[c] # "gone" => Pipeline(d)' = Pipeline(d)
          /\ peer[c] = "gone" => Pipeline(c) = Note(Pipeline(c)', hand[c])
          /\ UNCHANGED <<peer, taken>>
      BY <2>1, WritePipeline
    <2>3. UNCHANGED got /\ place[c] = "write" /\ (d # c => place'[d] = place[d])
      BY <2>1 DEF Write, histVars, TypeOK
    <2>4. CASE d # c \/ peer[c] # "gone"
      BY <1>1, <2>2, <2>3, <2>4
    <2>5. CASE d = c /\ peer[c] = "gone"
      <3>1. Pipeline(c)' \in Seq(Event)
        <4>1. TypeOK'
          BY StepType
        <4>2. got'[c] \in Seq(Event) /\ InTransit(c)' \in Seq(Event)
          BY <4>1, AppendElement DEF TypeOK, InTransit
        <4>3. QED
          BY <4>2, OnlyNumberedType, ConcatProperties DEF Pipeline
      <3>2. hand[c] \in Event
        BY ConnectionType
      <3> DEFINE q == Pipeline(c)'
      <3>3. Pipeline(c) = Note(q, hand[c]) /\ q \in Seq(Event)
        BY <2>2, <2>5, <3>1
      <3> HIDE DEF q
      <3>4. Elements(q) \subseteq Elements(Pipeline(c))
        BY <3>2, <3>3, NoteElements
      <3>5. QED
        BY <1>1, <2>2, <2>3, <2>5, <3>4 DEF q
    <2>6. QED
      BY <2>4, <2>5
  <1>6. CASE \E c \in Clients, t \in Topic : Take(c, t)
    <2>1. PICK c \in Clients, t \in Topic : Take(c, t)
      BY <1>6
    <2> DEFINE e == [topic |-> t, n |-> Head(chan[t])]
    <2>2. /\ e \in Event
          /\ Pipeline(c)' = Note(Pipeline(c), e)
          /\ taken'[c] = Note(taken[c], e)
          /\ d # c => Pipeline(d)' = Pipeline(d) /\ taken'[d] = taken[d]
      BY <2>1, TakePipeline
    <2> HIDE DEF e
    <2>3. /\ UNCHANGED <<peer, got>> /\ place[c] = "select" /\ (d # c => place'[d] = place[d])
      BY <2>1 DEF Take, TypeOK
    <2>4. CASE d # c
      BY <1>1, <2>2, <2>3, <2>4
    <2>5. CASE d = c
      <3>1. /\ got[c] \in Seq(Event) /\ taken[c] \in Seq(Event) /\ Pipeline(c) \in Seq(Event)
        BY ConnectionType
      <3>2. peer[c] # "away"
        BY <1>1, <2>3, <2>5
      <3>3. CASE peer[c] = "gone"
        <4>1. IsPrefix(got[c], Note(taken[c], e))
          BY <1>1, <2>2, <2>5, <3>1, <3>3, PrefixOfNote
        <4>2. Elements(Note(Pipeline(c), e)) \subseteq Elements(Note(taken[c], e))
          BY <1>1, <2>2, <2>5, <3>1, <3>3, NoteElements
        <4>3. QED
          BY <2>2, <2>3, <2>5, <3>3, <4>1, <4>2
      <3>4. CASE peer[c] # "gone"
        BY <1>1, <2>2, <2>3, <2>5, <3>2, <3>4
      <3>5. QED
        BY <3>3, <3>4
    <2>6. QED
      BY <2>4, <2>5
  <1>7. QED
    BY <1>2, <1>3, <1>4, <1>5, <1>6, StepKinds

\* A client that stays reads what its handler took, in that order and without a
\* gap, and one that left has read a beginning of it, for every number of
\* connections and events and every size of the socket: WriteJSON waits for the
\* socket and skips nothing.
THEOREM ReadsWhatIsTaken == Spec => []ClientReadsWhatIsTaken
  <1>1. ReadInv => ClientReadsWhatIsTaken
    BY DEF ReadInv
  <1>2. QED
    BY <1>1, InitType, StepType, InitReads, StepReads, PTL DEF Spec

\* A channel's numbers after one more and after the oldest.
LEMMA AppendNumbers ==
  ASSUME NEW s \in Seq(Nat), NEW n \in Nat
  PROVE  Elements(Append(s, n)) = Elements(s) \cup {n}
  <1>1. /\ DOMAIN Append(s, n) = 1..(Len(s) + 1)
        /\ \A i \in 1..Len(s) : Append(s, n)[i] = s[i]
        /\ Append(s, n)[Len(s) + 1] = n
        /\ DOMAIN s = 1..Len(s) /\ Len(s) \in Nat
    BY AppendElement, LenProperties
  <1>2. /\ \A i \in 1..(Len(s) + 1) : i \in 1..Len(s) \/ i = Len(s) + 1
        /\ \A i \in 1..Len(s) : i \in 1..(Len(s) + 1)
        /\ Len(s) + 1 \in 1..(Len(s) + 1)
    BY <1>1
  <1>3. ASSUME NEW x \in Elements(Append(s, n)) PROVE x \in Elements(s) \cup {n}
    BY <1>1, <1>2 DEF Elements
  <1>4. ASSUME NEW x \in Elements(s) PROVE x \in Elements(Append(s, n))
    BY <1>1, <1>2 DEF Elements
  <1>5. n \in Elements(Append(s, n))
    BY <1>1, <1>2 DEF Elements
  <1>6. QED
    BY <1>3, <1>4, <1>5

LEMMA TailNumbers ==
  ASSUME NEW s \in Seq(Nat), s # <<>>
  PROVE  Elements(s) \subseteq Elements(Tail(s)) \cup {Head(s)}
  <1>1. /\ Len(Tail(s)) = Len(s) - 1 /\ Head(s) = s[1] /\ Len(s) \in Nat \ {0}
        /\ \A i \in 1..Len(Tail(s)) : Tail(s)[i] = s[i + 1]
        /\ DOMAIN s = 1..Len(s) /\ DOMAIN Tail(s) = 1..Len(Tail(s))
    BY TailElement, LenProperties
  <1>2. ASSUME NEW i \in 1..Len(s), i # 1 PROVE s[i] \in Elements(Tail(s))
    <2>1. i - 1 \in 1..Len(Tail(s)) /\ i - 1 + 1 = i
      BY <1>1, <1>2
    <2>2. s[i] = Tail(s)[i - 1]
      BY <1>1, <2>1
    <2>3. QED
      BY <1>1, <2>1, <2>2 DEF Elements
  <1>3. QED
    BY <1>1, <1>2 DEF Elements

\* What may make event e go missing in a step.
Excused(e) ==
    \/ Len(chan[e.topic]) = Capacity
    \/ \E c \in Clients : peer'[c] = "gone" /\ e \in Elements(taken[c])

\* An emission loses an event only when the channel is full.
LEMMA EmitLoses ==
  ASSUME TypeOK, NEW p \in Procs, Emit(p),
         \A c \in Clients : Pipeline(c)' = Pipeline(c),
         NEW e \in Followed, Missing(e)', ~Missing(e)
  PROVE  Len(chan[e.topic]) = Capacity
  <1> DEFINE t == rpc[p]
             n == NextNumber(t)
  <1>1. /\ t \in Topic /\ e.topic \in Topic /\ e.n \in Nat
        /\ Numbered[e.topic] \in Nat /\ e.n <= Numbered[e.topic]
    BY BoundsAssumption DEF TypeOK, Emit, EmittedTopic, Topic, Followed
  <1>2. /\ sent[t] \in Nat /\ sent[t] <= Later(t) /\ Later(t) \in Nat /\ n \in Nat
        /\ sent[t] <= n /\ chan[t] \in Seq(Nat) /\ Len(chan[t]) <= Capacity
        /\ Len(chan[t]) \in Nat /\ Capacity \in Nat
    BY <1>1, NumbersType, LenProperties, BoundsAssumption DEF TypeOK
  <1>3. n = sent[t] + 1 \/ (n = sent[t] /\ sent[t] = Later(t))
    BY <1>1, <1>2, NumbersType DEF NextNumber
  <1>4. /\ sent' = [sent EXCEPT ![t] = n]
        /\ chan' = IF Len(chan[t]) < Capacity THEN [chan EXCEPT ![t] = Append(@, n)] ELSE chan
    BY DEF Emit
  <1> HIDE DEF t, n
  <1>5. /\ sent'[t] = n /\ \A u \in Topic : u # t => sent'[u] = sent[u] /\ chan'[u] = chan[u]
        /\ chan'[t] = IF Len(chan[t]) < Capacity THEN Append(chan[t], n) ELSE chan[t]
    BY <1>1, <1>4 DEF TypeOK
  <1>6. /\ e.n <= sent'[e.topic] /\ e.n \notin Elements(chan'[e.topic])
        /\ e.n > sent[e.topic] \/ e.n \in Elements(chan[e.topic])
    <2>1. /\ e.n <= sent'[e.topic] /\ e.n \notin Elements(chan'[e.topic])
          /\ \A c \in Clients : e \notin Elements(Pipeline(c)')
      BY DEF Missing, Elements
    <2>2. \A c \in Clients : e \notin Elements(Pipeline(c))
      BY <2>1
    <2>3. sent[e.topic] \in Nat
      BY <1>1 DEF TypeOK
    <2>4. QED
      BY <1>1, <2>1, <2>2, <2>3 DEF Missing
  <1>7. e.topic = t
    BY <1>1, <1>5, <1>6, <1>2 DEF TypeOK
  <1>8. e.n = n \/ e.n \in Elements(chan[t])
    BY <1>1, <1>2, <1>3, <1>5, <1>6, <1>7
  <1>9. CASE Len(chan[t]) < Capacity
    <2>1. Elements(chan'[t]) = Elements(chan[t]) \cup {n}
      BY <1>2, <1>5, <1>9, AppendNumbers
    <2>2. QED
      BY <1>6, <1>7, <1>8, <2>1
  <1>10. QED
    BY <1>2, <1>7, <1>9

\* What is taken from a channel is in the pipeline of the client it went to.
LEMMA TakeLosesNothing ==
  ASSUME TypeOK, NEW c \in Clients, NEW t \in Topic, Take(c, t),
         NEW e \in Followed, Missing(e)', ~Missing(e)
  PROVE  FALSE
  <1> DEFINE x == [topic |-> t, n |-> Head(chan[t])]
  <1>1. /\ x \in Event /\ Pipeline(c)' = Note(Pipeline(c), x)
        /\ \A d \in Clients : d # c => Pipeline(d)' = Pipeline(d)
    BY TakePipeline
  <1>2. x.topic = t /\ x.n = Head(chan[t])
    OBVIOUS
  <1> HIDE DEF x
  <1>3. /\ chan[t] # <<>> /\ chan' = [chan EXCEPT ![t] = Tail(@)] /\ UNCHANGED sent
    BY DEF Take
  <1>4. /\ chan'[t] = Tail(chan[t]) /\ \A u \in Topic : u # t => chan'[u] = chan[u]
        /\ chan[t] \in Seq(Nat)
    BY <1>3 DEF TypeOK
  <1>5. /\ e.topic \in Topic /\ e.n <= Numbered[e.topic] /\ e = [topic |-> e.topic, n |-> e.n]
    BY DEF Followed
  <1>6. Pipeline(c) \in Seq(Event)
    BY ConnectionType
  <1>7. /\ e.n <= sent[e.topic] /\ e.n \notin Elements(chan'[e.topic])
        /\ \A d \in Clients : e \notin Elements(Pipeline(d)')
    BY <1>3 DEF Missing, Elements
  <1>8. \A d \in Clients : e \notin Elements(Pipeline(d))
    <2>1. e \notin Elements(Pipeline(c))
      <3>1. e \notin Elements(Note(Pipeline(c), x))
        BY <1>1, <1>7
      <3>2. QED
        BY <1>1, <1>6, <3>1, NoteElements
    <2>2. QED
      BY <1>1, <1>7, <2>1
  <1>9. e.n \in Elements(chan[e.topic])
    BY <1>7, <1>8 DEF Missing
  <1>10. e.topic = t
    BY <1>4, <1>5, <1>7, <1>9
  <1>11. e.n = Head(chan[t])
    BY <1>3, <1>4, <1>7, <1>9, <1>10, TailNumbers
  <1>12. e = x
    BY <1>1, <1>2, <1>5, <1>10, <1>11 DEF Event
  <1>13. e \in Elements(Note(Pipeline(c), x))
    BY <1>1, <1>5, <1>6, <1>12, NoteElements DEF IsNumbered
  <1>14. QED
    BY <1>1, <1>7, <1>13

\* A step that changes neither the channels nor the numbers makes an event go
\* missing only by taking it out of a pipeline.
LEMMA PipelineLoses ==
  ASSUME NEW e, Missing(e)', ~Missing(e), UNCHANGED <<chan, sent>>
  PROVE  \E c \in Clients : e \in Elements(Pipeline(c)) /\ e \notin Elements(Pipeline(c)')
  BY DEF Missing, Elements

LEMMA StepLoses ==
  ASSUME TypeOK, ReadInv, [Next]_vars, NEW e \in Followed, Missing(e)', ~Missing(e)
  PROVE  Excused(e)
  <1>1. ASSUME UNCHANGED <<chan, sent>>, \A c \in Clients : Pipeline(c)' = Pipeline(c)
        PROVE  FALSE
    BY <1>1, PipelineLoses
  <1>2. CASE \E p \in Procs : Emit(p)
    <2>1. Quiet
      BY <1>2, QuietSteps
    <2>2. QED
      BY <1>2, <2>1, EmitLoses DEF Excused, Quiet
  <1>3. ASSUME Quiet, ~ \E p \in Procs : Emit(p) PROVE Excused(e)
    <2>1. CASE UNCHANGED <<chan, sent>>
      BY <1>1, <1>3, <2>1 DEF Quiet
    <2>2. CASE \E c \in Clients, t \in Topic : Take(c, t)
      BY <2>2, TakeLosesNothing
    <2>3. QED
      BY <1>3, <2>1, <2>2 DEF Next, Handle, Connect, Stall, Resume, Disconnect, Read, CloseDone,
                              Write, Return, vars, busVars
  <1>4. CASE \E c \in Clients : Disconnect(c)
    <2>1. PICK c \in Clients : Disconnect(c)
      BY <1>4
    <2>2. UNCHANGED <<chan, sent>>
      BY <2>1 DEF Disconnect, busVars
    <2>3. PICK d \in Clients : e \in Elements(Pipeline(d)) /\ e \notin Elements(Pipeline(d)')
      BY <2>2, PipelineLoses
    <2>4. d = c /\ Pipeline(c) = taken[c] /\ peer'[c] = "gone"
      BY <2>1, <2>3, DisconnectReads
    <2>5. QED
      BY <2>3, <2>4 DEF Excused
  <1>5. CASE \E c \in Clients : Read(c)
    <2>1. PICK c \in Clients : Read(c)
      BY <1>5
    <2>2. UNCHANGED <<chan, sent>>
      BY <2>1 DEF Read, busVars
    <2>3. QED
      BY <1>1, <2>1, <2>2, ReadPipeline
  <1>6. CASE \E c \in Clients : Write(c)
    <2>1. PICK c \in Clients : Write(c)
      BY <1>6
    <2>2. UNCHANGED <<chan, sent>>
      BY <2>1 DEF Write, busVars
    <2>3. PICK d \in Clients : e \in Elements(Pipeline(d)) /\ e \notin Elements(Pipeline(d)')
      BY <2>2, PipelineLoses
    <2>4. d = c /\ peer[c] = "gone" /\ UNCHANGED <<peer, taken>>
      BY <2>1, <2>3, WritePipeline
    <2>5. e \in Elements(taken[c])
      BY <2>3, <2>4 DEF ReadInv
    <2>6. QED
      BY <2>4, <2>5 DEF Excused
  <1>7. CASE \E c \in Clients, t \in Topic : Take(c, t)
    BY <1>7, TakeLosesNothing
  <1>8. QED
    BY <1>2, <1>3, <1>4, <1>5, <1>6, <1>7, StepKinds

\* An event goes missing only when its channel is full as it is emitted, or
\* with the client whose handler took it, for every number of connections and
\* events and every capacity: no other step of the bus loses one.
THEOREM NothingElseIsLost == Spec => LostForAReason
  <1>1. ASSUME TypeOK, ReadInv, [Next]_vars
        PROVE  [\A e \in Followed : Missing(e)' /\ ~Missing(e) =>
                   \/ Len(chan[e.topic]) = Capacity
                   \/ \E c \in Clients : peer'[c] = "gone" /\ e \in Elements(taken[c])]_vars
    BY <1>1, StepLoses DEF Excused
  <1>2. QED
    BY <1>1, InitType, StepType, InitReads, StepReads, PTL DEF Spec, LostForAReason
=============================================================================
