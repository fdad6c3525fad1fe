------------------------------ MODULE EventBus ------------------------------
(***************************************************************************)
(* The event bus (events/eventbus.go) between the RPC handlers that emit   *)
(* events and the WebSocket connections that push them (rpc/ws.go).        *)
(*                                                                         *)
(* The bus is three buffered channels.  A handler that succeeded emits     *)
(* before it answers and drops the event when the channel is full.  Every  *)
(* connection has two goroutines: a reader, which closes "done" when the   *)
(* client's side ends, and the handler, which waits on all three channels  *)
(* and on "done" and writes what it receives to the client.  Connections   *)
(* compete for the events.  A write has no deadline: it waits while the    *)
(* socket is full.  Events of a topic t are numbered in the order they are *)
(* emitted; the first Numbered[t] are followed one by one, all others have *)
(* the number Later(t), so that a run may emit for ever.                   *)
(***************************************************************************)
EXTENDS Integers, SequencesExt

CONSTANTS
    Procs,       \* request goroutines of the RPC server
    Clients,     \* WebSocket connections
    Capacity,    \* buffer of each channel (100 in the code)
    Window,      \* messages a socket holds before a write waits
    Numbered     \* bound: events of a topic that are followed one by one

Topic == {"block", "tx", "payment"}

ASSUME BoundsAssumption ==
    Capacity \in Nat \ {0} /\ Window \in Nat \ {0} /\ Numbered \in [Topic -> Nat]

\* sendTransaction, sendUSDCc, adminMint and adminBurn emit a "tx" event,
\* adminPauseTransfers and adminForceTransfer a "block" event; nothing emits
\* a "payment" event.
EmittedTopic == {"block", "tx"}

Later(t) == Numbered[t] + 1

Event == {e \in [topic : Topic, n : Nat] : e.n \in 1..Later(e.topic)}

VARIABLES
    chan,    \* bus.Blocks, bus.Txs, bus.Payments
    sent,    \* the number of the topic's last event
    rpc,     \* the topic a request goroutine is about to emit to, or "idle"
    peer,    \* the client's side of a connection
    place,   \* where the connection's handler goroutine is
    done,    \* the connection's "done" channel is closed
    hand,    \* the event the handler is about to write
    socket,  \* messages written and not yet read by the client
    got,     \* history: numbered events the client has read
    taken    \* history: numbered events the handler took from the channels

busVars  == <<chan, sent, rpc>>
connVars == <<peer, place, done, hand, socket>>
histVars == <<got, taken>>
vars == <<busVars, connVars, histVars>>

\* What a handler has in hand while it waits: nothing that is followed.
NoEvent == [topic |-> "tx", n |-> Later("tx")]

Init ==
    /\ chan = [t \in Topic |-> <<>>]
    /\ sent = [t \in Topic |-> 0]
    /\ rpc = [p \in Procs |-> "idle"]
    /\ peer = [c \in Clients |-> "away"]
    /\ place = [c \in Clients |-> "off"]
    /\ done = [c \in Clients |-> FALSE]
    /\ hand = [c \in Clients |-> NoEvent]
    /\ socket = [c \in Clients |-> <<>>]
    /\ got = [c \in Clients |-> <<>>]
    /\ taken = [c \in Clients |-> <<>>]

IsNumbered(e) == e.n <= Numbered[e.topic]

\* A history with one more event, if the event is followed.
Note(history, e) == IF IsNumbered(e) THEN Append(history, e) ELSE history

-----------------------------------------------------------------------------
(* The RPC side *)

\* A method that emits has succeeded; its answer is written after the event.
Handle(p) ==
    /\ rpc[p] = "idle"
    /\ \E t \in EmittedTopic : rpc' = [rpc EXCEPT ![p] = t]
    /\ UNCHANGED <<chan, sent, connVars, histVars>>

NextNumber(t) == IF sent[t] < Later(t) THEN sent[t] + 1 ELSE Later(t)

\* Mutant of Emit: the send has no default case.
EmitBlocking(p) ==
    /\ rpc[p] # "idle" /\ Len(chan[rpc[p]]) < Capacity
    /\ sent' = [sent EXCEPT ![rpc[p]] = NextNumber(rpc[p])]
    /\ chan' = [chan EXCEPT ![rpc[p]] = Append(@, NextNumber(rpc[p]))]
    /\ rpc' = [rpc EXCEPT ![p] = "idle"]
    /\ UNCHANGED <<connVars, histVars>>

\* Mutant of Emit: the buffer grows.
EmitGrowing(p) ==
    /\ rpc[p] # "idle"
    /\ LET t == rpc[p]
           n == NextNumber(t)
       IN /\ sent' = [sent EXCEPT ![t] = n]
          /\ chan' = [chan EXCEPT ![t] = Append(@, n)]
    /\ rpc' = [rpc EXCEPT ![p] = "idle"]
    /\ UNCHANGED <<connVars, histVars>>

\* Mutant of Emit: one place of the buffer is never used.
EmitSpare(p) ==
    /\ rpc[p] # "idle"
    /\ LET t == rpc[p]
           n == NextNumber(t)
       IN /\ sent' = [sent EXCEPT ![t] = n]
          /\ chan' = IF Len(chan[t]) + 1 < Capacity
                     THEN [chan EXCEPT ![t] = Append(@, n)] ELSE chan
    /\ rpc' = [rpc EXCEPT ![p] = "idle"]
    /\ UNCHANGED <<connVars, histVars>>

\* EmitBlock / EmitTx: a select with a default never waits.
Emit(p) ==
    /\ rpc[p] # "idle"
    /\ LET t == rpc[p]
           n == NextNumber(t)
       IN /\ sent' = [sent EXCEPT ![t] = n]
          /\ chan' = IF Len(chan[t]) < Capacity
                     THEN [chan EXCEPT ![t] = Append(@, n)] ELSE chan
    /\ rpc' = [rpc EXCEPT ![p] = "idle"]
    /\ UNCHANGED <<connVars, histVars>>

-----------------------------------------------------------------------------
(* The client's side *)

Connect(c) ==
    /\ peer[c] = "away"
    /\ peer' = [peer EXCEPT ![c] = "reading"]
    /\ place' = [place EXCEPT ![c] = "select"]
    /\ UNCHANGED <<busVars, done, hand, socket, histVars>>

\* A client stops reading for a while and goes on.
Stall(c) ==
    /\ peer[c] = "reading"
    /\ peer' = [peer EXCEPT ![c] = "stalled"]
    /\ UNCHANGED <<busVars, place, done, hand, socket, histVars>>

Resume(c) ==
    /\ peer[c] = "stalled"
    /\ peer' = [peer EXCEPT ![c] = "reading"]
    /\ UNCHANGED <<busVars, place, done, hand, socket, histVars>>

\* The client closes the connection; what is in the socket is lost.
Disconnect(c) ==
    /\ peer[c] \in {"reading", "stalled"}
    /\ peer' = [peer EXCEPT ![c] = "gone"]
    /\ socket' = [socket EXCEPT ![c] = <<>>]
    /\ UNCHANGED <<busVars, place, done, hand, histVars>>

Read(c) ==
    /\ peer[c] = "reading" /\ socket[c] # <<>>
    /\ got' = [got EXCEPT ![c] = Note(@, Head(socket[c]))]
    /\ socket' = [socket EXCEPT ![c] = Tail(@)]
    /\ UNCHANGED <<busVars, peer, place, done, hand, taken>>

-----------------------------------------------------------------------------
(* The two goroutines of a connection *)

\* Mutant of CloseDone: the reader returns without closing "done".
CloseDoneForgotten(c) ==
    /\ peer[c] = "gone" /\ ~done[c]
    /\ UNCHANGED vars

\* ReadMessage fails: the reader closes "done".
CloseDone(c) ==
    /\ peer[c] = "gone" /\ ~done[c]
    /\ done' = [done EXCEPT ![c] = TRUE]
    /\ UNCHANGED <<busVars, peer, place, hand, socket, histVars>>

\* Mutant of Take: transactions are served first.
TakeTxFirst(c, t) ==
    /\ place[c] = "select" /\ chan[t] # <<>>
    /\ t # "tx" => chan["tx"] = <<>>
    /\ LET e == [topic |-> t, n |-> Head(chan[t])] IN
       /\ hand' = [hand EXCEPT ![c] = e]
       /\ taken' = [taken EXCEPT ![c] = Note(@, e)]
    /\ chan' = [chan EXCEPT ![t] = Tail(@)]
    /\ place' = [place EXCEPT ![c] = "write"]
    /\ UNCHANGED <<sent, rpc, peer, done, socket, got>>

\* The select receives from a channel, even when "done" is closed too.
Take(c, t) ==
    /\ place[c] = "select" /\ chan[t] # <<>>
    /\ LET e == [topic |-> t, n |-> Head(chan[t])] IN
       /\ hand' = [hand EXCEPT ![c] = e]
       /\ taken' = [taken EXCEPT ![c] = Note(@, e)]
    /\ chan' = [chan EXCEPT ![t] = Tail(@)]
    /\ place' = [place EXCEPT ![c] = "write"]
    /\ UNCHANGED <<sent, rpc, peer, done, socket, got>>

\* Mutants of Write: an event whose write failed goes back to the channel; a
\* write to a client that does not read gives up.
WriteOrRequeue(c) ==
    /\ place[c] = "write"
    /\ IF peer[c] = "gone"
       THEN /\ chan' = [chan EXCEPT ![hand[c].topic] = Append(@, hand[c].n)]
            /\ UNCHANGED socket
       ELSE /\ Len(socket[c]) < Window
            /\ socket' = [socket EXCEPT ![c] = Append(@, hand[c])]
            /\ UNCHANGED chan
    /\ place' = [place EXCEPT ![c] = "select"]
    /\ hand' = [hand EXCEPT ![c] = NoEvent]
    /\ UNCHANGED <<sent, rpc, peer, done, histVars>>

WriteOrSkip(c) ==
    /\ place[c] = "write"
    /\ socket' = IF peer[c] = "gone" \/ Len(socket[c]) = Window
                 THEN socket ELSE [socket EXCEPT ![c] = Append(@, hand[c])]
    /\ place' = [place EXCEPT ![c] = "select"]
    /\ hand' = [hand EXCEPT ![c] = NoEvent]
    /\ UNCHANGED <<busVars, peer, done, histVars>>

\* WriteJSON, whose error is ignored; it waits while the socket is full.
Write(c) ==
    /\ place[c] = "write"
    /\ IF peer[c] = "gone"
       THEN UNCHANGED socket
       ELSE /\ Len(socket[c]) < Window
            /\ socket' = [socket EXCEPT ![c] = Append(@, hand[c])]
    /\ place' = [place EXCEPT ![c] = "select"]
    /\ hand' = [hand EXCEPT ![c] = NoEvent]
    /\ UNCHANGED <<busVars, peer, done, histVars>>

\* The select sees "done": the handler returns and closes the connection.
Return(c) ==
    /\ place[c] = "select" /\ done[c]
    /\ place' = [place EXCEPT ![c] = "closed"]
    /\ UNCHANGED <<busVars, peer, done, hand, socket, histVars>>

Next ==
    \/ \E p \in Procs : Handle(p) \/ Emit(p)
    \/ \E c \in Clients :
          \/ Connect(c) \/ Stall(c) \/ Resume(c) \/ Disconnect(c) \/ Read(c)
          \/ CloseDone(c) \/ Write(c) \/ Return(c)
          \/ \E t \in Topic : Take(c, t)

Spec == Init /\ [][Next]_vars

\* The scheduler runs every goroutine that is ready, and a select picks among
\* its ready cases at random: no case that is ready again and again is
\* passed over for ever.  A client that is reading goes on to read; nothing
\* makes a client connect, stall, resume or leave.
FairSpec ==
    /\ Spec
    /\ \A p \in Procs : WF_vars(Emit(p))
    /\ \A c \in Clients :
          /\ WF_vars(Read(c)) /\ WF_vars(CloseDone(c)) /\ WF_vars(Write(c))
          /\ SF_vars(Return(c))
          /\ \A t \in Topic : SF_vars(Take(c, t))

-----------------------------------------------------------------------------
(* Properties *)

\* Channels and sockets stay within their buffers and a handler exists only
\* for a connection that was made.
TypeOK ==
    /\ chan \in [Topic -> Seq(Nat)] /\ sent \in [Topic -> Nat]
    /\ \A t \in Topic :
          /\ chan[t] \in Seq(1..Later(t)) /\ Len(chan[t]) <= Capacity
          /\ sent[t] <= Later(t)
    /\ rpc \in [Procs -> EmittedTopic \cup {"idle"}]
    /\ peer \in [Clients -> {"away", "reading", "stalled", "gone"}]
    /\ place \in [Clients -> {"off", "select", "write", "closed"}]
    /\ done \in [Clients -> BOOLEAN]
    /\ hand \in [Clients -> Event]
    /\ socket \in [Clients -> Seq(Event)]
    /\ \A c \in Clients : Len(socket[c]) <= Window
    /\ got \in [Clients -> Seq(Event)]
    /\ taken \in [Clients -> Seq(Event)]

\* The events of a sequence that are followed.
OnlyNumbered(seq) ==
    LET kept[i \in 0..Len(seq)] == IF i = 0 THEN <<>> ELSE Note(kept[i - 1], seq[i])
    IN  kept[Len(seq)]

\* What the socket holds, and behind it the event that is being written.
InTransit(c) == IF place[c] = "write" THEN Append(socket[c], hand[c]) ELSE socket[c]

\* What connection c's client has read or will read unless it leaves, in order.
Pipeline(c) == got[c] \o OnlyNumbered(InTransit(c))

\* A client reads exactly what its handler took, in that order and without a
\* gap, and a client that left has read a beginning of it: WriteJSON waits for a
\* client that does not read and never skips an event.
ClientReadsWhatIsTaken ==
    \A c \in Clients : IF peer[c] = "gone" THEN IsPrefix(got[c], taken[c])
                                           ELSE Pipeline(c) = taken[c]

Followed == UNION {[topic : {t}, n : 1..Numbered[t]] : t \in Topic}

Elements(seq) == {seq[i] : i \in DOMAIN seq}

\* An emitted event that is not in its channel and that no client gets.
Missing(e) ==
    /\ e.n <= sent[e.topic] /\ e.n \notin Elements(chan[e.topic])
    /\ \A c \in Clients : e \notin Elements(Pipeline(c))

\* An event goes missing only because its channel was full when it was emitted
\* or because the client whose handler took it has left.
LostForAReason ==
    [][\A e \in Followed :
          Missing(e)' /\ ~Missing(e) =>
              \/ Len(chan[e.topic]) = Capacity
              \/ \E c \in Clients : peer'[c] = "gone" /\ e \in Elements(taken[c])]_vars

\* The connections together are one feed: no event reaches two clients, and none
\* is handed out after a later event of its topic.
Feed == INSTANCE LossyFeed
        WITH Client <- Clients, Counted <- Numbered, offered <- sent, feed <- taken
EachEventOnceInOrder == Feed!Spec

\* No request waits for the bus, whatever the channels hold and the clients do.
AnswersNotDelayed == \A p \in Procs : rpc[p] # "idle" ~> rpc[p] = "idle"

\* While some client reads, an event in a channel is taken in the end: neither
\* the events of another topic that keep coming nor another client that does
\* not read can hold it up.
QueuedIsTaken ==
    \A e \in Followed, c \in Clients :
        e.n \in Elements(chan[e.topic]) /\ peer[c] = "reading"
            ~> e.n \notin Elements(chan[e.topic]) \/ peer[c] # "reading"

\* The goroutines of a connection end after its client has left, however many
\* events the handler still receives.
GoneClientIsReleased == \A c \in Clients : peer[c] = "gone" ~> place[c] = "closed"
=============================================================================
