----------------------------- MODULE LossyFeed -----------------------------
(***************************************************************************)
(* What the event bus promises its WebSocket clients, seen from outside:   *)
(* the events of a topic are numbered as they are emitted; an event goes   *)
(* to one client at most, and never after a later event of its topic.      *)
(* Nothing promises that an event goes to anyone.  The numbers of topic t  *)
(* stop at Counted[t] + 1, which stands for every event after the first    *)
(* Counted[t].                                                             *)
(***************************************************************************)
EXTENDS Integers, Sequences

CONSTANTS Client, Topic, Counted

VARIABLES
    offered,  \* the number of each topic's last event
    feed      \* the events each client was assigned, among the first Counted[t]

Event == UNION {[topic : {t}, n : 1..Counted[t]] : t \in Topic}

Init ==
    /\ offered = [t \in Topic |-> 0]
    /\ feed = [c \in Client |-> <<>>]

Offer(t) ==
    /\ offered' = [offered EXCEPT ![t] = IF @ <= Counted[t] THEN @ + 1 ELSE @]
    /\ UNCHANGED feed

\* An event is new when every event of its topic assigned so far is older.
New(e) ==
    \A c \in Client : \A i \in DOMAIN feed[c] :
        feed[c][i].topic = e.topic => feed[c][i].n < e.n

Assign(c, e) ==
    /\ e.n <= offered[e.topic] /\ New(e)
    /\ feed' = [feed EXCEPT ![c] = Append(@, e)]
    /\ UNCHANGED offered

Next ==
    \/ \E t \in Topic : Offer(t)
    \/ \E c \in Client, e \in Event : Assign(c, e)

Spec == Init /\ [][Next]_<<offered, feed>>
=============================================================================
