----------------------------- MODULE ChatService -----------------------------
(***************************************************************************)
(* What the chat promises its users, whatever the server does inside: a    *)
(* roster of names, one inbox for each user, in which lines stand in the   *)
(* order they happened, and no line in it that is not the user's.  The     *)
(* queues, the passes of the poll loop, the sockets and the order in which *)
(* the server finds out who has left are below this module.                *)
(***************************************************************************)
EXTENDS Naturals, Sequences

CONSTANTS Slots, NoSlot, Names, NoName, Messages

VARIABLES
    roster,  \* who has logged in under each name
    inbox    \* lines each user has been sent and has not seen yet

Line(verb, name, msg) == [verb |-> verb, name |-> name, msg |-> msg]

Online == {roster[n] : n \in Names} \ {NoSlot}

Tell(boxes, whom, line) ==
    [s \in Slots |-> IF s \in whom THEN Append(boxes[s], line) ELSE boxes[s]]

\* A connection that ends takes the end of its inbox with it.
Cut(s, k) == [inbox EXCEPT ![s] = SubSeq(@, 1, k)]

Init ==
    /\ roster = [n \in Names |-> NoSlot]
    /\ inbox = [s \in Slots |-> <<>>]

Join(s, n) ==
    /\ roster[n] = NoSlot /\ s \notin Online
    /\ roster' = [roster EXCEPT ![n] = s]
    /\ inbox' = Tell(Tell(inbox, {s}, Line("OK", n, 0)), Online, Line("joined", n, 0))

Post(from, to, m) ==
    /\ roster[from] # NoSlot /\ roster[to] # NoSlot
    /\ inbox' = Tell(inbox, {roster[to]}, Line("FROM", from, m))
    /\ UNCHANGED roster

Answer(s, verb, n) ==
    /\ inbox' = Tell(inbox, {s}, Line(verb, n, 0))
    /\ UNCHANGED roster

Leave(n, k) ==
    /\ roster[n] # NoSlot /\ k <= Len(inbox[roster[n]])
    /\ roster' = [roster EXCEPT ![n] = NoSlot]
    /\ inbox' = Tell(Cut(roster[n], k), Online \ {roster[n]}, Line("left", n, 0))

Forget(s, k) ==
    /\ s \notin Online /\ k <= Len(inbox[s])
    /\ inbox' = Cut(s, k)
    /\ UNCHANGED roster

See(s) ==
    /\ inbox[s] # <<>>
    /\ inbox' = [inbox EXCEPT ![s] = Tail(@)]
    /\ UNCHANGED roster

\* The service ends for everybody at once.
Halt ==
    /\ roster' = [n \in Names |-> NoSlot]
    /\ \A s \in Slots :
        \E k \in 0 .. Len(inbox[s]) : inbox'[s] = SubSeq(inbox[s], 1, k)
    /\ DOMAIN inbox' = Slots

\* Every step is seen by somebody.
Seen == inbox' # inbox \/ roster' # roster

Next ==
    /\ Seen
    /\ \/ \E s \in Slots : See(s)
       \/ \E s \in Slots, n \in Names : Join(s, n)
       \/ \E s \in Slots, verb \in {"ERR", "USERS"} : Answer(s, verb, NoName)
       \/ \E from, to \in Names, m \in Messages : Post(from, to, m)
       \/ \E n \in Names : roster[n] # NoSlot
                           /\ \E k \in 0 .. Len(inbox[roster[n]]) : Leave(n, k)
       \/ \E s \in Slots : \E k \in 0 .. Len(inbox[s]) : Forget(s, k)
       \/ Halt

Spec == Init /\ [][Next]_<<roster, inbox>>
=============================================================================
