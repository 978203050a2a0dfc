------------------------------ MODULE Messages ------------------------------
(* What a posted or stored message does to the set of things its receiver    *)
(* holds. A payload is abstracted to the items it adds ("open" of an alert,  *)
(* a toast, a notification to save) and the items it takes away ("close",    *)
(* "closeAll", a removal).                                                    *)
EXTENDS Naturals, Sequences

\* The messages over the given items.
MessagesOver(items) == [add : SUBSET items, drop : SUBSET items]

Adding(x)      == [add |-> {x}, drop |-> {}]
Dropping(gone) == [add |-> {}, drop |-> gone]

\* The effect of one message.
Apply(held, m) == (held \ m.drop) \cup m.add

\* The effect of a sequence of messages, in order: what is left is what some
\* message adds and no later one takes away, and what was held all along.
After(held, q) ==
    { x \in held \cup UNION {q[i].add : i \in DOMAIN q} :
        \/ \E i \in DOMAIN q :
              /\ x \in q[i].add
              /\ \A j \in DOMAIN q : j > i => x \notin q[j].drop
        \/ x \in held /\ \A i \in DOMAIN q : x \notin q[i].drop }

\* The items some message of the queue adds.
AddedBy(q) == UNION {q[i].add : i \in DOMAIN q}
=============================================================================
