---------------------------- MODULE BoundedQueue ----------------------------
(***************************************************************************)
(* What async_fifo promises the two clock domains it joins: a queue of at  *)
(* most Capacity words, to which one side adds at its end and from which   *)
(* the other takes at its front, possibly in the same instant.             *)
(***************************************************************************)
EXTENDS Naturals, Sequences

CONSTANTS Capacity, Word

VARIABLE q

Put(w) == Len(q) < Capacity /\ q' = Append(q, w)

Get == q # << >> /\ q' = Tail(q)

PutGet(w) == q # << >> /\ q' = Append(Tail(q), w)

Init == q = << >>

Next == Get \/ \E w \in Word : Put(w) \/ PutGet(w)

Spec == Init /\ [][Next]_q
=============================================================================
