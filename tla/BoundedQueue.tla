---------------------------- MODULE BoundedQueue ----------------------------
(***************************************************************************)
(* What an LFQueue promises to the two threads that share it: a bounded    *)
(* FIFO.  A batch enters as a whole or not at all, elements leave one at a *)
(* time in the order they entered, and `got' is the element the consumer   *)
(* was handed by the last pop.  Modules that use an LFQueue model it as a  *)
(* sequence with exactly these two operations.                             *)
(***************************************************************************)
EXTENDS Naturals, Sequences

CONSTANTS Values,     \* the elements
          Capacity,   \* number of slots
          Batches,    \* the batches a producer may push, non-empty sequences
          NoValue     \* got before the first pop

VARIABLES q, got

Init == q = <<>> /\ got = NoValue

\* try_push_batch (try_push is the batch of length one)
Push(vs) ==
    /\ Len(q) + Len(vs) <= Capacity
    /\ q' = q \o vs
    /\ UNCHANGED got

\* pop / try_pop
Pop ==
    /\ q # <<>>
    /\ got' = Head(q)
    /\ q' = Tail(q)

Next == Pop \/ \E vs \in Batches : Push(vs)

Spec == Init /\ [][Next]_<<q, got>>
=============================================================================
