------------------------------- MODULE Rings -------------------------------
(***************************************************************************)
(* Positions in a ring of n entries, as the submission and completion      *)
(* queues have them: the producer writes at b, the consumer reads at a,    *)
(* and the ring is empty when they are equal.                              *)
(***************************************************************************)
EXTENDS Integers

\* the slots of a ring of n entries from position a up to position b
slots(a, b, n) == {i \in 0 .. n - 1 : (i + n - a) % n < (b + n - a) % n}

\* the position after p
after(p, n) == IF p + 1 = n THEN 0 ELSE p + 1
=============================================================================
