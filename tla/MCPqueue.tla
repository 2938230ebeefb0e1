------------------------------ MODULE MCPqueue ------------------------------
(* Instances of Pqueue for TLC.  Lines are interchangeable: nothing in the *)
(* queue compares them except through vpc and pos.                         *)
EXTENDS Pqueue

LineSymmetry == Permutations(Lines)
=============================================================================
