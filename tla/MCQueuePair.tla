---------------------------- MODULE MCQueuePair ----------------------------
(* Instances of QueuePair for TLC. *)
EXTENDS QueuePair
=============================================================================
