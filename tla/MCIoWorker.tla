----------------------------- MODULE MCIoWorker -----------------------------
(* Instances of IoWorker for TLC. *)
EXTENDS IoWorker
=============================================================================
