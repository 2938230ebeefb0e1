------------------------------ MODULE MCZnsFTL ------------------------------
(* Instances of ZnsFTL for TLC. *)
EXTENDS ZnsFTL
=============================================================================
