---------------------------- MODULE MCConvStore ----------------------------
(* Instance of ConvStore for TLC. *)
EXTENDS ConvStore, TLC

\* Line ids and host data are only stored, copied and compared.
StoreSymmetry == Permutations(Line) \union Permutations(Val)
=============================================================================
