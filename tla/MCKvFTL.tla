------------------------------ MODULE MCKvFTL ------------------------------
(* Instances of KvFTL for TLC: hash functions that make the keys collide.  *)
EXTENDS KvFTL, TLC

CONSTANTS k1, k2, k3, v1, v2

\* Two keys share the last slot, so that probing wraps into the slot of the
\* third key.
HashWraps == (k1 :> HASH_SLOTS - 1) @@ (k2 :> HASH_SLOTS - 1) @@ (k3 :> 0)

\* k1 and k2 are interchangeable under HashWraps.
KeySymmetry == Permutations({k1, k2})

\* Every key starts in the same slot.
HashSame3 == [k \in {k1, k2, k3} |-> HASH_SLOTS - 1]
=============================================================================
