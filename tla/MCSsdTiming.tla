----------------------------- MODULE MCSsdTiming -----------------------------
(* Instances of SsdTiming for TLC. *)
EXTENDS SsdTiming, TLC

\* LUNs of a channel are interchangeable.
LunSymmetry == Permutations(Lun)
=============================================================================
