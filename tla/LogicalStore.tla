---------------------------- MODULE LogicalStore ----------------------------
(***************************************************************************)
(* What a page-mapped SSD promises its host: an array of logical pages,    *)
(* each holding the data last written to it.  Where the data lives, and    *)
(* that garbage collection moves it, does not show.                        *)
(***************************************************************************)
CONSTANTS Lpn, Val, NoData

VARIABLE store

Init == store = [l \in Lpn |-> NoData]

Write(l, v) == store' = [store EXCEPT ![l] = v]

Next == \E l \in Lpn : \E v \in Val : Write(l, v)

Spec == Init /\ [][Next]_store
=============================================================================
