----------------------------- MODULE MCConvFTL -----------------------------
(* Instances of ConvFTL for TLC. *)
EXTENDS ConvFTL

\* A run with a liveness property can use no symmetry: the lines are numbers and
\* start in the order of their ids, as init_lines puts them.
LiveInit ==
  /\ Init
  /\ wp["USER_IO"].blk = 1 /\ wp["GC_IO"].blk = 2
  /\ \A i \in 1 .. Len(free_line_list) : free_line_list[i] = i + 2

LiveSpec == LiveInit /\ [][Next]_vars /\ WF_vars(Next /\ pc # "idle")
=============================================================================
