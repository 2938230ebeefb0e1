----------------------------- MODULE ConvStore -----------------------------
(***************************************************************************)
(* ConvFTL together with the contents of the flash pages it manages.       *)
(* NVMeVirt keeps no data in its flash model (the host's bytes sit in a    *)
(* flat buffer indexed by LBA), so media is what the modelled NAND would   *)
(* hold: a programmed page holds the host's data, a page GC programs gets  *)
(* what it read from the victim page, an erased block holds nothing.       *)
(* With it one can ask what the mapping is for: does a read that follows   *)
(* maptbl always find the data last written to the logical page?           *)
(***************************************************************************)
EXTENDS ConvFTL

CONSTANTS Val, NoData

ASSUME NoDataAssumption == NoData \notin Val

VARIABLE media   \* physical page -> its contents

storeVars == <<vars, media>>

StoreInit == Init /\ media = [p \in Ppa |-> NoData]

\* the steps of the FTL that program, move and erase no page
Untouched ==
  /\ WriteBegin \/ InvalidateOld \/ CreditLeft \/ RefillNoGc \/ SelectVictim \/ FreeLine
  /\ UNCHANGED media

StoreProgram ==
  /\ ProgramUser
  /\ IF program_asserts("USER_IO")
     THEN \E v \in Val : media' = [media EXCEPT ![wp["USER_IO"]] = v]
     ELSE UNCHANGED media

\* gc_write_page: "move valid page data (already in DRAM) from victim line to a
\* new page"
StoreClean ==
  /\ CleanPage
  /\ IF status[gc] = "VALID" /\ rmap[gc] \in Lpn /\ program_asserts("GC_IO")
     THEN media' = [media EXCEPT ![wp["GC_IO"]] = media[gc]]
     ELSE UNCHANGED media

StoreErase ==
  /\ EraseBlock
  /\ media' = [p \in Ppa |-> IF same_block(p, gc) THEN NoData ELSE media[p]]

StoreNext == Untouched \/ StoreProgram \/ StoreClean \/ StoreErase

StoreSpec == StoreInit /\ [][StoreNext]_storeVars

-----------------------------------------------------------------------------
\* Every flash page holds host data or is blank.
MediaOK == media \in [Ppa -> Val \union {NoData}]

\* (bug variant) the read skips a page that is marked invalid
contents_if_valid(l) ==
  IF mapped_ppa(maptbl[l]) /\ status[maptbl[l]] = "VALID" THEN media[maptbl[l]] ELSE NoData

\* conv_read's lookup: what the logical page reads as
contents(l) == IF mapped_ppa(maptbl[l]) THEN media[maptbl[l]] ELSE NoData

LS == INSTANCE LogicalStore WITH store <- [l \in Lpn |-> contents(l)]

\* The FTL with its garbage collector implements the logical array: every step
\* of conv_write and do_gc is a write of one logical page or does not show.
ImplementsLogicalStore == LS!Spec
=============================================================================
