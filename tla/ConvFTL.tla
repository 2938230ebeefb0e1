------------------------------ MODULE ConvFTL ------------------------------
(***************************************************************************)
(* The page-mapping flash translation layer of the conventional SSD build  *)
(* (conv_ftl.c), one partition of it: the mapping table and its inverse,   *)
(* the status of every flash page, the lines (super-blocks) and the three  *)
(* places a closed line can be, the user and GC write pointers, and the    *)
(* write-credit throttle that triggers foreground garbage collection.      *)
(*                                                                         *)
(* The FTL runs on the dispatcher thread only, so there is one flow of     *)
(* control: pc says which part of conv_write it is in.  A failing          *)
(* NVMEV_ASSERT (BUG_ON) and the dereference of a NULL free line both      *)
(* end in pc = "panic".                                                    *)
(*                                                                         *)
(* A physical page address is a record.  Its page index in the block,      *)
(* ppa.g.pg, is kept in mixed radix as a wordline wl and a page pg in it:  *)
(* ppa.g.pg = wl * pgs_per_oneshotpg + pg.  A flash page and a one-shot    *)
(* page are the same size, as SAMSUNG_970PRO configures them (the only     *)
(* build with this FTL), and a LUN has one plane.                          *)
(*                                                                         *)
(* Left out: the modelled latencies, and the write buffer, whose only      *)
(* influence is that conv_write returns before it has touched any of this  *)
(* state when the buffer has no room for the request.                      *)
(***************************************************************************)
EXTENDS Integers, Sequences, FiniteSets

CONSTANTS
  NCHS,          \* spp->nchs
  LUNS,          \* spp->luns_per_ch
  WLS,           \* spp->oneshotpgs_per_blk
  ONESHOT,       \* spp->pgs_per_oneshotpg
  Line,          \* the lines: one block of each LUN, named by the block id
  NLPN,          \* logical pages the namespace exposes
  GC_THRES,      \* cp.gc_thres_lines_high
  UINT_MOD,      \* number of values of a uint32_t credit counter
  UNMAPPED_PPA   \* the value of a maptbl entry that was never written

pgs_per_line == NCHS * LUNS * WLS * ONESHOT

Lpn  == 0 .. NLPN - 1
Ppa  == [blk : Line, ch : 0 .. NCHS - 1, lun : 0 .. LUNS - 1,
         wl : 0 .. WLS - 1, pg : 0 .. ONESHOT - 1]

INVALID_LPN == -1

ASSUME GeometryAssumption ==
  /\ NCHS \in Nat \ {0} /\ LUNS \in Nat \ {0}
  /\ WLS \in Nat \ {0} /\ ONESHOT \in Nat \ {0}
  /\ IsFiniteSet(Line) /\ Cardinality(Line) >= 2
  /\ NLPN \in Nat \ {0}
  /\ GC_THRES \in Nat
  /\ UINT_MOD \in Nat /\ UINT_MOD > 2 * pgs_per_line
  /\ UNMAPPED_PPA \notin Ppa

IoType == {"USER_IO", "GC_IO"}

VARIABLES
  pc,                 \* where conv_write is
  req,                \* [lpn, end]: the loop variable of conv_write and its limit
  maptbl,             \* logical page -> physical page
  rmap,               \* physical page -> logical page
  status,             \* nand_page.status
  vpc, ipc,           \* line.vpc, line.ipc
  free_line_list,     \* lm.free_line_list
  full_line_list,     \* lm.full_line_list (its order is never used)
  victim_line_pq,     \* lm.victim_line_pq: the lines with line.pos # 0
  wp,                 \* wp["USER_IO"] = conv_ftl.wp, wp["GC_IO"] = conv_ftl.gc_wp
  gc,                 \* do_gc's ppa, a page of the victim line (unset outside do_gc)
  write_credits, credits_to_refill

lines == <<free_line_list, full_line_list, victim_line_pq>>
credits == <<write_credits, credits_to_refill>>
vars == <<pc, req, maptbl, rmap, status, vpc, ipc, lines, wp, gc, credits>>

-----------------------------------------------------------------------------
(* Initialisation: init_lines, prepare_write_pointer for USER_IO and then  *)
(* for GC_IO, init_maptbl, init_rmap, init_write_flow_control.  The lines  *)
(* start in the order of their ids, which are no more than names here: any *)
(* enumeration of them is that order.                                      *)

tt_lines == Cardinality(Line)

line_orders ==
  {o \in [1 .. tt_lines -> Line] :
     /\ \A i, j \in 1 .. tt_lines : i # j => o[i] # o[j]
     /\ \A l \in Line : \E i \in 1 .. tt_lines : o[i] = l}

page(b, c, u, w, g) == [blk |-> b, ch |-> c, lun |-> u, wl |-> w, pg |-> g]

line_start(l) == page(l, 0, 0, 0, 0)

Init ==
  /\ pc = "idle"
  /\ req = [lpn |-> 0, end |-> 0]
  /\ maptbl = [l \in Lpn |-> UNMAPPED_PPA]
  /\ rmap = [p \in Ppa |-> INVALID_LPN]
  /\ status = [p \in Ppa |-> "FREE"]
  /\ vpc = [l \in Line |-> 0]
  /\ ipc = [l \in Line |-> 0]
  /\ full_line_list = {}
  /\ victim_line_pq = {}
  /\ gc = UNMAPPED_PPA
  /\ \E o \in line_orders :
       /\ wp = [t \in IoType |-> line_start(IF t = "USER_IO" THEN o[1] ELSE o[2])]
       /\ free_line_list = [i \in 1 .. tt_lines - 2 |-> o[i + 2]]
  /\ write_credits = pgs_per_line
  /\ credits_to_refill = pgs_per_line

-----------------------------------------------------------------------------
(* Conditions and address arithmetic.                                      *)

mapped_ppa(ppa) == ppa # UNMAPPED_PPA

\* (bug variant) the comparison is the wrong way round
should_gc_high_reversed == Len(free_line_list) > GC_THRES

should_gc_high == Len(free_line_list) <= GC_THRES

\* the page is the last one of its line in write order
last_pg_in_line(p) ==
  /\ p.pg = ONESHOT - 1 /\ p.ch = NCHS - 1
  /\ p.lun = LUNS - 1   /\ p.wl = WLS - 1

\* (bug variant) the wrap test of the page index is off by one
next_pg_in_line_late_wrap(p) ==
  IF p.pg # ONESHOT THEN page(p.blk, p.ch, p.lun, p.wl, p.pg + 1)
  ELSE page(p.blk, p.ch + 1, p.lun, p.wl, 0)

\* advance_write_pointer inside a line: page, then channel, LUN and wordline
next_pg_in_line(p) ==
  IF p.pg # ONESHOT - 1    THEN page(p.blk, p.ch, p.lun, p.wl, p.pg + 1)
  ELSE IF p.ch # NCHS - 1  THEN page(p.blk, p.ch + 1, p.lun, p.wl, 0)
  ELSE IF p.lun # LUNS - 1 THEN page(p.blk, 0, p.lun + 1, p.wl, 0)
  ELSE page(p.blk, 0, 0, p.wl + 1, 0)

\* do_gc's loops are in another order: flash page, channel, LUN
last_flashpg(p) == p.ch = NCHS - 1 /\ p.lun = LUNS - 1 /\ p.wl = WLS - 1

next_flashpg(p) ==
  IF p.lun # LUNS - 1     THEN page(p.blk, p.ch, p.lun + 1, p.wl, 0)
  ELSE IF p.ch # NCHS - 1 THEN page(p.blk, p.ch + 1, 0, p.wl, 0)
  ELSE page(p.blk, 0, 0, p.wl + 1, 0)

\* (bug variant) mark_block_free is given the whole line
same_block_whole_line(p, q) == p.blk = q.blk

same_block(p, q) == p.blk = q.blk /\ p.ch = q.ch /\ p.lun = q.lun

Panic ==
  /\ pc' = "panic"
  /\ UNCHANGED <<req, maptbl, rmap, status, vpc, ipc, lines, wp, gc, credits>>

-----------------------------------------------------------------------------
(* Writing one page, for the host and for GC: get_new_page, set_maptbl_ent, *)
(* set_rmap_ent, mark_page_valid, advance_write_pointer.                   *)

\* The assertions of mark_page_valid and advance_write_pointer.
program_asserts(t) ==
  LET new == wp[t]
      v == vpc[new.blk] + 1
  IN  /\ status[new] = "FREE"
      /\ vpc[new.blk] >= 0 /\ vpc[new.blk] < pgs_per_line
      /\ last_pg_in_line(new) =>
           /\ IF v = pgs_per_line THEN ipc[new.blk] = 0 ELSE ipc[new.blk] > 0
           /\ free_line_list # <<>>

\* The line that was written to its end joins the full list or the victims.
close_line(l, v) ==
  IF v = pgs_per_line
  THEN /\ full_line_list' = full_line_list \union {l}
       /\ UNCHANGED victim_line_pq
  ELSE /\ victim_line_pq' = victim_line_pq \union {l}
       /\ UNCHANGED full_line_list

advance_write_pointer(t, v) ==
  IF last_pg_in_line(wp[t])
  THEN /\ close_line(wp[t].blk, v)
       /\ wp' = [wp EXCEPT ![t] = line_start(Head(free_line_list))]
       /\ free_line_list' = Tail(free_line_list)
  ELSE /\ wp' = [wp EXCEPT ![t] = next_pg_in_line(@)]
       /\ UNCHANGED lines

program_page(lpn, t) ==
  LET new == wp[t]
      v == vpc[new.blk] + 1
  IN  /\ maptbl' = [maptbl EXCEPT ![lpn] = new]
      /\ rmap' = [rmap EXCEPT ![new] = lpn]
      /\ status' = [status EXCEPT ![new] = "VALID"]
      /\ vpc' = [vpc EXCEPT ![new.blk] = v]
      /\ advance_write_pointer(t, v)
      /\ UNCHANGED ipc

-----------------------------------------------------------------------------
(* conv_write: for every page of the request, invalidate the old copy,     *)
(* program the new one, spend a credit and refill the credits.             *)

WriteBegin ==
  /\ pc = "idle"
  /\ \E s \in Lpn : \E e \in Lpn :
       /\ s <= e
       /\ req' = [lpn |-> s, end |-> e]
  /\ pc' = "invalidate"
  /\ UNCHANGED <<maptbl, rmap, status, vpc, ipc, lines, wp, gc, credits>>

\* The assertions of mark_page_invalid.
invalidate_asserts(p) ==
  /\ status[p] = "VALID"
  /\ ipc[p.blk] >= 0 /\ ipc[p.blk] < pgs_per_line
  /\ vpc[p.blk] = pgs_per_line => ipc[p.blk] = 0
  /\ vpc[p.blk] > 0 /\ vpc[p.blk] <= pgs_per_line

\* (bug variant) the line that was full is not taken off the full list
mark_page_invalid_stays_full(p) ==
  /\ status' = [status EXCEPT ![p] = "INVALID"]
  /\ ipc' = [ipc EXCEPT ![p.blk] = @ + 1]
  /\ vpc' = [vpc EXCEPT ![p.blk] = @ - 1]
  /\ victim_line_pq' =
       victim_line_pq \union (IF vpc[p.blk] = pgs_per_line THEN {p.blk} ELSE {})
  /\ UNCHANGED <<full_line_list, free_line_list>>

\* (bug variant) the count of a line that sits in the victim queue is not updated
mark_page_invalid_pq_stale(p) ==
  /\ status' = [status EXCEPT ![p] = "INVALID"]
  /\ ipc' = [ipc EXCEPT ![p.blk] = @ + 1]
  /\ vpc' = IF p.blk \in victim_line_pq THEN vpc ELSE [vpc EXCEPT ![p.blk] = @ - 1]
  /\ IF vpc[p.blk] = pgs_per_line
     THEN /\ full_line_list' = full_line_list \ {p.blk}
          /\ victim_line_pq' = victim_line_pq \union {p.blk}
     ELSE UNCHANGED <<full_line_list, victim_line_pq>>
  /\ UNCHANGED free_line_list

mark_page_invalid(p) ==
  /\ status' = [status EXCEPT ![p] = "INVALID"]
  /\ ipc' = [ipc EXCEPT ![p.blk] = @ + 1]
  /\ vpc' = [vpc EXCEPT ![p.blk] = @ - 1]
  /\ IF vpc[p.blk] = pgs_per_line
     THEN /\ full_line_list' = full_line_list \ {p.blk}
          /\ victim_line_pq' = victim_line_pq \union {p.blk}
     ELSE UNCHANGED <<full_line_list, victim_line_pq>>
  /\ UNCHANGED free_line_list

InvalidateOld ==
  /\ pc = "invalidate"
  /\ LET old == maptbl[req.lpn] IN
     IF ~mapped_ppa(old)
     THEN /\ pc' = "program"
          /\ UNCHANGED <<rmap, status, vpc, ipc, lines, req, maptbl, wp, gc, credits>>
     ELSE IF invalidate_asserts(old)
     THEN /\ mark_page_invalid(old)
          /\ rmap' = [rmap EXCEPT ![old] = INVALID_LPN]
          /\ pc' = "program"
          /\ UNCHANGED <<req, maptbl, wp, gc, credits>>
     ELSE Panic

\* consume_write_credit decrements an unsigned counter.
consume_write_credit == write_credits' = (write_credits - 1) % UINT_MOD

ProgramUser ==
  /\ pc = "program"
  /\ IF program_asserts("USER_IO")
     THEN /\ program_page(req.lpn, "USER_IO")
          /\ consume_write_credit
          /\ pc' = "credit"
          /\ UNCHANGED <<req, gc, credits_to_refill>>
     ELSE Panic

\* (bug variant) the loop variable is not advanced
next_lpn_stuck ==
  IF req.lpn < req.end
  THEN UNCHANGED req /\ pc' = "invalidate"
  ELSE pc' = "idle" /\ req' = [lpn |-> 0, end |-> 0]

\* the end of the body of the loop over the pages of the request
next_lpn ==
  IF req.lpn < req.end
  THEN /\ req' = [lpn |-> req.lpn + 1, end |-> req.end]
       /\ pc' = "invalidate"
  ELSE /\ pc' = "idle"
       /\ req' = [lpn |-> 0, end |-> 0]

refill == write_credits' = (write_credits + credits_to_refill) % UINT_MOD

\* check_and_refill_write_credit while credits are left
CreditLeft ==
  /\ pc = "credit"
  /\ write_credits > 0
  /\ next_lpn
  /\ UNCHANGED <<maptbl, rmap, status, vpc, ipc, lines, wp, gc, credits>>

\* foreground_gc finds enough free lines, or do_gc finds no victim
RefillNoGc ==
  /\ pc = "credit"
  /\ write_credits = 0
  /\ should_gc_high => victim_line_pq = {}
  /\ refill
  /\ next_lpn
  /\ UNCHANGED <<maptbl, rmap, status, vpc, ipc, lines, wp, gc, credits_to_refill>>

-----------------------------------------------------------------------------
(* do_gc: pick the victim with the fewest valid pages, copy what is valid, *)
(* erase each block after its last flash page, free the line.              *)

\* select_victim_line with force: pqueue_peek and pqueue_pop
is_min_victim(l) ==
  /\ l \in victim_line_pq
  /\ \A m \in victim_line_pq : vpc[l] <= vpc[m]

\* (bug variant) the pages GC copies are given back instead of those it gains
credits_from_copies(l) == vpc[l]

\* do_gc: what collecting the line gives back
credits_from(l) == ipc[l]

SelectVictim ==
  /\ pc = "credit"
  /\ write_credits = 0
  /\ should_gc_high
  /\ \E l \in Line :
       /\ is_min_victim(l)
       /\ victim_line_pq' = victim_line_pq \ {l}
       /\ gc' = line_start(l)
       /\ credits_to_refill' = credits_from(l)
  /\ pc' = "clean"
  /\ UNCHANGED <<req, maptbl, rmap, status, vpc, ipc, free_line_list,
                 full_line_list, wp, write_credits>>

\* (bug variant) the block is erased after its first flash page
gc_next_page_early_erase ==
  IF gc.pg # ONESHOT - 1
  THEN gc' = page(gc.blk, gc.ch, gc.lun, gc.wl, gc.pg + 1) /\ pc' = "clean"
  ELSE IF gc.wl = 0
  THEN pc' = "erase" /\ UNCHANGED gc
  ELSE gc' = next_flashpg(gc) /\ pc' = "clean"

\* where clean_one_flashpg goes after one page: the next page of the flash
\* page, the erase of the block, or the next flash page
gc_next_page ==
  IF gc.pg # ONESHOT - 1
  THEN gc' = page(gc.blk, gc.ch, gc.lun, gc.wl, gc.pg + 1) /\ pc' = "clean"
  ELSE IF gc.wl = WLS - 1
  THEN pc' = "erase" /\ UNCHANGED gc
  ELSE gc' = next_flashpg(gc) /\ pc' = "clean"

\* gc_write_page leaves the status and the rmap entry of the old page alone.
CleanPage ==
  /\ pc = "clean"
  /\ CASE status[gc] = "FREE" -> Panic
       [] status[gc] = "INVALID" ->
            /\ gc_next_page
            /\ UNCHANGED <<req, maptbl, rmap, status, vpc, ipc, lines, wp, credits>>
       [] status[gc] = "VALID" ->
            IF rmap[gc] \in Lpn /\ program_asserts("GC_IO")
            THEN /\ program_page(rmap[gc], "GC_IO")
                 /\ gc_next_page
                 /\ UNCHANGED <<req, credits>>
            ELSE Panic

\* mark_block_free
EraseBlock ==
  /\ pc = "erase"
  /\ status' = [p \in Ppa |-> IF same_block(p, gc) THEN "FREE" ELSE status[p]]
  /\ IF last_flashpg(gc)
     THEN pc' = "free_line" /\ UNCHANGED gc
     ELSE pc' = "clean" /\ gc' = next_flashpg(gc)
  /\ UNCHANGED <<req, maptbl, rmap, vpc, ipc, lines, wp, credits>>

\* mark_line_free, and back in check_and_refill_write_credit
FreeLine ==
  /\ pc = "free_line"
  /\ vpc' = [vpc EXCEPT ![gc.blk] = 0]
  /\ ipc' = [ipc EXCEPT ![gc.blk] = 0]
  /\ free_line_list' = Append(free_line_list, gc.blk)
  /\ gc' = UNMAPPED_PPA
  /\ refill
  /\ next_lpn
  /\ UNCHANGED <<maptbl, rmap, status, full_line_list, victim_line_pq, wp,
                 credits_to_refill>>

-----------------------------------------------------------------------------
Gc == SelectVictim \/ CleanPage \/ EraseBlock \/ FreeLine

Next ==
  \/ WriteBegin \/ InvalidateOld \/ ProgramUser
  \/ CreditLeft \/ RefillNoGc
  \/ Gc

Spec == Init /\ [][Next]_vars

\* The dispatcher is a kthread that never sleeps inside a command: once it is
\* in conv_write it runs to the return.  New commands need not arrive.
FairSpec == Spec /\ WF_vars(Next /\ pc # "idle")
-----------------------------------------------------------------------------
(* Properties.                                                             *)

pages_of(l) == {p \in Ppa : p.blk = l}

in_gc == pc \in {"clean", "erase", "free_line"}

\* where a line can be
on_free(l) == \E i \in 1 .. Len(free_line_list) : free_line_list[i] = l
open(l) == \E t \in IoType : wp[t].blk = l
collected(l) == in_gc /\ gc.blk = l

\* clean_one_flashpg has passed page p of the victim line: all of an earlier
\* flash page in do_gc's order, or an earlier page of the flash page it is at.
passed(p) ==
  \/ pc = "free_line"
  \/ p.wl < gc.wl
  \/ p.wl = gc.wl /\ p.ch < gc.ch
  \/ p.wl = gc.wl /\ p.ch = gc.ch /\ p.lun < gc.lun
  \/ p.wl = gc.wl /\ p.ch = gc.ch /\ p.lun = gc.lun /\ (p.pg < gc.pg \/ pc = "erase")

\* A page of the victim line GC is done with: it may still be marked valid and
\* its rmap entry may still name a logical page that now lives elsewhere.
superseded(p) == in_gc /\ p.blk = gc.blk /\ passed(p)

\* The old copy of the page being rewritten, after mark_page_invalid and
\* before set_maptbl_ent.
being_replaced(l) == pc = "program" /\ l = req.lpn

\* The state keeps its type: what each field of struct conv_ftl may hold.
TypeOK ==
  /\ pc \in {"idle", "invalidate", "program", "credit", "clean", "erase",
             "free_line", "panic"}
  /\ req \in [lpn : Lpn, end : Lpn]
  /\ maptbl \in [Lpn -> Ppa \union {UNMAPPED_PPA}]
  /\ rmap \in [Ppa -> Lpn \union {INVALID_LPN}]
  /\ status \in [Ppa -> {"FREE", "VALID", "INVALID"}]
  /\ vpc \in [Line -> Int]
  /\ ipc \in [Line -> Int]
  /\ free_line_list \in Seq(Line)
  /\ full_line_list \subseteq Line
  /\ victim_line_pq \subseteq Line
  /\ wp \in [IoType -> Ppa]
  /\ gc \in Ppa \union {UNMAPPED_PPA}
  /\ in_gc => gc \in Ppa
  /\ write_credits \in Nat
  /\ credits_to_refill \in Nat

\* maptbl and rmap are inverse to each other on the pages in use: a mapped
\* logical page is on a valid flash page whose rmap entry leads back to it, and
\* a valid flash page that GC has not yet superseded is the current copy of the
\* logical page its rmap entry names.  conv_write updates the two tables and
\* the page status in separate steps and gc_write_page leaves stale entries.
MapInverse ==
  /\ \A l \in Lpn : mapped_ppa(maptbl[l]) /\ ~being_replaced(l) =>
       /\ status[maptbl[l]] = "VALID"
       /\ rmap[maptbl[l]] = l
       /\ ~superseded(maptbl[l])
  /\ \A l \in Lpn : mapped_ppa(maptbl[l]) /\ being_replaced(l) =>
       status[maptbl[l]] = "INVALID"
  /\ \A p \in Ppa : status[p] = "VALID" /\ ~superseded(p) =>
       /\ rmap[p] \in Lpn
       /\ maptbl[rmap[p]] = p

\* line.vpc and line.ipc are the numbers of valid and invalid pages of the
\* line, whatever order overwrites, line closes and GC copies came in; the
\* victim line keeps its old counts until mark_line_free.
LineCounts ==
  \A l \in Line : ~(in_gc /\ l = gc.blk) =>
    /\ vpc[l] = Cardinality({p \in pages_of(l) : status[p] = "VALID"})
    /\ ipc[l] = Cardinality({p \in pages_of(l) : status[p] = "INVALID"})

\* Every line is in exactly one place: once on the free list, on the full
\* list, in the victim queue, under one of the two write pointers, or being
\* collected.  A line in two places would be handed out, or erased, twice; a
\* line in none would be capacity lost for good.
LinePartition ==
  /\ \A i, j \in 1 .. Len(free_line_list) :
       i # j => free_line_list[i] # free_line_list[j]
  /\ wp["USER_IO"].blk # wp["GC_IO"].blk
  /\ \A l \in Line :
       /\ on_free(l) \/ l \in full_line_list \/ l \in victim_line_pq \/ open(l) \/ collected(l)
       /\ on_free(l) => l \notin full_line_list \union victim_line_pq /\ ~open(l) /\ ~collected(l)
       /\ l \in full_line_list => l \notin victim_line_pq /\ ~open(l) /\ ~collected(l)
       /\ l \in victim_line_pq => ~open(l) /\ ~collected(l)
       /\ open(l) => ~collected(l)

\* No NVMEV_ASSERT of the write and GC paths fails and advance_write_pointer
\* always finds a free line: the one-GC-per-refill throttle keeps up.
NoPanic == pc # "panic"

\* The unsigned credit counter never wraps: a user page is only programmed
\* with a credit in hand, because a victim always gives back at least one.
CreditInHand ==
  pc \in {"invalidate", "program"} =>
    write_credits >= 1 /\ write_credits <= pgs_per_line

\* Every write command the FTL accepts comes to its end.
WriteReturns == pc # "idle" ~> pc = "idle"

-----------------------------------------------------------------------------
(* The inductive invariant behind MapInverse, LinePartition and            *)
(* CreditInHand.                                                           *)

\* how many pages of the line come before p in write order
rank(p) == ((p.wl * LUNS + p.lun) * NCHS + p.ch) * ONESHOT + p.pg

\* The counters of a line account for exactly the pages written in it: none of
\* a free line, those behind the write pointer of an open one, all of a closed
\* one.  Hence a line with vpc = pgs_per_line is on the full list, and a line in
\* the victim queue has an invalid page.
LineOccupancy ==
  /\ \A l \in Line :
       /\ vpc[l] >= 0 /\ ipc[l] >= 0
       /\ on_free(l) => vpc[l] = 0 /\ ipc[l] = 0
       /\ l \in full_line_list => vpc[l] = pgs_per_line /\ ipc[l] = 0
       /\ l \in victim_line_pq => vpc[l] + ipc[l] = pgs_per_line /\ ipc[l] > 0
  /\ \A t \in IoType : vpc[wp[t].blk] + ipc[wp[t].blk] = rank(wp[t])

CreditRange ==
  /\ credits_to_refill \in 1 .. pgs_per_line
  /\ pc \in {"idle", "invalidate", "program"} => write_credits \in 1 .. pgs_per_line
  /\ pc = "credit" => write_credits \in 0 .. pgs_per_line - 1
  /\ in_gc => write_credits = 0

\* do_gc has erased the block of page p of the victim line
block_erased(p) ==
  \/ pc = "free_line"
  \/ gc.wl = WLS - 1 /\ (p.ch < gc.ch \/ (p.ch = gc.ch /\ p.lun < gc.lun))

\* The blocks of the victim line are erased one by one, each after its last
\* page was passed, and stay blank until the line is freed.
GcErased ==
  /\ pc = "erase" => gc.wl = WLS - 1 /\ gc.pg = ONESHOT - 1
  /\ in_gc => \A p \in Ppa : p.blk = gc.blk /\ block_erased(p) => status[p] = "FREE"

\* The mapping, the lines, their counters, the credits and the progress of GC
\* fit together between any two steps of the write path.
Consistent ==
  MapInverse /\ LinePartition /\ LineOccupancy /\ CreditRange /\ GcErased

\* The inductive invariant.  A panic stops the FTL in the middle of an update,
\* so nothing but the types is claimed of the state it leaves.
IInv == TypeOK /\ (NoPanic => Consistent)

-----------------------------------------------------------------------------
(* Why no assertion fails: the inductive invariant behind LineCounts and   *)
(* NoPanic.                                                                *)

\* Pages are programmed in write order and erased with their line: a free line
\* is blank, an open one is blank from its write pointer on, a closed one has
\* no blank page, and neither has what GC still has to visit of its victim.
PageStates ==
  \A p \in Ppa :
    /\ on_free(p.blk) => status[p] = "FREE"
    /\ p.blk \in full_line_list \union victim_line_pq => status[p] # "FREE"
    /\ \A t \in IoType :
         p.blk = wp[t].blk => (status[p] = "FREE" <=> rank(p) >= rank(wp[t]))
    /\ in_gc /\ p.blk = gc.blk /\ ~passed(p) => status[p] # "FREE"

\* the pages that can be programmed before something has to be erased
unwritten ==
  Len(free_line_list) * pgs_per_line
    + (pgs_per_line - rank(wp["USER_IO"])) + (pgs_per_line - rank(wp["GC_IO"]))

\* the pages of the victim line that GC has still to copy
to_copy == {p \in pages_of(gc.blk) : status[p] = "VALID" /\ ~passed(p)}

\* Beyond the credits the host holds there are always gc_thres_lines_high lines
\* worth of unwritten pages.  A collection lends from that reserve the pages it
\* has copied so far, which are fewer than a line, and gives back a line.
Reserve ==
  /\ ~in_gc => unwritten >= GC_THRES * pgs_per_line + write_credits
  /\ in_gc => unwritten + (pgs_per_line - credits_to_refill)
                 >= GC_THRES * pgs_per_line + Cardinality(to_copy)

\* The page conv_write has just programmed is in the open line, unless it was
\* the last one of its line and the pointer is at the start of the next.
JustWritten ==
  pc = "credit" =>
    /\ mapped_ppa(maptbl[req.lpn])
    /\ rank(wp["USER_IO"]) = 0 \/ maptbl[req.lpn].blk = wp["USER_IO"].blk

\* What conv_init_params configures: the threshold covers the line the host
\* writes and the line GC writes, and the over-provisioned part of the flash
\* covers the threshold and the two open lines.
Provisioned ==
  /\ GC_THRES >= 2
  /\ NLPN <= (tt_lines - 2 - GC_THRES) * pgs_per_line

\* The inductive invariant behind NoPanic, for a provisioned device.
PInv == IInv /\ NoPanic /\ LineCounts /\ PageStates /\ Reserve /\ JustWritten
=============================================================================
