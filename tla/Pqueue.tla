------------------------------- MODULE Pqueue -------------------------------
(***************************************************************************)
(* The binary heap of pqueue/pqueue.c with the callbacks conv_ftl.c gives  *)
(* it: elements are lines, the priority is line->vpc, cmppri(next, curr)   *)
(* is next > curr, and line->pos holds the element's index, 0 when it is   *)
(* not queued.  The FTL reads pos to decide between pqueue_change_priority *)
(* and pqueue_insert (mark_page_invalid), so a stale pos corrupts the heap.*)
(***************************************************************************)
EXTENDS Naturals, Sequences, SequencesExt, FiniteSets, FiniteSetsExt

CONSTANTS Lines,   \* the elements; the queue is created for all of them
          MAX_PRI  \* vpc is in 0 .. MAX_PRI

Pri == 0 .. MAX_PRI
N == Cardinality(Lines)

ASSUME PqueueAssumption == IsFiniteSet(Lines) /\ Lines # {} /\ MAX_PRI \in Nat

VARIABLES d,       \* q->d[1] .. q->d[q->size - 1]
          vpc,     \* line->vpc while the line is queued, 0 otherwise
          pos,     \* line->pos
          popped   \* {the line pqueue_pop returned}, for one step

vars == <<d, vpc, pos, popped>>

Init ==
  /\ d = <<>>
  /\ vpc = [l \in Lines |-> 0]
  /\ pos = [l \in Lines |-> 0]
  /\ popped = {}

-----------------------------------------------------------------------------
(* Sifting.  a is the array, v the priorities; the result has the new array *)
(* and the indices for which setpos is called.                             *)

\* Variant: parent and child compared the other way round.
cmppri_reversed(next, curr) == next < curr

cmppri(next, curr) == next > curr

\* The indices bubble_up(q, i) goes through, from i to where it stops.
up_path(a, v, i) ==
  LET up[k \in DOMAIN a] ==
        IF k > 1 /\ cmppri(v[a[k \div 2]], v[a[i]]) THEN {k} \cup up[k \div 2] ELSE {k}
  IN  up[i]

\* The elements passed move one level down, the moving one takes the last place.
bubble_up(a, v, i) ==
  LET path == up_path(a, v, i)
  IN  [d |-> [k \in DOMAIN a |-> IF k \notin path THEN a[k]
                                 ELSE IF k = Min(path) THEN a[i] ELSE a[k \div 2]],
       touched |-> path]

\* Variant: takes the left child without looking at the right one.
maxchild_left(a, v, i) == IF 2 * i > Len(a) THEN 0 ELSE 2 * i

maxchild(a, v, i) ==
  LET c == 2 * i
  IN  IF c > Len(a) THEN 0
      ELSE IF c + 1 <= Len(a) /\ cmppri(v[a[c]], v[a[c + 1]]) THEN c + 1 ELSE c

\* The indices percolate_down(q, i) goes through.
down_path(a, v, i) ==
  LET down[k \in DOMAIN a] ==
        LET c == maxchild(a, v, k)
        IN  IF c # 0 /\ cmppri(v[a[i]], v[a[c]]) THEN {k} \cup down[c] ELSE {k}
  IN  down[i]

percolate_down(a, v, i) ==
  LET path == down_path(a, v, i)
  IN  [d |-> [k \in DOMAIN a |-> IF k \notin path THEN a[k]
                                 ELSE IF k = Max(path) THEN a[i] ELSE a[maxchild(a, v, k)]],
       touched |-> path]

\* The direction in which an element moves that had, or replaced one with,
\* priority old.
sift(a, v, i, old, new) ==
  IF cmppri(old, new) THEN bubble_up(a, v, i) ELSE percolate_down(a, v, i)

\* Variant: only the moving element's position is set, not those it passed.
set_pos_moving(r, l) ==
  [m \in Lines |-> IF m = l /\ \E k \in r.touched : r.d[k] = m
                   THEN CHOOSE k \in r.touched : r.d[k] = m ELSE pos[m]]

\* The positions after a sift that moved l (and others).
set_pos(r, l) ==
  [m \in Lines |-> IF \E k \in r.touched : r.d[k] = m
                   THEN CHOOSE k \in r.touched : r.d[k] = m ELSE pos[m]]

-----------------------------------------------------------------------------
\* advance_write_pointer, mark_page_invalid: a line of p valid pages enters.
pqueue_insert(l, p) ==
  /\ pos[l] = 0
  /\ vpc' = [vpc EXCEPT ![l] = p]
  /\ LET r == bubble_up(Append(d, l), vpc', Len(d) + 1)
     IN  d' = r.d /\ pos' = set_pos(r, l)
  /\ popped' = {}

\* mark_page_invalid, on a queued line.
pqueue_change_priority(l, p) ==
  /\ pos[l] # 0
  /\ vpc' = [vpc EXCEPT ![l] = p]
  /\ LET r == sift(d, vpc', pos[l], vpc[l], p)
     IN  d' = r.d /\ pos' = set_pos(r, l)
  /\ popped' = {}

\* The caller clears the position of a line that left (select_victim_line).
leave_queue(l, p) == [p EXCEPT ![l] = 0]

\* The array once the last element has replaced the one at i, and what sifting
\* makes of it; nothing is left to sift when i was the last.
replace_by_last(i, old) ==
  IF i = Len(d) THEN [d |-> Front(d), touched |-> {}]
  ELSE LET a == Front([d EXCEPT ![i] = Last(d)]) IN sift(a, vpc, i, old, vpc[a[i]])

\* select_victim_line: peek, pop, pos = 0.  pqueue_pop sifts down only.
pqueue_pop ==
  /\ d # <<>>
  /\ LET a == Front([d EXCEPT ![1] = Last(d)])
         r == IF a = <<>> THEN [d |-> <<>>, touched |-> {}] ELSE percolate_down(a, vpc, 1)
     IN  d' = r.d /\ pos' = leave_queue(d[1], set_pos(r, d[1]))
  /\ popped' = {d[1]}
  /\ vpc' = [vpc EXCEPT ![d[1]] = 0]

\* pqueue_remove has no caller in the driver; one would clear pos as above.
pqueue_remove(l) ==
  /\ pos[l] # 0
  /\ LET r == replace_by_last(pos[l], vpc[l])
     IN  d' = r.d /\ pos' = leave_queue(l, set_pos(r, l))
  /\ popped' = {}
  /\ vpc' = [vpc EXCEPT ![l] = 0]

Next ==
  \/ \E l \in Lines, p \in Pri : pqueue_insert(l, p) \/ pqueue_change_priority(l, p)
  \/ pqueue_pop
  \/ \E l \in Lines : pqueue_remove(l)

Spec == Init /\ [][Next]_vars

-----------------------------------------------------------------------------
members == ToSet(d)

\* The heap order of pqueue_is_valid: no child ranks before its parent.
HeapOrder == \A i \in 2 .. Len(d) : ~cmppri(vpc[d[i \div 2]], vpc[d[i]])

\* line->pos is the element's index while it is queued and 0 otherwise, so
\* the FTL's test of pos tells queued lines from others and every change of
\* priority sifts from the right place.  The array never overflows, which
\* pqueue_insert would only log.
PosAgrees ==
  /\ Len(d) <= N
  /\ \A l \in Lines : IF pos[l] = 0 THEN l \notin members
                      ELSE pos[l] <= Len(d) /\ d[pos[l]] = l

Queue == INSTANCE VictimQueue

\* The heap is the set of victim lines ConvFTL works with: nothing is lost or
\* duplicated, and the line popped has the fewest valid pages.
ImplementsVictimQueue == Queue!QueueSpec
=============================================================================
