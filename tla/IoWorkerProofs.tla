--------------------------- MODULE IoWorkerProofs ---------------------------
(***************************************************************************)
(* For a work queue of any length, any number of commands and any          *)
(* latencies: the request list and the free list stay apart, the request   *)
(* list stays sorted ahead of the clock, the worker acts only on requests, *)
(* and data is copied and completions posted exactly once.                 *)
(*                                                                         *)
(* The lists are given by their members in order, q[1] .. q[n] for the     *)
(* request list and f[1] .. f[m] for the free list.                        *)
(***************************************************************************)
EXTENDS IoWorker, FiniteSetTheorems, WellFoundedInduction, TLAPS

\* A set that holds 0 and, with a number below n, its successor, is all of 0 .. n.
LEMMA BoundedInduction ==
  ASSUME NEW n \in Nat, NEW G \in SUBSET (0 .. n), 0 \in G,
         \A i \in 0 .. n - 1 : i \in G => i + 1 \in G
  PROVE  G = 0 .. n
<1> DEFINE F == (0 .. n) \ G
<1>1. SUFFICES ASSUME F # {} PROVE FALSE
  OBVIOUS
<1>2. F \subseteq Nat
  OBVIOUS
<1>3. PICK c \in F : \A d \in F : ~ (<<d, c>> \in OpToRel(<, Nat))
  BY <1>1, <1>2, WFMin, NatLessThanWellFounded
<1>4. c \in 1 .. n /\ c - 1 \in 0 .. n - 1 /\ (c - 1) + 1 = c
  OBVIOUS
<1>5. c - 1 \notin G
  BY <1>4
<1>6. c - 1 \in F /\ c - 1 \in Nat /\ c \in Nat /\ c - 1 < c
  BY <1>4, <1>5
<1>7. <<c - 1, c>> \in OpToRel(<, Nat)
  BY <1>6 DEF OpToRel
<1> QED
  BY <1>3, <1>6, <1>7

\* A set of natural numbers that is not empty has a smallest element.
LEMMA Smallest ==
  ASSUME NEW S \in SUBSET Nat, S # {}
  PROVE  \E x \in S : \A y \in S : x <= y
<1>1. PICK c \in S : \A d \in S : ~ (<<d, c>> \in OpToRel(<, Nat))
  BY WFMin, NatLessThanWellFounded
<1>2. ASSUME NEW y \in S PROVE c <= y
  <2>1. y \in Nat /\ c \in Nat
    OBVIOUS
  <2>2. ~ (y < c)
    BY <1>1, <2>1 DEF OpToRel
  <2> QED BY <2>1, <2>2
<1> QED
  BY <1>2

NR == NR_MAX_PARALLEL_IO

\* q[1] .. q[n] are the different entries of the list that begins with e
List(nx, q, n, e) ==
  /\ n \in 0 .. NR /\ q \in [1 .. n -> Entry]
  /\ n = 0 => e = NIL
  /\ n > 0 => q[1] = e /\ nx[q[n]] = NIL
  /\ \A i \in 1 .. n - 1 : nx[q[i]] = q[i + 1]
  /\ \A i, j \in 1 .. n : q[i] = q[j] => i = j

holding == dpc \in {"fill", "fill_copied", "fill_links", "fill_internal", "fill_buffs",
                    "insert", "walk"}

\* every entry is in one place, and the tails and prev fields are right
Lists(q, n, f, m) ==
  /\ List(next, q, n, io_seq) /\ List(next, f, m, free_seq)
  /\ m > 0 /\ f[m] = free_seq_end
  /\ n > 0 => q[n] = io_seq_end /\ prev[q[1]] = NIL
  /\ \A i \in 1 .. n - 1 : prev[q[i + 1]] = q[i]
  /\ \A i \in 1 .. n : \A j \in 1 .. m : q[i] # f[j]
  /\ holding => /\ \A i \in 1 .. n : q[i] # op.entry
                /\ \A j \in 1 .. m : f[j] # op.entry
  /\ \A e \in Entry : \/ \E i \in 1 .. n : q[i] = e
                      \/ \E j \in 1 .. m : f[j] = e
                      \/ holding /\ op.entry = e
  /\ n + m + (IF holding THEN 1 ELSE 0) = NR

Op == [entry : Entry \union {NIL}, at : Entry \union {NIL}, req : 0 .. NREQ,
       target : 0 .. MAXT, internal : BOOLEAN]

\* the operations of the command at hand that have no entry yet
Todo ==
  /\ \/ todo = <<>>
     \/ /\ sq_next > 1
        /\ \E b \in Op : ~b.internal /\ b.req = sq_next - 1 /\ todo = <<b>>
     \/ /\ sq_next > 1 /\ dpc = "allocate"
        /\ \E a, b \in Op : /\ a.internal /\ a.req = sq_next - 1
                            /\ ~b.internal /\ b.req = sq_next - 1
                            /\ todo = <<a, b>>
  /\ dpc = "allocate" => todo # <<>>
  /\ dpc \in {"idle", "reclaim"} => todo = <<>>
  /\ holding => /\ sq_next > 1 /\ op.req = sq_next - 1
                /\ ~op.internal => todo = <<>>

\* what is filled in of the entry in the dispatcher's hand
Hand ==
  holding =>
    /\ op.entry \in Entry
    /\ dpc # "fill" =>
         /\ nsecs_target[op.entry] = op.target
         /\ ~op.internal => id[op.entry] = op.req
         /\ ~overtaken => ~is_completed[op.entry]
    /\ dpc \notin {"fill", "fill_copied"} =>
         (~overtaken => is_copied[op.entry] = op.internal)
    /\ dpc \notin {"fill", "fill_copied", "fill_links"} =>
         next[op.entry] = NIL /\ prev[op.entry] = NIL
    /\ dpc \in {"fill_buffs", "insert", "walk"} => is_internal[op.entry] = op.internal
    /\ dpc \in {"insert", "walk"} /\ op.internal => buffs_of[op.entry] = op.req

\* the dispatcher has walked past entries with a later target only
Walking(q, n) ==
  dpc = "walk" =>
    /\ n > 0
    /\ op.at = NIL => op.target < nsecs_target[q[1]]
    /\ op.at # NIL => \E i \in 1 .. n : q[i] = op.at
    /\ \A i \in 1 .. n - 1 : q[i] = op.at => op.target < nsecs_target[q[i + 1]]

Sorted(q, n) ==
  \A i \in 1 .. n - 1 : \/ nsecs_target[q[i]] <= nsecs_target[q[i + 1]]
                        \/ nsecs_target[q[i]] <= latest_nsecs

Clock ==
  /\ latest_nsecs <= now
  /\ wpc \notin {"pass", "check"} => curr_nsecs = latest_nsecs
  /\ wpc = "pass" <=> curr = NIL

\* A worker that was not overtaken is on the request list, or on a part of the
\* free list in which all entries were completed; it works on requests that are
\* not completed.
Position(q, n, f, m) ==
  ~overtaken =>
    /\ wpc # "pass" =>
         \/ \E i \in 1 .. n : q[i] = curr
         \/ \E k \in 1 .. m : f[k] = curr /\ \A j \in k .. m : is_completed[f[j]]
    /\ wpc \in {"copy", "due", "mark"} =>
         (\E i \in 1 .. n : q[i] = curr) /\ ~is_completed[curr]
    /\ wpc = "copy" => ~is_copied[curr]
    /\ wpc \in {"due", "mark"} => is_copied[curr]
    /\ wpc = "mark" => nsecs_target[curr] <= latest_nsecs

\* an operation of this kind still waits for its entry to be linked
pending(i) ==
  \/ \E k \in DOMAIN todo : todo[k].internal = i
  \/ holding /\ op.internal = i

is_done(e) == is_completed[e] \/ (wpc = "mark" /\ curr = e)

one(b) == IF b THEN 1 ELSE 0

Requests ==
  ~overtaken =>
    /\ \A r \in Req : copied[r] <= 1 /\ posted[r] <= copied[r] /\ released[r] <= 1
    /\ \A r \in Req : r >= sq_next => copied[r] = 0 /\ posted[r] = 0 /\ released[r] = 0
    /\ \A r \in Req : r = sq_next - 1 =>
         /\ pending(FALSE) => copied[r] = 0 /\ posted[r] = 0
         /\ pending(TRUE) => released[r] = 0

\* what has been done for the operations on the request list, whose entries are Q
Commands(Q) ==
  ~overtaken =>
    /\ \A e \in Q : ~is_internal[e] =>
         /\ id[e] \in 1 .. sq_next - 1
         /\ pending(FALSE) => id[e] # sq_next - 1
         /\ copied[id[e]] = one(is_copied[e])
         /\ posted[id[e]] = one(is_done(e))
         /\ \A d \in Q : d # e /\ ~is_internal[d] => id[d] # id[e]
    /\ \A e \in Q : is_internal[e] =>
         /\ is_copied[e]
         /\ buffs_of[e] \in 1 .. sq_next - 1
         /\ pending(TRUE) => buffs_of[e] # sq_next - 1
         /\ released[buffs_of[e]] = one(is_done(e))
         /\ \A d \in Q : d # e /\ is_internal[d] => buffs_of[d] # buffs_of[e]
    /\ \A e \in Q : is_completed[e] => is_copied[e] /\ nsecs_target[e] <= latest_nsecs

members(q, n) == {q[i] : i \in 1 .. n}

Types == TypeOK /\ op \in Op /\ overtaken \in BOOLEAN /\ Todo /\ Hand /\ Clock

\* the invariant, for lists with these members
With(q, n, f, m) ==
  /\ Lists(q, n, f, m) /\ Walking(q, n) /\ Sorted(q, n)
  /\ Position(q, n, f, m) /\ Requests /\ Commands(members(q, n))

IInv == Types /\ \E q, n, f, m : With(q, n, f, m)

-----------------------------------------------------------------------------
(* Lists.                                                                  *)

LEMMA Sizes == NR \in Nat /\ NR >= 2 /\ Entry = 0 .. NR - 1 /\ NIL \notin Entry
               /\ NREQ \in Nat /\ MAXT \in Nat /\ Delay \subseteq Nat
BY QueueAssumption DEF NR, Entry, NIL

\* A function on 1 .. n is a sequence of length n.
LEMMA LenIs ==
  ASSUME NEW n \in Nat, NEW S, NEW q \in [1 .. n -> S]
  PROVE  Len(q) = n /\ q \in Seq(S)
OBVIOUS

\* chain follows the next fields: it finds the members of a list.
LEMMA ListChain ==
  ASSUME NEW nx, NEW q, NEW n, NEW e, List(nx, q, n, e)
  PROVE  chain(nx, e) = q /\ Len(q) = n
<1> DEFINE body(s, k) == IF k = 0 THEN e ELSE IF s[k - 1] = NIL THEN NIL ELSE nx[s[k - 1]]
           want == [k \in 0 .. NR |-> IF k < n THEN q[k + 1] ELSE NIL]
           step == CHOOSE s : s = [k \in 0 .. NR |-> body(s, k)]
<1>1. /\ n \in Nat /\ n <= NR /\ NR \in Nat /\ NIL \notin Entry
      /\ \A i \in 1 .. n : q[i] \in Entry
      /\ q \in [1 .. n -> Entry]
  BY Sizes DEF List
<1>2. ASSUME NEW k \in 0 .. NR PROVE want[k] = body(want, k)
  <2>1. CASE k = 0
    BY <1>1, <2>1 DEF List
  <2>2. CASE k > 0 /\ k < n
    <3>1. want[k - 1] = q[k] /\ k \in 1 .. n - 1 /\ want[k] = q[k + 1] /\ q[k] # NIL
      BY <1>1, <2>2
    <3> HIDE DEF want
    <3> QED BY <3>1, <2>2 DEF List
  <2>3. CASE k > 0 /\ k = n
    <3>1. want[k - 1] = q[n] /\ want[k] = NIL /\ q[n] # NIL
      BY <1>1, <2>3
    <3> HIDE DEF want
    <3> QED BY <3>1, <2>3 DEF List
  <2>4. CASE k > 0 /\ k > n
    <3>1. want[k - 1] = NIL /\ want[k] = NIL
      BY <1>1, <2>4
    <3> HIDE DEF want
    <3> QED BY <3>1, <2>4
  <2> QED BY <1>1, <2>1, <2>2, <2>3, <2>4
<1>3. want = [k \in 0 .. NR |-> body(want, k)]
  <2> HIDE DEF body
  <2> QED BY <1>2
<1>4. step = [k \in 0 .. NR |-> body(step, k)]
  <2> HIDE DEF body, want
  <2> QED BY <1>3
<1>5. \A k \in 0 .. NR : step[k] = body(step, k)
  <2> HIDE DEF body, step
  <2> QED BY <1>4
<1> DEFINE Good == {k \in 0 .. NR : step[k] = want[k]}
<1>6. 0 \in Good
  <2>1. step[0] = e /\ want[0] = e
    <3> HIDE DEF step, want
    <3> QED BY <1>1, <1>2, <1>5
  <2> HIDE DEF step, want
  <2> QED BY <2>1, <1>1
<1>7. ASSUME NEW k \in 0 .. NR - 1, k \in Good PROVE k + 1 \in Good
  <2>1. k + 1 \in 0 .. NR /\ (k + 1) - 1 = k /\ k + 1 # 0
    BY <1>1
  <2>2. body(step, k + 1) = body(want, k + 1)
    <3> HIDE DEF step, want
    <3> QED BY <2>1, <1>7
  <2> HIDE DEF step, want, body
  <2> QED BY <2>1, <2>2, <1>2, <1>5
<1>8. Good = 0 .. NR
  <2>1. Good \in SUBSET (0 .. NR)
    OBVIOUS
  <2> HIDE DEF Good
  <2> QED BY <1>1, <1>6, <1>7, <2>1, BoundedInduction
<1>9. \A k \in 0 .. NR : step[k] = IF k < n THEN q[k + 1] ELSE NIL
  <2>1. \A k \in 0 .. NR : step[k] = want[k]
    <3> HIDE DEF step, want
    <3> QED BY <1>8
  <2> HIDE DEF step
  <2> QED BY <2>1
<1> DEFINE good(k) == (step[k] = NIL \/ k = NR) /\ \A j \in 0 .. k - 1 : step[j] # NIL
           upto == CHOOSE k \in 0 .. NR : good(k)
<1>10. chain(nx, e) = [k \in 1 .. upto |-> step[k - 1]]
  BY DEF chain, NR
<1> HIDE DEF step
<1>11. n \in 0 .. NR /\ good(n)
  BY <1>1, <1>9
<1>12. ASSUME NEW k \in 0 .. NR, good(k) PROVE k = n
  <2>1. CASE k < n
    <3>1. step[k] = NIL
      BY <1>1, <1>12, <2>1
    <3>2. step[k] = q[k + 1] /\ k + 1 \in 1 .. n
      BY <1>1, <1>9, <2>1
    <3> QED BY <3>1, <3>2, <1>1
  <2>2. CASE k > n
    <3>1. n \in 0 .. k - 1 /\ step[n] = NIL
      BY <1>1, <1>9, <2>2
    <3> QED BY <3>1, <1>12
  <2> QED BY <1>1, <2>1, <2>2
<1>13. upto = n
  <2> HIDE DEF good
  <2> QED BY <1>11, <1>12
<1>14. chain(nx, e) = [k \in 1 .. n |-> q[k]]
  <2>1. ASSUME NEW k \in 1 .. n PROVE step[k - 1] = q[k]
    BY <1>1, <1>9
  <2> HIDE DEF upto
  <2> QED BY <1>10, <1>13, <2>1
<1>15. chain(nx, e) = q
  BY <1>1, <1>14
<1> QED
  BY <1>15, <1>1, LenIs

-----------------------------------------------------------------------------
(* What a step leaves alone.                                               *)

LEMMA ListsFrame ==
  ASSUME NEW q, NEW n, NEW f, NEW m, Lists(q, n, f, m), UNCHANGED <<links, seqs>>,
         holding' = holding, holding => op'.entry = op.entry
  PROVE  Lists(q, n, f, m)'
BY DEF Lists, List, links, seqs

LEMMA WalkingFrame ==
  ASSUME NEW q, NEW n, Walking(q, n), UNCHANGED <<dpc, op, nsecs_target>>
  PROVE  Walking(q, n)'
BY DEF Walking

LEMMA NotWalking ==
  ASSUME NEW q, NEW n, dpc' # "walk"
  PROVE  Walking(q, n)'
BY DEF Walking

LEMMA SortedFrame ==
  ASSUME NEW q, NEW n, n \in Nat, q \in [1 .. n -> Entry],
         nsecs_target \in [Entry -> 0 .. MAXT], latest_nsecs \in 0 .. MAXT,
         Sorted(q, n), UNCHANGED nsecs_target,
         latest_nsecs' \in 0 .. MAXT, latest_nsecs <= latest_nsecs'
  PROVE  Sorted(q, n)'
<1> SUFFICES ASSUME NEW i \in 1 .. n - 1
             PROVE  \/ nsecs_target[q[i]] <= nsecs_target[q[i + 1]]
                    \/ nsecs_target[q[i]] <= latest_nsecs'
  BY DEF Sorted
<1>1. nsecs_target[q[i]] \in 0 .. MAXT
  OBVIOUS
<1> QED
  BY <1>1, Sizes DEF Sorted

LEMMA PositionFrame ==
  ASSUME NEW q, NEW n, NEW f, NEW m, Position(q, n, f, m),
         UNCHANGED <<wpc, curr, is_completed, is_copied, nsecs_target, latest_nsecs, overtaken>>
  PROVE  Position(q, n, f, m)'
BY DEF Position

LEMMA PendingFrame ==
  ASSUME UNCHANGED <<todo, holding, op>>, NEW i
  PROVE  pending(i)' = pending(i)
BY DEF pending

LEMMA RequestsFrame ==
  ASSUME Requests, UNCHANGED <<sq_next, copied, posted, released, overtaken>>,
         \A i \in BOOLEAN : pending(i)' => pending(i)
  PROVE  Requests'
BY DEF Requests

LEMMA CommandsFrame ==
  ASSUME NEW Q \in SUBSET Entry, Commands(Q),
         nsecs_target \in [Entry -> 0 .. MAXT], latest_nsecs \in 0 .. MAXT,
         latest_nsecs' \in 0 .. MAXT, latest_nsecs <= latest_nsecs',
         UNCHANGED <<sq_next, copied, posted, released, overtaken, work>>,
         \A e \in Q : is_done(e)' = is_done(e),
         \A i \in BOOLEAN : pending(i)' => pending(i)
  PROVE  Commands(Q)'
<1>1. \A e \in Q : nsecs_target[e] <= latest_nsecs => nsecs_target[e] <= latest_nsecs'
  <2> TAKE e \in Q
  <2>1. nsecs_target[e] \in 0 .. MAXT
    OBVIOUS
  <2> QED BY <2>1, Sizes
<1> HIDE DEF is_done, pending, one
<1> QED
  BY <1>1 DEF Commands, work

-----------------------------------------------------------------------------
(* The worker.                                                             *)

\* The parts of the state in one place.
LEMMA Facts ==
  ASSUME NEW q, NEW n, NEW f, NEW m, Types, With(q, n, f, m)
  PROVE  /\ n \in Nat /\ m \in Nat /\ m > 0 /\ n <= NR /\ m <= NR
         /\ q \in [1 .. n -> Entry] /\ f \in [1 .. m -> Entry]
         /\ members(q, n) \in SUBSET Entry
         /\ nsecs_target \in [Entry -> 0 .. MAXT] /\ latest_nsecs \in 0 .. MAXT
         /\ is_completed \in [Entry -> BOOLEAN] /\ is_copied \in [Entry -> BOOLEAN]
         /\ next \in [Entry -> Entry \union {NIL}] /\ prev \in [Entry -> Entry \union {NIL}]
         /\ op \in Op
<1>1. n \in Nat /\ m \in Nat /\ m > 0 /\ q \in [1 .. n -> Entry] /\ f \in [1 .. m -> Entry]
      /\ n <= NR /\ m <= NR
  BY Sizes DEF With, Lists, List
<1>2. members(q, n) \in SUBSET Entry
  BY <1>1 DEF members
<1> QED
  BY <1>1, <1>2 DEF Types, TypeOK

LEMMA TickStep ==
  ASSUME NEW q, NEW n, NEW f, NEW m, Types, With(q, n, f, m), Tick
  PROVE  Types' /\ With(q, n, f, m)'
<1>1. UNCHANGED <<work, links, seqs, disp, worker, effects>> /\ now' = now + 1 /\ now' \in 0 .. MAXT
  BY Sizes DEF Tick, Types, TypeOK
<1>2. TypeOK'
  BY <1>1 DEF Types, TypeOK, work, links, seqs, disp, worker, effects
<1>3. Todo' /\ Hand' /\ (op \in Op)' /\ (overtaken \in BOOLEAN)'
  BY <1>1 DEF Types, Todo, Hand, holding, work, links, disp, effects
<1>4. Clock'
  <2>1. latest_nsecs \in Nat /\ now \in Nat /\ latest_nsecs <= now
    BY Sizes DEF Types, TypeOK, Clock
  <2> QED BY <1>1, <2>1 DEF Types, Clock, worker
<1>5. holding' = holding /\ \A i \in BOOLEAN : pending(i)' = pending(i)
  BY <1>1 DEF holding, pending, disp
<1>6. Lists(q, n, f, m)' /\ Walking(q, n)'
  BY <1>1, <1>5, ListsFrame, WalkingFrame DEF With, disp, work
<1>7. Sorted(q, n)'
  <2>1. /\ n \in Nat /\ q \in [1 .. n -> Entry] /\ Sorted(q, n)
        /\ nsecs_target \in [Entry -> 0 .. MAXT] /\ latest_nsecs \in 0 .. MAXT
    BY Facts DEF With
  <2>2. UNCHANGED <<nsecs_target, latest_nsecs>>
    BY <1>1 DEF work, worker
  <2>3. latest_nsecs' \in 0 .. MAXT /\ latest_nsecs <= latest_nsecs'
    BY <2>1, <2>2, Sizes
  <2> QED BY <2>1, <2>2, <2>3, SortedFrame
<1>8. Position(q, n, f, m)'
  BY <1>1, PositionFrame DEF With, work, worker, effects
<1>9. Requests'
  BY <1>1, <1>5, RequestsFrame DEF With, disp, effects
<1>10. Commands(members(q, n))'
  <2>1. \A e : is_done(e)' = is_done(e)
    BY <1>1 DEF is_done, work, worker
  <2> QED BY <1>1, <1>5, <2>1, Facts, CommandsFrame DEF With, disp, effects, worker, work, members
<1> QED
  BY <1>2, <1>3, <1>4, <1>6, <1>7, <1>8, <1>9, <1>10 DEF Types, With

\* The worker changes neither the lists nor the place of the dispatcher.
LEMMA WorkerFrame ==
  ASSUME NEW q, NEW n, NEW f, NEW m, Types, With(q, n, f, m),
         UNCHANGED <<links, seqs, disp, nsecs_target>>
  PROVE  /\ Lists(q, n, f, m)' /\ Walking(q, n)' /\ Todo' /\ (op \in Op)'
         /\ holding' = holding /\ \A i \in BOOLEAN : pending(i)' = pending(i)
<1>1. holding' = holding /\ \A i \in BOOLEAN : pending(i)' = pending(i)
  BY DEF holding, pending, disp
<1>2. Lists(q, n, f, m)' /\ Walking(q, n)'
  BY <1>1, ListsFrame, WalkingFrame DEF With, disp
<1>3. Todo' /\ (op \in Op)'
  BY DEF Types, Todo, holding, disp
<1> QED
  BY <1>1, <1>2, <1>3

\* A step of the worker that only moves it.
LEMMA WorkerMoves ==
  ASSUME NEW q, NEW n, NEW f, NEW m, Types, With(q, n, f, m),
         UNCHANGED <<now, work, links, seqs, disp, effects>>,
         latest_nsecs' \in 0 .. MAXT, latest_nsecs <= latest_nsecs', TypeOK', Clock',
         Position(q, n, f, m)', wpc # "mark", wpc' # "mark"
  PROVE  Types' /\ With(q, n, f, m)'
<1>1. UNCHANGED nsecs_target
  BY DEF work
<1>2. Lists(q, n, f, m)' /\ Walking(q, n)' /\ Todo' /\ (op \in Op)'
      /\ holding' = holding /\ \A i \in BOOLEAN : pending(i)' = pending(i)
  BY <1>1, WorkerFrame
<1>3. Hand' /\ (overtaken \in BOOLEAN)'
  BY <1>2 DEF Types, Hand, work, links, disp, effects
<1>4. Sorted(q, n)'
  BY <1>1, Facts, SortedFrame DEF With
<1>5. Requests'
  BY <1>2, RequestsFrame DEF With, disp, effects
<1>6. \A e : is_done(e)' = is_done(e)
  BY DEF is_done, work
<1>7. Commands(members(q, n))'
  BY <1>2, <1>6, Facts, CommandsFrame DEF With, disp, effects, members
<1> QED
  BY <1>2, <1>3, <1>4, <1>5, <1>7 DEF Types, With

LEMMA PassBeginStep ==
  ASSUME NEW q, NEW n, NEW f, NEW m, Types, With(q, n, f, m), PassBegin
  PROVE  Types' /\ With(q, n, f, m)'
<1>1. io_seq # NIL /\ wpc = "pass" /\ wpc' = "check" /\ curr' = io_seq
      /\ UNCHANGED <<now, work, links, seqs, disp, latest_nsecs, curr_nsecs, effects>>
  BY DEF PassBegin
<1>2. n > 0 /\ q[1] = io_seq
  BY <1>1, Facts DEF With, Lists, List
<1>3. TypeOK'
  BY <1>1 DEF Types, TypeOK, work, links, seqs, disp, effects
<1>4. Clock'
  BY <1>1, Sizes DEF Types, Clock, TypeOK
<1>5. Position(q, n, f, m)'
  <2>1. 1 \in 1 .. n
    BY <1>2, Facts
  <2> QED BY <1>1, <1>2, <2>1 DEF Position
<1>6. latest_nsecs' \in 0 .. MAXT /\ latest_nsecs <= latest_nsecs'
  BY <1>1, Sizes DEF Types, TypeOK
<1> QED
  BY <1>1, <1>3, <1>4, <1>5, <1>6, WorkerMoves

LEMMA CheckStep ==
  ASSUME NEW q, NEW n, NEW f, NEW m, Types, With(q, n, f, m), Check
  PROVE  Types' /\ With(q, n, f, m)'
<1>1. /\ wpc = "check" /\ curr_nsecs' = now /\ latest_nsecs' = now
      /\ wpc' = IF is_completed[curr] THEN "advance"
                ELSE IF is_copied[curr] THEN "due" ELSE "copy"
      /\ UNCHANGED <<now, work, links, seqs, disp, curr, effects>>
  BY DEF Check
<1>2. curr \in Entry /\ latest_nsecs <= now /\ now \in 0 .. MAXT
  BY <1>1 DEF Types, TypeOK, Clock
<1>3. TypeOK'
  BY <1>1, <1>2 DEF Types, TypeOK, work, links, seqs, disp, effects
<1>4. Clock'
  BY <1>1, <1>2, Sizes DEF Types, Clock
<1>5. Position(q, n, f, m)'
  <2> SUFFICES ASSUME ~overtaken
               PROVE  Position(q, n, f, m)'
    BY <1>1 DEF Position, effects
  <2>1. \/ \E i \in 1 .. n : q[i] = curr
        \/ \E k \in 1 .. m : f[k] = curr /\ \A j \in k .. m : is_completed[f[j]]
    BY <1>1 DEF With, Position
  <2>2. ~is_completed[curr] => \E i \in 1 .. n : q[i] = curr
    <3> SUFFICES ASSUME NEW k \in 1 .. m, f[k] = curr, \A j \in k .. m : is_completed[f[j]]
                 PROVE  is_completed[curr]
      BY <2>1
    <3>1. k \in k .. m
      BY Facts
    <3> QED BY <3>1
  <2> QED BY <1>1, <2>1, <2>2 DEF Position, work
<1> QED
  BY <1>1, <1>2, <1>3, <1>4, <1>5, WorkerMoves

LEMMA NotDueStep ==
  ASSUME NEW q, NEW n, NEW f, NEW m, Types, With(q, n, f, m), NotDue
  PROVE  Types' /\ With(q, n, f, m)'
<1>1. /\ wpc = "due" /\ wpc' = "advance"
      /\ UNCHANGED <<now, work, links, seqs, disp, curr, curr_nsecs, latest_nsecs, effects>>
  BY DEF NotDue
<1>2. curr \in Entry /\ latest_nsecs' \in 0 .. MAXT /\ latest_nsecs <= latest_nsecs'
  BY <1>1, Sizes DEF Types, TypeOK
<1>3. TypeOK'
  BY <1>1, <1>2 DEF Types, TypeOK, work, links, seqs, disp, effects
<1>4. Clock'
  BY <1>1 DEF Types, Clock
<1>5. Position(q, n, f, m)'
  BY <1>1 DEF With, Position, work, effects
<1> QED
  BY <1>1, <1>2, <1>3, <1>4, <1>5, WorkerMoves

\* The worker walks on along the list it is on.
LEMMA AdvanceStep ==
  ASSUME NEW q, NEW n, NEW f, NEW m, Types, With(q, n, f, m), Advance
  PROVE  Types' /\ With(q, n, f, m)'
<1>1. /\ wpc = "advance" /\ curr' = next[curr] /\ curr_nsecs' = 0
      /\ wpc' = IF next[curr] = NIL THEN "pass" ELSE "check"
      /\ UNCHANGED <<now, work, links, seqs, disp, latest_nsecs, effects>>
  BY DEF Advance
<1>2. /\ curr \in Entry /\ latest_nsecs' \in 0 .. MAXT /\ latest_nsecs <= latest_nsecs'
      /\ next[curr] \in Entry \union {NIL}
  BY <1>1, Sizes DEF Types, TypeOK
<1>3. TypeOK'
  <2>1. 0 \in 0 .. MAXT
    BY Sizes
  <2> QED BY <1>1, <1>2, <2>1 DEF Types, TypeOK, work, links, seqs, disp, effects
<1>4. Clock'
  BY <1>1 DEF Types, Clock
<1>5. Position(q, n, f, m)'
  <2> SUFFICES ASSUME ~overtaken, next[curr] # NIL
               PROVE  \/ \E i \in 1 .. n : q[i] = next[curr]
                      \/ \E k \in 1 .. m : /\ f[k] = next[curr]
                                           /\ \A j \in k .. m : is_completed[f[j]]
    BY <1>1 DEF Position, effects, work
  <2>1. \/ \E i \in 1 .. n : q[i] = curr
        \/ \E k \in 1 .. m : f[k] = curr /\ \A j \in k .. m : is_completed[f[j]]
    BY <1>1 DEF With, Position
  <2>2. ASSUME NEW i \in 1 .. n, q[i] = curr PROVE \E j \in 1 .. n : q[j] = next[curr]
    <3>1. i # n
      BY <2>2 DEF With, Lists, List
    <3>2. i \in 1 .. n - 1 /\ i + 1 \in 1 .. n
      BY <3>1, Facts
    <3> QED BY <2>2, <3>2 DEF With, Lists, List
  <2>3. ASSUME NEW k \in 1 .. m, f[k] = curr, \A j \in k .. m : is_completed[f[j]]
        PROVE  \E l \in 1 .. m : f[l] = next[curr] /\ \A j \in l .. m : is_completed[f[j]]
    <3>1. k # m
      BY <2>3 DEF With, Lists, List
    <3>2. k \in 1 .. m - 1 /\ k + 1 \in 1 .. m /\ \A j \in k + 1 .. m : j \in k .. m
      BY <3>1, Facts
    <3>3. f[k + 1] = next[curr]
      BY <2>3, <3>2 DEF With, Lists, List
    <3> QED BY <2>3, <3>2, <3>3
  <2> QED BY <2>1, <2>2, <2>3
<1> QED
  BY <1>1, <1>2, <1>3, <1>4, <1>5, WorkerMoves

\* Counting one up, also for an index the counters do not have.
LEMMA Increment ==
  ASSUME NEW S, NEW g \in [S -> Nat], NEW x
  PROVE  [g EXCEPT ![x] = @ + 1] \in [S -> Nat]
<1>1. CASE x \in S
  BY <1>1
<1>2. CASE x \notin S
  BY <1>2
<1> QED
  BY <1>1, <1>2

\* What the worker works on is a request that is not completed.
LEMMA AtWork ==
  ASSUME NEW q, NEW n, NEW f, NEW m, Types, With(q, n, f, m), ~overtaken,
         wpc \in {"copy", "due", "mark"}
  PROVE  /\ curr \in members(q, n) /\ curr \in Entry /\ ~is_completed[curr]
         /\ holding => op.entry # curr
<1>1. PICK i \in 1 .. n : q[i] = curr
  BY DEF With, Position
<1> QED
  BY <1>1, Facts DEF With, Position, Lists, members

LEMMA CopyStep ==
  ASSUME NEW q, NEW n, NEW f, NEW m, Types, With(q, n, f, m), Copy
  PROVE  Types' /\ With(q, n, f, m)'
<1> DEFINE Q == members(q, n)
<1>1. /\ wpc = "copy" /\ wpc' = "due"
      /\ copied' = IF is_internal[curr] \/ id[curr] = 0 THEN copied
                   ELSE [copied EXCEPT ![id[curr]] = @ + 1]
      /\ is_copied' = [is_copied EXCEPT ![curr] = TRUE]
      /\ UNCHANGED <<now, id, nsecs_target, is_completed, is_internal, buffs_of, links, seqs, disp,
                     curr, curr_nsecs, latest_nsecs, posted, released, dropped, overtaken>>
  BY DEF Copy
<1>2. curr \in Entry /\ id[curr] \in 0 .. NREQ /\ is_internal[curr] \in BOOLEAN
  BY <1>1 DEF Types, TypeOK
<1>3. TypeOK'
  <2>1. copied' \in [Req -> Nat]
    <3>1. copied \in [Req -> Nat]
      BY DEF Types, TypeOK
    <3> QED BY <1>1, <3>1, Increment
  <2> QED BY <1>1, <1>2, <2>1 DEF Types, TypeOK, links, seqs, disp
<1>4. Lists(q, n, f, m)' /\ Walking(q, n)' /\ Todo' /\ (op \in Op)'
      /\ holding' = holding /\ \A i \in BOOLEAN : pending(i)' = pending(i)
  BY <1>1, WorkerFrame
<1>5. Clock' /\ (overtaken \in BOOLEAN)'
  BY <1>1 DEF Types, Clock
<1>6. Sorted(q, n)'
  <2>1. latest_nsecs' \in 0 .. MAXT /\ latest_nsecs <= latest_nsecs'
    BY <1>1, Facts, Sizes
  <2> QED BY <1>1, <2>1, Facts, SortedFrame DEF With
<1>7. CASE overtaken
  <2>1. Hand'
    BY <1>1, <1>4, <1>7 DEF Types, Hand, links, disp
  <2>2. Position(q, n, f, m)' /\ Requests' /\ Commands(Q)'
    BY <1>1, <1>7 DEF Position, Requests, Commands
  <2> QED BY <2>1, <2>2, <1>3, <1>4, <1>5, <1>6 DEF Types, With
<1>8. CASE ~overtaken
  <2>1. curr \in Q /\ ~is_completed[curr] /\ (holding => op.entry # curr) /\ ~is_copied[curr]
    BY <1>1, <1>8, AtWork DEF With, Position
  <2>2. ~is_internal[curr]
    BY <1>8, <2>1 DEF With, Commands
  <2>3. /\ id[curr] \in 1 .. sq_next - 1
        /\ pending(FALSE) => id[curr] # sq_next - 1
        /\ copied[id[curr]] = 0
        /\ posted[id[curr]] = 0
        /\ \A d \in Q : d # curr /\ ~is_internal[d] => id[d] # id[curr]
    BY <1>1, <1>8, <2>1, <2>2 DEF With, Commands, one, is_done
  <2>4. id[curr] \in Req /\ sq_next \in 1 .. NREQ + 1
    <3>1. sq_next \in 1 .. NREQ + 1
      BY DEF Types, TypeOK
    <3>2. id[curr] \in 1 .. sq_next - 1 /\ NREQ \in Nat
      BY <2>3, Sizes
    <3> QED BY <3>1, <3>2 DEF Req
  <2>5. \A r \in Req : copied'[r] = IF r = id[curr] THEN 1 ELSE copied[r]
    <3>1. copied' = [copied EXCEPT ![id[curr]] = copied[id[curr]] + 1]
      BY <1>1, <2>2, <2>3, <1>2
    <3>2. copied[id[curr]] + 1 = 1
      BY <2>3
    <3>3. copied \in [Req -> Nat]
      BY DEF Types, TypeOK
    <3> QED BY <3>1, <3>2, <3>3, <2>4
  <2>6. \A e \in Entry : is_copied'[e] = IF e = curr THEN TRUE ELSE is_copied[e]
    BY <1>1, <1>2 DEF Types, TypeOK
  <2>7. Hand'
    BY <1>1, <1>4, <1>8, <2>1, <2>6 DEF Types, Hand, links, disp
  <2>8. Position(q, n, f, m)'
    <3>1. is_copied'[curr] /\ \E i \in 1 .. n : q[i] = curr
      BY <1>2, <2>1, <2>6 DEF members
    <3> QED BY <1>1, <1>8, <2>1, <3>1 DEF Position
  <2>9. Requests'
    <3>1. \A r \in Req : copied'[r] <= 1 /\ posted[r] <= copied'[r]
      BY <1>8, <2>3, <2>4, <2>5 DEF With, Requests
    <3>2. \A r \in Req : r >= sq_next \/ (r = sq_next - 1 /\ pending(FALSE)) => copied'[r] = copied[r]
      <4>1. \A r \in Req : r >= sq_next => r # id[curr]
        BY <2>3, <2>4, Sizes DEF Req
      <4>2. \A r \in Req : r = sq_next - 1 /\ pending(FALSE) => r # id[curr]
        BY <2>3, Zenon
      <4> QED BY <4>1, <4>2, <2>5, Zenon
    <3>3. UNCHANGED <<posted, released, sq_next, overtaken>>
      BY <1>1 DEF disp
    <3> HIDE DEF pending
    <3> QED BY <1>4, <1>8, <3>1, <3>2, <3>3 DEF With, Requests
  <2>10. Commands(Q)'
    <3>1. \A e \in Q : e \in Entry
      BY Facts
    <3>2. \A e : is_done(e)' = is_done(e)
      BY <1>1 DEF is_done
    <3>3. UNCHANGED <<id, buffs_of, is_internal, is_completed, nsecs_target, latest_nsecs, posted, released,
                     sq_next, overtaken>>
      BY <1>1 DEF disp
    <3>4. ASSUME NEW e \in Q, ~is_internal[e]
          PROVE  copied'[id[e]] = one(is_copied'[e])
      <4>1. CASE e = curr
        BY <1>2, <2>4, <2>5, <2>6, <4>1 DEF one
      <4>2. CASE e # curr
        <5>1. id[e] \in Req /\ id[e] # id[curr]
          <6>1. id[e] \in 1 .. sq_next - 1
            BY <1>8, <3>4 DEF With, Commands
          <6>2. id[e] \in Req
            BY <6>1, <2>4, Sizes DEF Req
          <6> QED BY <6>2, <2>3, <3>4, <4>2
        <5>2. copied'[id[e]] = copied[id[e]] /\ is_copied'[e] = is_copied[e]
          BY <5>1, <4>2, <3>1, <2>5, <2>6
        <5> QED BY <5>2, <1>8, <3>4 DEF With, Commands
      <4> QED BY <4>1, <4>2
    <3>5. \A e \in Q : is_copied[e] => is_copied'[e]
      BY <2>6, <3>1
    <3> HIDE DEF pending, is_done, one, Q
    <3> QED BY <1>4, <1>8, <3>2, <3>3, <3>4, <3>5 DEF With, Commands, Q
  <2> QED BY <2>7, <2>8, <2>9, <2>10, <1>3, <1>4, <1>5, <1>6 DEF Types, With
<1> QED
  BY <1>7, <1>8

\* Only one request at a time is done and not yet marked.
LEMMA DoneOnly ==
  ASSUME NEW Q \in SUBSET Entry, curr \in Entry, wpc = "due", wpc' = "mark", ~is_completed[curr],
         is_completed \in [Entry -> BOOLEAN],
         UNCHANGED <<curr, is_completed>>, NEW e \in Q
  PROVE  is_done(e)' = IF e = curr THEN TRUE ELSE is_done(e)
BY DEF is_done

LEMMA CompleteStep ==
  ASSUME NEW q, NEW n, NEW f, NEW m, Types, With(q, n, f, m), Complete
  PROVE  Types' /\ With(q, n, f, m)'
<1> DEFINE Q == members(q, n)
<1>1. /\ wpc = "due" /\ wpc' = "mark" /\ nsecs_target[curr] <= curr_nsecs
      /\ IF is_internal[curr]
         THEN /\ released' = [released EXCEPT ![buffs_of[curr]] = @ + 1]
              /\ UNCHANGED posted
         ELSE /\ posted' = [posted EXCEPT ![id[curr]] = @ + 1]
              /\ UNCHANGED released
      /\ UNCHANGED <<now, work, links, seqs, disp, curr, curr_nsecs, latest_nsecs, copied, dropped,
                     overtaken>>
  BY DEF Complete
<1>2. curr \in Entry /\ id[curr] \in 0 .. NREQ /\ is_internal[curr] \in BOOLEAN
  BY <1>1 DEF Types, TypeOK
<1>3. TypeOK'
  <2>0. posted \in [Req -> Nat] /\ released \in [Req -> Nat]
    BY DEF Types, TypeOK
  <2>1. posted' \in [Req -> Nat] /\ released' \in [Req -> Nat]
    <3>1. CASE is_internal[curr]
      BY <1>1, <2>0, <3>1, Increment
    <3>2. CASE ~is_internal[curr]
      BY <1>1, <2>0, <3>2, Increment
    <3> QED BY <3>1, <3>2
  <2> QED BY <1>1, <1>2, <2>1 DEF Types, TypeOK, work, links, seqs, disp
<1>4. Lists(q, n, f, m)' /\ Walking(q, n)' /\ Todo' /\ (op \in Op)'
      /\ holding' = holding /\ \A i \in BOOLEAN : pending(i)' = pending(i)
  BY <1>1, WorkerFrame DEF work
<1>5. Clock' /\ (overtaken \in BOOLEAN)'
  BY <1>1 DEF Types, Clock
<1>6. Sorted(q, n)'
  <2>1. latest_nsecs' \in 0 .. MAXT /\ latest_nsecs <= latest_nsecs'
    BY <1>1, Facts, Sizes
  <2> QED BY <1>1, <2>1, Facts, SortedFrame DEF With, work
<1>7. Hand'
  BY <1>1, <1>4 DEF Types, Hand, links, disp, work
<1>8. CASE overtaken
  <2>1. Position(q, n, f, m)' /\ Requests' /\ Commands(Q)'
    BY <1>1, <1>8 DEF Position, Requests, Commands
  <2> QED BY <2>1, <1>3, <1>4, <1>5, <1>6, <1>7 DEF Types, With
<1>9. CASE ~overtaken
  <2>1. curr \in Q /\ ~is_completed[curr] /\ is_copied[curr]
    BY <1>1, <1>9, AtWork DEF With, Position
  <2>2. Position(q, n, f, m)'
    <3>1. curr_nsecs = latest_nsecs
      BY <1>1 DEF Types, Clock
    <3>2. \E i \in 1 .. n : q[i] = curr
      BY <2>1 DEF members
    <3> QED BY <1>1, <1>9, <2>1, <3>1, <3>2 DEF Position, work
  <2>3. sq_next \in 1 .. NREQ + 1 /\ posted \in [Req -> Nat] /\ released \in [Req -> Nat]
        /\ copied \in [Req -> Nat]
    BY DEF Types, TypeOK
  <2>4. UNCHANGED <<id, buffs_of, is_internal, is_completed, is_copied, nsecs_target,
                   latest_nsecs, copied, sq_next, overtaken>>
    BY <1>1 DEF disp, work
  <2>5. \A e \in Q : is_done(e)' = IF e = curr THEN TRUE ELSE is_done(e)
    <3>1. ASSUME NEW e \in Q PROVE is_done(e)' = IF e = curr THEN TRUE ELSE is_done(e)
      BY <1>1, <1>2, <2>1, <2>4, Facts, DoneOnly
    <3> QED BY <3>1
  <2>6. ~is_done(curr)
    BY <1>1, <2>1 DEF is_done
  <2>7. CASE ~is_internal[curr]
    <3>1. /\ id[curr] \in 1 .. sq_next - 1
          /\ pending(FALSE) => id[curr] # sq_next - 1
          /\ copied[id[curr]] = 1 /\ posted[id[curr]] = 0
          /\ \A d \in Q : d # curr /\ ~is_internal[d] => id[d] # id[curr]
      BY <1>9, <2>1, <2>6, <2>7 DEF With, Commands, one
    <3>2. id[curr] \in Req /\ \A r \in Req : r >= sq_next => r # id[curr]
      BY <2>3, <3>1, Sizes DEF Req
    <3>3. \A r \in Req : posted'[r] = IF r = id[curr] THEN 1 ELSE posted[r]
      <4>1. posted' = [posted EXCEPT ![id[curr]] = posted[id[curr]] + 1]
        BY <1>1, <2>7
      <4>2. posted[id[curr]] + 1 = 1
        BY <3>1
      <4> QED BY <4>1, <4>2, <2>3, <3>2
    <3>4. UNCHANGED released
      BY <1>1, <2>7
    <3>5. Requests'
      <4>1. \A r \in Req : posted'[r] <= copied[r]
        BY <1>9, <2>3, <3>1, <3>3 DEF With, Requests
      <4>2. \A r \in Req : r >= sq_next \/ (r = sq_next - 1 /\ pending(FALSE)) => posted'[r] = posted[r]
        <5>1. \A r \in Req : r = sq_next - 1 /\ pending(FALSE) => r # id[curr]
          BY <3>1, Zenon
        <5> QED BY <3>2, <5>1, <3>3, Zenon
      <4> HIDE DEF pending
      <4> QED BY <1>4, <1>9, <2>4, <3>4, <4>1, <4>2 DEF With, Requests
    <3>6. Commands(Q)'
      <4>1. ASSUME NEW e \in Q, ~is_internal[e] PROVE posted'[id[e]] = one(is_done(e)')
        <5>1. CASE e = curr
          BY <2>5, <3>2, <3>3, <4>1, <5>1 DEF one
        <5>2. CASE e # curr
          <6>1. id[e] \in 1 .. sq_next - 1
            BY <1>9, <4>1 DEF With, Commands
          <6>2. id[e] \in Req
            BY <6>1, <2>3, Sizes DEF Req
          <6>3. posted'[id[e]] = posted[id[e]]
            BY <6>2, <3>1, <3>3, <4>1, <5>2
          <6>4. posted[id[e]] = one(is_done(e))
            BY <1>9, <4>1 DEF With, Commands
          <6>5. is_done(e)' = is_done(e)
            BY <2>5, <4>1, <5>2
          <6> QED BY <6>3, <6>4, <6>5
        <5> QED BY <5>1, <5>2
      <4>2. ASSUME NEW e \in Q, is_internal[e] PROVE is_done(e)' = is_done(e)
        BY <2>5, <2>7, <4>2
      <4> HIDE DEF pending, is_done, one, Q
      <4> QED BY <1>4, <1>9, <2>4, <3>4, <4>1, <4>2 DEF With, Commands, Q
    <3> QED BY <3>5, <3>6, <2>2, <1>3, <1>4, <1>5, <1>6, <1>7 DEF Types, With
  <2>8. CASE is_internal[curr]
    <3>1. /\ buffs_of[curr] \in 1 .. sq_next - 1
          /\ pending(TRUE) => buffs_of[curr] # sq_next - 1
          /\ released[buffs_of[curr]] = 0
          /\ \A d \in Q : d # curr /\ is_internal[d] => buffs_of[d] # buffs_of[curr]
      BY <1>9, <2>1, <2>6, <2>8 DEF With, Commands, one
    <3>2. buffs_of[curr] \in Req /\ \A r \in Req : r >= sq_next => r # buffs_of[curr]
      BY <2>3, <3>1, Sizes DEF Req
    <3>3. \A r \in Req : released'[r] = IF r = buffs_of[curr] THEN 1 ELSE released[r]
      <4>1. released' = [released EXCEPT ![buffs_of[curr]] = released[buffs_of[curr]] + 1]
        BY <1>1, <2>8
      <4>2. released[buffs_of[curr]] + 1 = 1
        BY <3>1
      <4> QED BY <4>1, <4>2, <2>3, <3>2
    <3>4. UNCHANGED posted
      BY <1>1, <2>8
    <3>5. Requests'
      <4>1. \A r \in Req : released'[r] <= 1
        BY <1>9, <2>3, <3>1, <3>3 DEF With, Requests
      <4>2. \A r \in Req : r >= sq_next \/ (r = sq_next - 1 /\ pending(TRUE)) =>
                             released'[r] = released[r]
        <5>1. \A r \in Req : r = sq_next - 1 /\ pending(TRUE) => r # buffs_of[curr]
          BY <3>1, Zenon
        <5> QED BY <3>2, <5>1, <3>3, Zenon
      <4> HIDE DEF pending
      <4> QED BY <1>4, <1>9, <2>4, <3>4, <4>1, <4>2 DEF With, Requests
    <3>6. Commands(Q)'
      <4>1. ASSUME NEW e \in Q, is_internal[e] PROVE released'[buffs_of[e]] = one(is_done(e)')
        <5>1. CASE e = curr
          BY <2>5, <3>2, <3>3, <4>1, <5>1 DEF one
        <5>2. CASE e # curr
          <6>1. buffs_of[e] \in 1 .. sq_next - 1
            BY <1>9, <4>1 DEF With, Commands
          <6>2. buffs_of[e] \in Req
            BY <6>1, <2>3, Sizes DEF Req
          <6>3. released'[buffs_of[e]] = released[buffs_of[e]]
            BY <6>2, <3>1, <3>3, <4>1, <5>2
          <6>4. released[buffs_of[e]] = one(is_done(e))
            BY <1>9, <4>1 DEF With, Commands
          <6>5. is_done(e)' = is_done(e)
            BY <2>5, <4>1, <5>2
          <6> QED BY <6>3, <6>4, <6>5
        <5> QED BY <5>1, <5>2
      <4>2. ASSUME NEW e \in Q, ~is_internal[e] PROVE is_done(e)' = is_done(e)
        BY <2>5, <2>8, <4>2
      <4> HIDE DEF pending, is_done, one, Q
      <4> QED BY <1>4, <1>9, <2>4, <3>4, <4>1, <4>2 DEF With, Commands, Q
    <3> QED BY <3>5, <3>6, <2>2, <1>3, <1>4, <1>5, <1>6, <1>7 DEF Types, With
  <2> QED BY <2>7, <2>8
<1> QED
  BY <1>8, <1>9

LEMMA MarkStep ==
  ASSUME NEW q, NEW n, NEW f, NEW m, Types, With(q, n, f, m), Mark
  PROVE  Types' /\ With(q, n, f, m)'
<1> DEFINE Q == members(q, n)
<1>1. /\ wpc = "mark" /\ wpc' = "advance"
      /\ is_completed' = [is_completed EXCEPT ![curr] = TRUE]
      /\ UNCHANGED <<now, id, nsecs_target, is_copied, is_internal, buffs_of, links, seqs, disp,
                     curr, curr_nsecs, latest_nsecs, effects>>
  BY DEF Mark
<1>2. curr \in Entry
  BY <1>1 DEF Types, TypeOK
<1>3. TypeOK'
  BY <1>1, <1>2 DEF Types, TypeOK, links, seqs, disp, effects
<1>4. Lists(q, n, f, m)' /\ Walking(q, n)' /\ Todo' /\ (op \in Op)'
      /\ holding' = holding /\ \A i \in BOOLEAN : pending(i)' = pending(i)
  BY <1>1, WorkerFrame
<1>5. Clock' /\ (overtaken \in BOOLEAN)'
  BY <1>1 DEF Types, Clock, effects
<1>6. Sorted(q, n)'
  <2>1. latest_nsecs' \in 0 .. MAXT /\ latest_nsecs <= latest_nsecs'
    BY <1>1, Facts, Sizes
  <2> QED BY <1>1, <2>1, Facts, SortedFrame DEF With
<1>7. Requests'
  BY <1>1, <1>4, RequestsFrame DEF With, disp, effects
<1>8. CASE overtaken
  <2>1. Hand'
    BY <1>1, <1>4, <1>8 DEF Types, Hand, links, disp, effects
  <2>2. Position(q, n, f, m)' /\ Commands(Q)'
    BY <1>1, <1>8 DEF Position, Commands, effects
  <2> QED BY <2>1, <2>2, <1>3, <1>4, <1>5, <1>6, <1>7 DEF Types, With
<1>9. CASE ~overtaken
  <2>1. curr \in Q /\ (holding => op.entry # curr)
    BY <1>1, <1>9, AtWork
  <2>2. \A e \in Entry : is_completed'[e] = IF e = curr THEN TRUE ELSE is_completed[e]
    BY <1>1, <1>2 DEF Types, TypeOK
  <2>3. Hand'
    BY <1>1, <1>4, <1>9, <2>1, <2>2 DEF Types, Hand, links, disp, effects
  <2>4. Position(q, n, f, m)'
    <3>1. \E i \in 1 .. n : q[i] = curr
      BY <2>1 DEF members
    <3> QED BY <1>1, <1>9, <3>1 DEF Position
  <2>5. Commands(Q)'
    <3>1. \A e \in Q : e \in Entry
      BY Facts
    <3>2. \A e \in Q : is_done(e)' = is_done(e)
      <4>1. ASSUME NEW e \in Q PROVE is_done(e)' = is_done(e)
        <5>1. is_completed[e] \in BOOLEAN /\ is_completed'[e] = IF e = curr THEN TRUE ELSE is_completed[e]
          BY <2>2, <3>1, Facts
        <5> QED BY <5>1, <1>1 DEF is_done
      <4> QED BY <4>1
    <3>3. UNCHANGED <<id, buffs_of, is_internal, is_copied, nsecs_target, latest_nsecs, posted,
                     copied, released, sq_next, overtaken>>
      BY <1>1 DEF disp, effects
    <3>4. \A e \in Q : is_completed'[e] => is_copied[e] /\ nsecs_target[e] <= latest_nsecs
      <4>1. is_copied[curr] /\ nsecs_target[curr] <= latest_nsecs
        BY <1>1, <1>9 DEF With, Position
      <4> QED BY <1>9, <2>2, <3>1, <4>1 DEF With, Commands
    <3> HIDE DEF pending, is_done, one, Q
    <3> QED BY <1>4, <1>9, <3>2, <3>3, <3>4 DEF With, Commands, Q
  <2> QED BY <2>3, <2>4, <2>5, <1>3, <1>4, <1>5, <1>6, <1>7 DEF Types, With
<1> QED
  BY <1>8, <1>9

-----------------------------------------------------------------------------
(* The dispatcher: a command arrives, an entry is filled.                  *)

\* What the dispatcher does to the entry in its hand is nobody else's business.
LEMMA FillFrame ==
  ASSUME NEW q, NEW n, NEW f, NEW m, Types, With(q, n, f, m), holding, holding',
         dpc \notin {"walk"}, dpc' \notin {"walk", "allocate"},
         UNCHANGED <<now, seqs, op, todo, sq_next, worker, effects>>,
         \A e \in Entry : e # op.entry =>
           /\ id'[e] = id[e] /\ nsecs_target'[e] = nsecs_target[e]
           /\ is_completed'[e] = is_completed[e] /\ is_copied'[e] = is_copied[e]
           /\ is_internal'[e] = is_internal[e] /\ buffs_of'[e] = buffs_of[e]
           /\ next'[e] = next[e] /\ prev'[e] = prev[e],
         TypeOK', Hand'
  PROVE  Types' /\ With(q, n, f, m)'
<1> DEFINE Q == members(q, n)
<1>1. /\ \A i \in 1 .. n : q[i] \in Entry /\ q[i] # op.entry
      /\ \A j \in 1 .. m : f[j] \in Entry /\ f[j] # op.entry
      /\ \A e \in Q : e \in Entry /\ e # op.entry
  BY Facts DEF With, Lists, members
<1>2. n \in Nat /\ m \in Nat /\ m > 0
  BY Facts
<1>3. \A i \in BOOLEAN : pending(i)' = pending(i)
  BY DEF pending
<1>4. Todo'
  <2>1. dpc # "allocate" /\ dpc' \notin {"idle", "reclaim"}
    BY DEF holding
  <2> QED BY <2>1 DEF Types, Todo
<1>5. Clock' /\ (op \in Op)' /\ (overtaken \in BOOLEAN)'
  BY DEF Types, Clock, worker, effects
<1>6. Lists(q, n, f, m)'
  <2>1. List(next, q, n, io_seq)' /\ List(next, f, m, free_seq)'
    <3>1. /\ \A i \in 1 .. n : next'[q[i]] = next[q[i]]
          /\ \A j \in 1 .. m : next'[f[j]] = next[f[j]]
      BY <1>1
    <3>2. List(next, q, n, io_seq) /\ List(next, f, m, free_seq) /\ UNCHANGED <<io_seq, free_seq>>
      BY DEF With, Lists, seqs
    <3>3. /\ n > 0 => n \in 1 .. n
          /\ m > 0 => m \in 1 .. m
          /\ \A i \in 1 .. n - 1 : i \in 1 .. n
          /\ \A j \in 1 .. m - 1 : j \in 1 .. m
      BY <1>2
    <3> QED BY <3>1, <3>2, <3>3 DEF List
  <2>2. /\ n > 0 => prev'[q[1]] = prev[q[1]]
        /\ \A i \in 1 .. n - 1 : prev'[q[i + 1]] = prev[q[i + 1]]
    <3>1. (n > 0 => 1 \in 1 .. n) /\ \A i \in 1 .. n - 1 : i + 1 \in 1 .. n
      BY <1>2
    <3> QED BY <1>1, <3>1
  <2> QED BY <2>1, <2>2 DEF With, Lists, seqs
<1>7. Walking(q, n)'
  BY NotWalking
<1>8. Sorted(q, n)'
  <2>1. \A i \in 1 .. n - 1 : i \in 1 .. n /\ i + 1 \in 1 .. n
    BY <1>2
  <2>2. \A i \in 1 .. n : nsecs_target'[q[i]] = nsecs_target[q[i]]
    BY <1>1
  <2> QED BY <2>1, <2>2 DEF With, Sorted, worker
<1>9. Position(q, n, f, m)'
  <2> SUFFICES ASSUME ~overtaken PROVE Position(q, n, f, m)'
    BY DEF Position, effects
  <2>1. wpc # "pass" => curr \in Entry /\ curr # op.entry
    BY <1>1 DEF With, Position
  <2>2. \A j \in 1 .. m : is_completed'[f[j]] = is_completed[f[j]]
    BY <1>1
  <2>3. wpc # "pass" => /\ is_completed'[curr] = is_completed[curr]
                        /\ is_copied'[curr] = is_copied[curr]
                        /\ nsecs_target'[curr] = nsecs_target[curr]
    BY <2>1
  <2>4. \A k \in 1 .. m : \A j \in k .. m : j \in 1 .. m
    BY <1>2
  <2> QED BY <2>2, <2>3, <2>4 DEF With, Position, worker, effects
<1>10. Requests'
  BY <1>3, RequestsFrame DEF With, effects
<1>11. Commands(Q)'
  <2>1. \A e \in Q : /\ id'[e] = id[e] /\ nsecs_target'[e] = nsecs_target[e]
                     /\ is_completed'[e] = is_completed[e] /\ is_copied'[e] = is_copied[e]
                     /\ is_internal'[e] = is_internal[e] /\ buffs_of'[e] = buffs_of[e]
    BY <1>1
  <2>2. \A e \in Q : is_done(e)' = is_done(e)
    BY <2>1 DEF is_done, worker
  <2>3. UNCHANGED <<latest_nsecs, posted, copied, released, sq_next, overtaken>>
    BY DEF worker, effects
  <2> SUFFICES ASSUME ~overtaken PROVE Commands(Q)'
    BY <2>3 DEF Commands
  <2>4. Commands(Q)
    BY DEF With
  <2> HIDE DEF pending, is_done, one, Q
  <2>5. ASSUME NEW e \in Q, ~is_internal'[e]
        PROVE  /\ id'[e] \in 1 .. sq_next' - 1
               /\ pending(FALSE)' => id'[e] # sq_next' - 1
               /\ copied'[id'[e]] = one(is_copied'[e])
               /\ posted'[id'[e]] = one(is_done(e)')
               /\ \A d \in Q : d # e /\ ~is_internal'[d] => id'[d] # id'[e]
    <3>1. /\ id[e] \in 1 .. sq_next - 1 /\ (pending(FALSE) => id[e] # sq_next - 1)
          /\ copied[id[e]] = one(is_copied[e]) /\ posted[id[e]] = one(is_done(e))
          /\ \A d \in Q : d # e /\ ~is_internal[d] => id[d] # id[e]
      BY <2>1, <2>4, <2>5 DEF Commands
    <3>2. is_done(e)' = is_done(e) /\ is_copied'[e] = is_copied[e] /\ id'[e] = id[e]
      BY <2>1, <2>2
    <3>3. \A d \in Q : d # e /\ ~is_internal'[d] => id'[d] # id'[e]
      BY <2>1, <3>1, <3>2
    <3> QED BY <1>3, <2>3, <3>1, <3>2, <3>3
  <2>6. ASSUME NEW e \in Q, is_internal'[e]
        PROVE  /\ is_copied'[e]
               /\ buffs_of'[e] \in 1 .. sq_next' - 1
               /\ pending(TRUE)' => buffs_of'[e] # sq_next' - 1
               /\ released'[buffs_of'[e]] = one(is_done(e)')
               /\ \A d \in Q : d # e /\ is_internal'[d] => buffs_of'[d] # buffs_of'[e]
    <3>1. /\ is_copied[e] /\ buffs_of[e] \in 1 .. sq_next - 1
          /\ pending(TRUE) => buffs_of[e] # sq_next - 1
          /\ released[buffs_of[e]] = one(is_done(e))
          /\ \A d \in Q : d # e /\ is_internal[d] => buffs_of[d] # buffs_of[e]
      BY <2>1, <2>4, <2>6 DEF Commands
    <3>2. is_done(e)' = is_done(e) /\ is_copied'[e] = is_copied[e] /\ buffs_of'[e] = buffs_of[e]
      BY <2>1, <2>2
    <3>3. \A d \in Q : d # e /\ is_internal'[d] => buffs_of'[d] # buffs_of'[e]
      BY <2>1, <3>1, <3>2
    <3> QED BY <1>3, <2>3, <3>1, <3>2, <3>3
  <2>7. \A e \in Q : is_completed'[e] => is_copied'[e] /\ nsecs_target'[e] <= latest_nsecs'
    BY <2>1, <2>3, <2>4 DEF Commands
  <2> QED BY <2>5, <2>6, <2>7 DEF Commands, one
<1> QED
  BY <1>4, <1>5, <1>6, <1>7, <1>8, <1>9, <1>10, <1>11 DEF Types, With

LEMMA FillStep ==
  ASSUME NEW q, NEW n, NEW f, NEW m, Types, With(q, n, f, m),
         Fill \/ FillCopied \/ FillLinks \/ FillInternal \/ FillBuffs
  PROVE  Types' /\ With(q, n, f, m)'
<1>1. holding /\ op.entry \in Entry /\ op.req \in 0 .. NREQ /\ op.target \in 0 .. MAXT
      /\ op.internal \in BOOLEAN
  BY DEF Fill, FillCopied, FillLinks, FillInternal, FillBuffs, holding, Types, Hand, Op
<1>2. CASE Fill
  <2>1. TypeOK'
    BY <1>1, <1>2 DEF Fill, Types, TypeOK, links, seqs, worker, effects
  <2>2. Hand'
    BY <1>1, <1>2 DEF Fill, Types, TypeOK, Hand, holding
  <2>3. \A e \in Entry : e # op.entry =>
           /\ id'[e] = id[e] /\ nsecs_target'[e] = nsecs_target[e]
           /\ is_completed'[e] = is_completed[e] /\ is_copied'[e] = is_copied[e]
           /\ is_internal'[e] = is_internal[e] /\ buffs_of'[e] = buffs_of[e]
           /\ next'[e] = next[e] /\ prev'[e] = prev[e]
    BY <1>1, <1>2 DEF Fill, Types, TypeOK, links
  <2>4. UNCHANGED <<now, seqs, op, todo, sq_next, worker, effects>> /\ holding'
        /\ dpc # "walk" /\ dpc' \notin {"walk", "allocate"}
    BY <1>2 DEF Fill, holding
  <2> QED BY <1>1, <2>1, <2>2, <2>3, <2>4, FillFrame
<1>3. CASE FillCopied
  <2>1. TypeOK'
    BY <1>1, <1>3 DEF FillCopied, Types, TypeOK, links, seqs, worker, effects
  <2>2. Hand'
    BY <1>1, <1>3 DEF FillCopied, Types, TypeOK, Hand, holding, effects
  <2>3. \A e \in Entry : e # op.entry =>
           /\ id'[e] = id[e] /\ nsecs_target'[e] = nsecs_target[e]
           /\ is_completed'[e] = is_completed[e] /\ is_copied'[e] = is_copied[e]
           /\ is_internal'[e] = is_internal[e] /\ buffs_of'[e] = buffs_of[e]
           /\ next'[e] = next[e] /\ prev'[e] = prev[e]
    BY <1>1, <1>3 DEF FillCopied, Types, TypeOK, links
  <2>4. UNCHANGED <<now, seqs, op, todo, sq_next, worker, effects>> /\ holding'
        /\ dpc # "walk" /\ dpc' \notin {"walk", "allocate"}
    BY <1>3 DEF FillCopied, holding
  <2> QED BY <1>1, <2>1, <2>2, <2>3, <2>4, FillFrame
<1>4. CASE FillLinks
  <2>1. TypeOK'
    BY <1>1, <1>4 DEF FillLinks, Types, TypeOK, work, seqs, worker, effects
  <2>2. Hand'
    BY <1>1, <1>4 DEF FillLinks, Types, TypeOK, Hand, holding, work, effects
  <2>3. \A e \in Entry : e # op.entry =>
           /\ id'[e] = id[e] /\ nsecs_target'[e] = nsecs_target[e]
           /\ is_completed'[e] = is_completed[e] /\ is_copied'[e] = is_copied[e]
           /\ is_internal'[e] = is_internal[e] /\ buffs_of'[e] = buffs_of[e]
           /\ next'[e] = next[e] /\ prev'[e] = prev[e]
    BY <1>1, <1>4 DEF FillLinks, Types, TypeOK, work
  <2>4. UNCHANGED <<now, seqs, op, todo, sq_next, worker, effects>> /\ holding'
        /\ dpc # "walk" /\ dpc' \notin {"walk", "allocate"}
    BY <1>4 DEF FillLinks, holding
  <2> QED BY <1>1, <2>1, <2>2, <2>3, <2>4, FillFrame
<1>5. CASE FillInternal
  <2>1. TypeOK'
    BY <1>1, <1>5 DEF FillInternal, Types, TypeOK, links, seqs, worker, effects
  <2>2. Hand'
    BY <1>1, <1>5 DEF FillInternal, Types, TypeOK, Hand, holding, links, effects
  <2>3. \A e \in Entry : e # op.entry =>
           /\ id'[e] = id[e] /\ nsecs_target'[e] = nsecs_target[e]
           /\ is_completed'[e] = is_completed[e] /\ is_copied'[e] = is_copied[e]
           /\ is_internal'[e] = is_internal[e] /\ buffs_of'[e] = buffs_of[e]
           /\ next'[e] = next[e] /\ prev'[e] = prev[e]
    BY <1>1, <1>5 DEF FillInternal, Types, TypeOK, links
  <2>4. UNCHANGED <<now, seqs, op, todo, sq_next, worker, effects>> /\ holding'
        /\ dpc # "walk" /\ dpc' \notin {"walk", "allocate"}
    BY <1>5 DEF FillInternal, holding
  <2> QED BY <1>1, <2>1, <2>2, <2>3, <2>4, FillFrame
<1>6. CASE FillBuffs
  <2>1. TypeOK'
    BY <1>1, <1>6 DEF FillBuffs, Types, TypeOK, links, seqs, worker, effects
  <2>2. Hand'
    BY <1>1, <1>6 DEF FillBuffs, Types, TypeOK, Hand, holding, links, effects
  <2>3. \A e \in Entry : e # op.entry =>
           /\ id'[e] = id[e] /\ nsecs_target'[e] = nsecs_target[e]
           /\ is_completed'[e] = is_completed[e] /\ is_copied'[e] = is_copied[e]
           /\ is_internal'[e] = is_internal[e] /\ buffs_of'[e] = buffs_of[e]
           /\ next'[e] = next[e] /\ prev'[e] = prev[e]
    BY <1>1, <1>6 DEF FillBuffs, Types, TypeOK, links
  <2>4. UNCHANGED <<now, seqs, op, todo, sq_next, worker, effects>> /\ holding'
        /\ dpc # "walk" /\ dpc' \notin {"walk", "allocate"}
    BY <1>6 DEF FillBuffs, holding
  <2> QED BY <1>1, <2>1, <2>2, <2>3, <2>4, FillFrame
<1> QED
  BY <1>2, <1>3, <1>4, <1>5, <1>6

\* The frame of a step of the dispatcher that changes neither entries nor lists.
LEMMA DispatcherFrame ==
  ASSUME NEW q, NEW n, NEW f, NEW m, Types, With(q, n, f, m),
         UNCHANGED <<now, work, links, seqs, worker, copied, posted, released, overtaken>>,
         holding' = holding, holding => op'.entry = op.entry
  PROVE  /\ Lists(q, n, f, m)' /\ Sorted(q, n)' /\ Position(q, n, f, m)' /\ Clock'
         /\ (overtaken \in BOOLEAN)' /\ \A e : is_done(e)' = is_done(e)
<1>1. Lists(q, n, f, m)'
  BY ListsFrame DEF With
<1>2. Sorted(q, n)'
  <2>1. latest_nsecs' \in 0 .. MAXT /\ latest_nsecs <= latest_nsecs'
    BY Facts, Sizes DEF worker
  <2> QED BY <2>1, Facts, SortedFrame DEF With, work
<1>3. Position(q, n, f, m)'
  BY PositionFrame DEF With, work, worker
<1>4. Clock' /\ (overtaken \in BOOLEAN)'
  BY DEF Types, Clock, worker
<1>5. \A e : is_done(e)' = is_done(e)
  BY DEF is_done, work, worker
<1> QED
  BY <1>1, <1>2, <1>3, <1>4, <1>5

LEMMA ProcIoStep ==
  ASSUME NEW q, NEW n, NEW f, NEW m, Types, With(q, n, f, m), ProcIo
  PROVE  Types' /\ With(q, n, f, m)'
<1> DEFINE Q == members(q, n)
<1>1. /\ dpc = "idle" /\ dpc' = "allocate" /\ sq_next <= NREQ /\ sq_next' = sq_next + 1
      /\ UNCHANGED <<now, work, links, seqs, op, worker, effects>>
  BY DEF ProcIo
<1>2. PICK d \in Delay :
        /\ now + d <= MAXT
        /\ \/ todo' = <<an_op(sq_next, now + d, FALSE)>>
           \/ \E i \in Delay :
                /\ now + i <= MAXT
                /\ todo' = <<an_op(sq_next, now + i, TRUE), an_op(sq_next, now + d, FALSE)>>
  BY DEF ProcIo
<1>3. sq_next \in 1 .. NREQ /\ now \in Nat /\ sq_next \in Nat
  BY <1>1, Sizes DEF Types, TypeOK
<1>4. ASSUME NEW i \in Delay, now + i <= MAXT, NEW b \in BOOLEAN
      PROVE  /\ an_op(sq_next, now + i, b) \in Op
             /\ an_op(sq_next, now + i, b).internal = b
             /\ an_op(sq_next, now + i, b).req = sq_next' - 1
  <2>1. now + i \in 0 .. MAXT /\ sq_next \in 0 .. NREQ /\ sq_next' - 1 = sq_next
    BY <1>1, <1>3, <1>4, Sizes
  <2> QED BY <2>1 DEF an_op, Op, NIL
<1>5. \/ \E b \in Op : ~b.internal /\ b.req = sq_next' - 1 /\ todo' = <<b>>
      \/ \E a, b \in Op : /\ a.internal /\ a.req = sq_next' - 1
                          /\ ~b.internal /\ b.req = sq_next' - 1
                          /\ todo' = <<a, b>>
  BY <1>2, <1>4
<1>6. Todo'
  <2>1. sq_next' > 1 /\ ~holding'
    BY <1>1, <1>3 DEF holding
  <2>2. todo' # <<>>
    BY <1>5
  <2> QED BY <1>1, <1>5, <2>1, <2>2 DEF Todo
<1>7. ~holding /\ ~holding'
  BY <1>1 DEF holding
<1>8. TypeOK'
  <2>1. sq_next' \in 1 .. NREQ + 1
    BY <1>1, <1>3, Sizes
  <2> QED BY <1>1, <2>1 DEF Types, TypeOK, work, links, seqs, worker, effects
<1>9. Hand' /\ (op \in Op)'
  BY <1>1, <1>7 DEF Types, Hand
<1>10. /\ Lists(q, n, f, m)' /\ Sorted(q, n)' /\ Position(q, n, f, m)' /\ Clock'
       /\ (overtaken \in BOOLEAN)' /\ \A e : is_done(e)' = is_done(e)
  <2>1. UNCHANGED <<now, work, links, seqs, worker, copied, posted, released, overtaken>>
    BY <1>1 DEF effects
  <2>2. holding' = holding
    BY <1>1 DEF holding
  <2> QED BY <1>7, <2>1, <2>2, DispatcherFrame
<1>11. Walking(q, n)'
  BY <1>1, NotWalking
<1>12. Requests'
  <2>1. sq_next' - 1 = sq_next
    BY <1>1, <1>3
  <2>2. \A r \in Req : r >= sq_next' => r >= sq_next
    BY <1>1, <1>3 DEF Req
  <2>3. \A r \in Req : r = sq_next' - 1 => r >= sq_next
    BY <2>1, <1>3
  <2> QED BY <1>1, <2>2, <2>3 DEF With, Requests, effects
<1>13. Commands(Q)'
  <2> SUFFICES ASSUME ~overtaken PROVE Commands(Q)'
    BY <1>1 DEF Commands, effects
  <2>1. Commands(Q) /\ UNCHANGED <<id, buffs_of, is_internal, is_completed, is_copied, nsecs_target,
                                   latest_nsecs, posted, copied, released, overtaken>>
    BY <1>1 DEF With, work, worker, effects
  <2>2. \A x \in 1 .. sq_next - 1 : x \in 1 .. sq_next' - 1 /\ x # sq_next' - 1
    BY <1>1, <1>3
  <2> HIDE DEF is_done, one, Q, pending
  <2> QED BY <1>10, <2>1, <2>2 DEF Commands
<1> QED
  BY <1>6, <1>8, <1>9, <1>10, <1>11, <1>12, <1>13 DEF Types, With

\* A step of the dispatcher in which operations only stop to be pending.
LEMMA DispatcherMoves ==
  ASSUME NEW q, NEW n, NEW f, NEW m, Types, With(q, n, f, m),
         UNCHANGED <<now, work, links, seqs, sq_next, worker, copied, posted, released, overtaken>>,
         holding' = holding, holding => op'.entry = op.entry,
         \A i \in BOOLEAN : pending(i)' => pending(i),
         TypeOK', Todo', Hand', (op \in Op)', Walking(q, n)'
  PROVE  Types' /\ With(q, n, f, m)'
<1>1. /\ Lists(q, n, f, m)' /\ Sorted(q, n)' /\ Position(q, n, f, m)' /\ Clock'
      /\ (overtaken \in BOOLEAN)' /\ \A e : is_done(e)' = is_done(e)
  BY DispatcherFrame
<1>2. Requests'
  BY RequestsFrame DEF With
<1>3. Commands(members(q, n))'
  <2>1. latest_nsecs' \in 0 .. MAXT /\ latest_nsecs <= latest_nsecs'
    BY Facts, Sizes DEF worker
  <2> HIDE DEF pending, is_done
  <2> QED BY <1>1, <2>1, Facts, CommandsFrame DEF With, members
<1> QED
  BY <1>1, <1>2, <1>3 DEF Types, With

LEMMA AllocateFailsStep ==
  ASSUME NEW q, NEW n, NEW f, NEW m, Types, With(q, n, f, m), AllocateFails
  PROVE  Types' /\ With(q, n, f, m)'
<1>1. /\ dpc = "allocate" /\ todo' = Tail(todo) /\ dpc' = after_enqueue(todo')
      /\ UNCHANGED <<now, work, links, seqs, op, sq_next, worker, copied, posted, released, overtaken>>
  BY DEF AllocateFails
<1>2. ~holding /\ ~holding' /\ dpc' # "walk" /\ dpc' \in {"allocate", "reclaim"}
  BY <1>1 DEF holding, after_enqueue
<1>3. sq_next > 1 /\ \/ todo' = <<>>
                     \/ \E b \in Op : /\ ~b.internal /\ b.req = sq_next - 1
                                      /\ todo' = <<b>> /\ pending(FALSE)
  <2>1. CASE \E b \in Op : todo = <<b>>
    BY <1>1, <2>1 DEF Types, Todo
  <2>2. CASE \E a, b \in Op : /\ a.internal /\ a.req = sq_next - 1
                              /\ ~b.internal /\ b.req = sq_next - 1
                              /\ todo = <<a, b>>
    <3>1. PICK a \in Op, b \in Op : /\ ~b.internal /\ b.req = sq_next - 1 /\ todo = <<a, b>>
      BY <2>2
    <3>2. todo' = <<b>> /\ 2 \in DOMAIN todo /\ todo[2] = b
      BY <1>1, <3>1
    <3>3. pending(FALSE)
      BY <3>1, <3>2 DEF pending, Op
    <3> QED BY <3>1, <3>2, <3>3, <1>1 DEF Types, Todo
  <2> QED BY <1>1, <2>1, <2>2 DEF Types, Todo
<1>4. Todo'
  <2>1. dpc' = "allocate" <=> todo' # <<>>
    BY <1>1 DEF after_enqueue
  <2> QED BY <1>1, <1>2, <1>3, <2>1 DEF Todo
<1>5. \A i \in BOOLEAN : pending(i)' => pending(i)
  <2> SUFFICES ASSUME NEW i \in BOOLEAN, pending(i)' PROVE pending(i)
    OBVIOUS
  <2>1. PICK k \in DOMAIN todo' : todo'[k].internal = i
    BY <1>2 DEF pending
  <2>5. todo' # <<>>
    BY <2>1
  <2>2. PICK b \in Op : ~b.internal /\ todo' = <<b>> /\ pending(FALSE)
    BY <1>3, <2>5, Zenon
  <2>3. todo'[k] = b
    BY <2>1, <2>2
  <2>4. i = FALSE
    BY <2>1, <2>2, <2>3
  <2> QED BY <2>2, <2>4
<1>6. TypeOK'
  BY <1>1, <1>2 DEF Types, TypeOK, work, links, seqs, worker
<1>7. Hand' /\ (op \in Op)' /\ Walking(q, n)'
  BY <1>1, <1>2, NotWalking DEF Types, Hand
<1>8. holding' = holding
  BY <1>1, <1>2 DEF holding
<1> HIDE DEF pending
<1> QED
  BY <1>1, <1>2, <1>4, <1>5, <1>6, <1>7, <1>8, DispatcherMoves

LEMMA InsertBeginStep ==
  ASSUME NEW q, NEW n, NEW f, NEW m, Types, With(q, n, f, m), InsertBegin
  PROVE  Types' /\ With(q, n, f, m)'
<1>1. /\ dpc = "insert" /\ dpc' = "walk" /\ io_seq # NIL
      /\ op' = [op EXCEPT !.at = io_seq_end]
      /\ UNCHANGED <<now, work, links, seqs, todo, sq_next, worker, effects>>
  BY DEF InsertBegin
<1>2. n > 0 /\ q[n] = io_seq_end /\ io_seq_end \in Entry /\ n \in 1 .. n
  BY <1>1, Facts DEF With, Lists, List
<1>3. /\ op' \in Op /\ op'.entry = op.entry /\ op'.at = q[n] /\ op'.req = op.req
      /\ op'.target = op.target /\ op'.internal = op.internal
  BY <1>1, <1>2, Facts DEF Op
<1>4. holding /\ holding'
  BY <1>1 DEF holding
<1>5. Todo' /\ Hand'
  <2>1. Todo'
    BY <1>1, <1>3, <1>4 DEF Types, Todo
  <2>2. Hand'
    BY <1>1, <1>3, <1>4 DEF Types, Hand, work, links, effects
  <2> QED BY <2>1, <2>2
<1>6. TypeOK'
  BY <1>1, <1>2, <1>3 DEF Types, TypeOK, work, links, seqs, worker, effects
<1>7. Walking(q, n)'
  <2>1. \A i \in 1 .. n - 1 : q[i] # q[n]
    BY <1>2, Facts DEF With, Lists, List
  <2>2. q[n] # NIL
    BY <1>2, Sizes
  <2> QED BY <1>2, <1>3, <2>1, <2>2 DEF Walking
<1>8. \A i \in BOOLEAN : pending(i)' => pending(i)
  BY <1>1, <1>3, <1>4 DEF pending
<1> HIDE DEF pending
<1> QED
  BY <1>1, <1>3, <1>4, <1>5, <1>6, <1>7, <1>8, DispatcherMoves DEF effects

LEMMA WalkStep ==
  ASSUME NEW q, NEW n, NEW f, NEW m, Types, With(q, n, f, m), Walk
  PROVE  Types' /\ With(q, n, f, m)'
<1>1. /\ dpc = "walk" /\ dpc' = "walk" /\ op.at # NIL /\ ~walk_stops(op.at)
      /\ op' = [op EXCEPT !.at = prev[op.at]]
      /\ UNCHANGED <<now, work, links, seqs, todo, sq_next, worker, effects>>
  BY DEF Walk
<1>2. PICK i \in 1 .. n : q[i] = op.at
  BY <1>1 DEF With, Walking
<1>3. op.at \in Entry /\ prev[op.at] \in Entry \union {NIL} /\ i \in Nat /\ n > 0
      /\ nsecs_target[op.at] \in 0 .. MAXT /\ op.target \in 0 .. MAXT
  BY <1>2, Facts DEF Op
<1>4. /\ op' \in Op /\ op'.entry = op.entry /\ op'.at = prev[op.at] /\ op'.req = op.req
      /\ op'.target = op.target /\ op'.internal = op.internal
  BY <1>1, <1>3, Facts DEF Op
<1>5. holding /\ holding'
  BY <1>1 DEF holding
<1>6. Todo' /\ Hand'
  <2>1. Todo'
    BY <1>1, <1>4, <1>5 DEF Types, Todo
  <2>2. Hand'
    BY <1>1, <1>4, <1>5 DEF Types, Hand, work, links, effects
  <2> QED BY <2>1, <2>2
<1>7. TypeOK'
  BY <1>1, <1>3, <1>4 DEF Types, TypeOK, work, links, seqs, worker, effects
<1>8. op.target < nsecs_target[q[i]]
  BY <1>1, <1>2, <1>3, Sizes DEF walk_stops
<1>9. Walking(q, n)'
  <2>1. CASE i = 1
    <3>1. prev[op.at] = NIL /\ NIL \notin Entry
      BY <1>2, <1>3, <2>1, Sizes DEF With, Lists
    <3>2. \A k \in 1 .. n - 1 : q[k] # NIL
      <4>1. \A k \in 1 .. n - 1 : k \in 1 .. n
        BY Facts
      <4>2. q \in [1 .. n -> Entry]
        BY Facts
      <4>3. \A k \in 1 .. n : q[k] \in Entry
        BY <4>2
      <4> QED BY <4>1, <4>3, Sizes
    <3> QED BY <1>1, <1>3, <1>4, <1>8, <2>1, <3>1, <3>2 DEF Walking, work
  <2>2. CASE i # 1
    <3>1. i - 1 \in 1 .. n - 1 /\ (i - 1) + 1 = i /\ i - 1 \in 1 .. n
      BY <1>3, <2>2, Facts
    <3>2. prev[op.at] = q[i - 1]
      BY <1>2, <3>1 DEF With, Lists
    <3>3. q[i - 1] # NIL /\ \A k \in 1 .. n - 1 : q[k] = q[i - 1] => k = i - 1
      BY <3>1, Facts, Sizes DEF With, Lists, List
    <3>4. \A k \in 1 .. n - 1 : q[k] = q[i - 1] => op.target < nsecs_target[q[k + 1]]
      BY <1>8, <3>1, <3>3
    <3> QED BY <1>1, <1>3, <1>4, <3>1, <3>2, <3>3, <3>4 DEF Walking, work
  <2> QED BY <2>1, <2>2
<1>10. \A b \in BOOLEAN : pending(b)' => pending(b)
  BY <1>1, <1>4, <1>5 DEF pending
<1> HIDE DEF pending
<1> QED
  BY <1>1, <1>4, <1>5, <1>6, <1>7, <1>9, <1>10, DispatcherMoves DEF effects

-----------------------------------------------------------------------------
(* The dispatcher: entries change lists.                                   *)

\* The first free entry goes into the dispatcher's hand.
LEMMA AllocateStep ==
  ASSUME NEW q, NEW n, NEW f, NEW m, Types, With(q, n, f, m), Allocate
  PROVE  IInv'
<1> DEFINE g == [k \in 1 .. m - 1 |-> f[k + 1]]
           x == f[1]
<1>1. /\ dpc = "allocate" /\ dpc' = "fill" /\ todo' = Tail(todo)
      /\ op' = [Head(todo) EXCEPT !.entry = free_seq]
      /\ free_seq' = next[free_seq] /\ next[free_seq] # NIL
      /\ overtaken' = (overtaken \/ curr = free_seq)
      /\ UNCHANGED <<now, work, links, free_seq_end, io_seq, io_seq_end, sq_next, worker,
                     copied, posted, released, dropped>>
  BY DEF Allocate, almost_full
<1>2. ~holding /\ holding'
  BY <1>1 DEF holding
<1>3. /\ n \in Nat /\ m \in Nat /\ m <= NR /\ q \in [1 .. n -> Entry] /\ f \in [1 .. m -> Entry]
      /\ List(next, q, n, io_seq) /\ List(next, f, m, free_seq)
      /\ next[f[m]] = NIL /\ x = free_seq /\ m > 0
  BY Facts DEF With, Lists, List
<1>4. m > 1 /\ x \in Entry /\ m - 1 \in 0 .. NR
  <2>1. m # 1
    BY <1>1, <1>3
  <2> QED BY <1>3, <2>1, Sizes
<1>5. /\ g \in [1 .. m - 1 -> Entry]
      /\ \A k \in 1 .. m - 1 : g[k] = f[k + 1] /\ k + 1 \in 1 .. m
      /\ \A j \in 1 .. m : j = 1 \/ (j - 1 \in 1 .. m - 1 /\ g[j - 1] = f[j])
  BY <1>3, <1>4
<1>6. /\ \A j, k \in 1 .. m : f[j] = f[k] => j = k
      /\ \A j \in 1 .. m - 1 : next[f[j]] = f[j + 1]
  BY <1>3 DEF List
<1> HIDE DEF g, x
<1>7. List(next, g, m - 1, free_seq)'
  <2>1. g[1] = free_seq' /\ next[g[m - 1]] = NIL
    <3>1. 1 \in 1 .. m - 1 /\ m - 1 \in 1 .. m - 1 /\ (m - 1) + 1 = m
      BY <1>3, <1>4
    <3>2. g[1] = f[1 + 1] /\ g[m - 1] = f[m] /\ next[f[1]] = f[1 + 1]
      BY <3>1, <1>5, <1>6
    <3> QED BY <3>2, <1>1, <1>3 DEF x
  <2>2. \A k \in 1 .. (m - 1) - 1 : next[g[k]] = g[k + 1]
    <3> TAKE k \in 1 .. (m - 1) - 1
    <3>1. k \in 1 .. m - 1 /\ k + 1 \in 1 .. m - 1
      BY <1>3
    <3> QED BY <3>1, <1>5, <1>6
  <2>3. \A j, k \in 1 .. m - 1 : g[j] = g[k] => j = k
    <3> TAKE j, k \in 1 .. m - 1
    <3> HAVE g[j] = g[k]
    <3>1. j + 1 = k + 1
      BY <1>5, <1>6
    <3> QED BY <3>1
  <2>4. next' = next /\ m - 1 # 0
    BY <1>1, <1>4 DEF links
  <2> QED BY <1>4, <1>5, <2>1, <2>2, <2>3, <2>4 DEF List
<1>8. PICK a \in Op : /\ todo # <<>> /\ a = Head(todo) /\ sq_next > 1 /\ a.req = sq_next - 1
                      /\ \/ ~a.internal /\ todo = <<a>> /\ todo' = <<>>
                         \/ /\ a.internal
                            /\ \E b \in Op : /\ ~b.internal /\ b.req = sq_next - 1
                                             /\ todo = <<a, b>> /\ todo' = <<b>>
  <2>1. CASE \E b \in Op : ~b.internal /\ b.req = sq_next - 1 /\ todo = <<b>>
    BY <1>1, <2>1 DEF Types, Todo
  <2>2. CASE \E a, b \in Op : /\ a.internal /\ a.req = sq_next - 1
                              /\ ~b.internal /\ b.req = sq_next - 1
                              /\ todo = <<a, b>>
    <3>1. PICK a \in Op, b \in Op : /\ a.internal /\ a.req = sq_next - 1
                                    /\ ~b.internal /\ b.req = sq_next - 1 /\ todo = <<a, b>>
      BY <2>2
    <3>2. todo # <<>> /\ todo' = <<b>> /\ a = Head(todo)
      BY <1>1, <3>1
    <3>3. sq_next > 1
      BY <1>1, <3>2 DEF Types, Todo
    <3> QED BY <3>1, <3>2, <3>3
  <2> QED BY <1>1, <2>1, <2>2 DEF Types, Todo
<1>9. /\ op' \in Op /\ op'.entry = x /\ op'.req = sq_next - 1 /\ op'.internal = a.internal
      /\ op'.at = a.at
  <2>1. op' = [a EXCEPT !.entry = x]
    BY <1>1, <1>3, <1>8 DEF x
  <2> HIDE DEF x
  <2> QED BY <2>1, <1>4, <1>8 DEF Op
<1>10. Todo'
  <2>1. UNCHANGED sq_next /\ dpc' = "fill"
    BY <1>1
  <2>2. CASE ~a.internal
    BY <1>8, <1>9, <2>1, <2>2 DEF Todo, holding
  <2>3. CASE a.internal
    <3>1. PICK b \in Op : ~b.internal /\ b.req = sq_next - 1 /\ todo' = <<b>>
      BY <1>8, <2>3
    <3> QED BY <1>8, <1>9, <2>1, <2>3, <3>1 DEF Todo, holding
  <2> QED BY <2>2, <2>3
<1>11. Hand'
  BY <1>1, <1>4, <1>9 DEF Hand
<1>12. TypeOK'
  <2>1. free_seq' \in Entry
    BY <1>1, <1>3 DEF Types, TypeOK
  <2>2. op'.entry \in Entry /\ op'.at \in Entry \union {NIL}
    BY <1>4, <1>9 DEF Op
  <2> QED BY <1>1, <2>1, <2>2 DEF Types, TypeOK, work, links, worker
<1>13. Clock' /\ (overtaken \in BOOLEAN)'
  BY <1>1 DEF Types, Clock, worker
<1>14. Lists(q, n, g, m - 1)'
  <2>1. List(next, q, n, io_seq)'
    BY <1>1, <1>3 DEF links, List
  <2>2. g[m - 1] = free_seq_end'
    <3>1. m - 1 \in 1 .. m - 1 /\ (m - 1) + 1 = m
      BY <1>3, <1>4
    <3>2. g[m - 1] = f[m]
      BY <1>5, <3>1
    <3> QED BY <1>1, <3>2 DEF With, Lists
  <2>3. /\ n > 0 => q[n] = io_seq_end' /\ prev'[q[1]] = NIL
        /\ \A i \in 1 .. n - 1 : prev'[q[i + 1]] = q[i]
    BY <1>1 DEF With, Lists, links
  <2>4. \A i \in 1 .. n : \A j \in 1 .. m - 1 : q[i] # g[j]
    BY <1>5 DEF With, Lists
  <2>5. \A i \in 1 .. n : q[i] # x
    <3>1. 1 \in 1 .. m
      BY <1>3
    <3> QED BY <3>1 DEF With, Lists, x
  <2>6. \A j \in 1 .. m - 1 : g[j] # x
    <3> SUFFICES ASSUME NEW j \in 1 .. m - 1, g[j] = x PROVE FALSE
      OBVIOUS
    <3>1. j + 1 = 1 /\ j \in Nat
      <4>1. f[j + 1] = f[1] /\ j + 1 \in 1 .. m /\ 1 \in 1 .. m
        BY <1>3, <1>5 DEF x
      <4> QED BY <4>1, <1>6
    <3> QED BY <3>1
  <2>7. \A e \in Entry : \/ \E i \in 1 .. n : q[i] = e
                         \/ \E j \in 1 .. m - 1 : g[j] = e
                         \/ x = e
    <3> TAKE e \in Entry
    <3>1. CASE \E j \in 1 .. m : f[j] = e
      BY <3>1, <1>5 DEF x
    <3> QED BY <3>1, <1>2 DEF With, Lists
  <2>8. n + (m - 1) + 1 = NR
    <3>1. n + m + 0 = NR
      BY <1>2 DEF With, Lists
    <3> QED BY <3>1, <1>3
  <2>9. m - 1 > 0
    BY <1>3, <1>4
  <2> QED BY <1>2, <1>7, <1>9, <2>1, <2>2, <2>3, <2>4, <2>5, <2>6, <2>7, <2>8, <2>9 DEF Lists
<1>15. Walking(q, n)' /\ Sorted(q, n)'
  <2>1. Walking(q, n)'
    BY <1>1, NotWalking
  <2>2. Sorted(q, n)'
    BY <1>1 DEF With, Sorted, work, worker
  <2> QED BY <2>1, <2>2
<1>16. overtaken' \/ (~overtaken /\ UNCHANGED overtaken /\ curr # x)
  BY <1>1, <1>3 DEF Types
<1>17. Position(q, n, g, m - 1)'
  <2> SUFFICES ASSUME ~overtaken' PROVE Position(q, n, g, m - 1)'
    BY DEF Position
  <2>1. ~overtaken /\ curr # x /\ UNCHANGED <<wpc, curr, is_completed, is_copied, nsecs_target, latest_nsecs>>
    BY <1>1, <1>16 DEF work, worker
  <2>2. ASSUME NEW k \in 1 .. m, f[k] = curr, \A j \in k .. m : is_completed[f[j]]
        PROVE  \E l \in 1 .. m - 1 : g[l] = curr /\ \A j \in l .. m - 1 : is_completed[g[j]]
    <3>1. k # 1
      BY <2>1, <2>2 DEF x
    <3>2. k - 1 \in 1 .. m - 1 /\ g[k - 1] = curr
      BY <1>5, <2>2, <3>1
    <3>3. ASSUME NEW j \in k - 1 .. m - 1 PROVE is_completed[g[j]]
      <4>1. j \in 1 .. m - 1 /\ j + 1 \in k .. m
        BY <1>3, <3>2
      <4> QED BY <4>1, <1>5, <2>2
    <3> QED BY <3>2, <3>3
  <2> QED BY <2>1, <2>2 DEF With, Position
<1>18. \A i \in BOOLEAN : pending(i)' => pending(i)
  <2> SUFFICES ASSUME NEW i \in BOOLEAN, pending(i)' PROVE pending(i)
    OBVIOUS
  <2>1. a.internal \in BOOLEAN
    BY <1>8 DEF Op
  <2>2. pending(a.internal)
    <3>1. 1 \in DOMAIN todo /\ todo[1] = a
      BY <1>8
    <3> QED BY <3>1 DEF pending
  <2>3. CASE i = a.internal
    BY <2>2, <2>3
  <2>4. CASE i # a.internal
    <3>1. PICK k \in DOMAIN todo' : todo'[k].internal = i
      BY <1>9, <2>4 DEF pending
    <3>2. todo' # <<>>
      BY <3>1
    <3>3. PICK b \in Op : ~b.internal /\ todo = <<a, b>> /\ todo' = <<b>>
      BY <1>8, <3>2, Zenon
    <3>4. todo'[k] = b
      BY <3>1, <3>3
    <3>5. b.internal = i
      BY <3>1, <3>4
    <3>6. 2 \in DOMAIN todo /\ todo[2] = b
      BY <3>3
    <3> QED BY <3>5, <3>6 DEF pending
  <2> QED BY <2>3, <2>4
<1>19. Requests'
  <2> HIDE DEF pending
  <2>1. CASE overtaken'
    BY <2>1 DEF Requests
  <2>2. CASE ~overtaken'
    BY <1>1, <1>16, <1>18, <2>2, RequestsFrame DEF With
  <2> QED BY <2>1, <2>2
<1>20. Commands(members(q, n))'
  <2>1. CASE overtaken'
    BY <2>1 DEF Commands
  <2>2. CASE ~overtaken'
    <3>1. latest_nsecs' \in 0 .. MAXT /\ latest_nsecs <= latest_nsecs'
      BY <1>1, Facts, Sizes DEF worker
    <3>2. \A e : is_done(e)' = is_done(e)
      BY <1>1 DEF is_done, work, worker
    <3> HIDE DEF pending, is_done
    <3> QED BY <1>1, <1>16, <1>18, <2>2, <3>1, <3>2, Facts, CommandsFrame DEF With, members
  <2> QED BY <2>1, <2>2
<1>21. Types' /\ With(q, n, g, m - 1)'
  BY <1>9, <1>10, <1>11, <1>12, <1>13, <1>14, <1>15, <1>17, <1>19, <1>20 DEF Types, With
<1> QED
  BY <1>21 DEF IInv

\* The list q[1] .. q[n] with x after its first c members.
inserted(q, n, c, x) ==
  [k \in 1 .. n + 1 |-> IF k <= c THEN q[k] ELSE IF k = c + 1 THEN x ELSE q[k - 1]]

\* The members of such a list.
LEMMA InsertedIs ==
  ASSUME NEW q, NEW n, NEW c, NEW x, NEW p, p = inserted(q, n, c, x),
         n \in Nat, q \in [1 .. n -> Entry], c \in 0 .. n, x \in Entry
  PROVE  /\ p \in [1 .. n + 1 -> Entry]
         /\ p[c + 1] = x
         /\ members(p, n + 1) = members(q, n) \union {x}
<1>1. \A k \in 1 .. n + 1 : p[k] = IF k <= c THEN q[k] ELSE IF k = c + 1 THEN x ELSE q[k - 1]
  BY DEF inserted
<1>2. p \in [1 .. n + 1 -> Entry]
  <2>1. p = [k \in 1 .. n + 1 |-> IF k <= c THEN q[k] ELSE IF k = c + 1 THEN x ELSE q[k - 1]]
    BY DEF inserted
  <2>2. ASSUME NEW k \in 1 .. n + 1
        PROVE  (IF k <= c THEN q[k] ELSE IF k = c + 1 THEN x ELSE q[k - 1]) \in Entry
    <3>1. CASE k <= c
      BY <3>1
    <3>2. CASE k > c + 1
      <4>1. k - 1 \in 1 .. n
        BY <3>2
      <4> QED BY <3>2, <4>1
    <3> QED BY <3>1, <3>2
  <2> QED BY <2>1, <2>2
<1>3. /\ \A k \in 1 .. c : p[k] = q[k]
      /\ p[c + 1] = x
  BY <1>1
<1>4. \A k \in c + 1 .. n : p[k + 1] = q[k]
  <2> TAKE k \in c + 1 .. n
  <2>1. k + 1 \in 1 .. n + 1 /\ ~(k + 1 <= c) /\ k + 1 # c + 1 /\ (k + 1) - 1 = k
    OBVIOUS
  <2> QED BY <1>1, <2>1
<1>5. ASSUME NEW e \in members(p, n + 1) PROVE e \in members(q, n) \union {x}
  <2>1. PICK k \in 1 .. n + 1 : e = p[k]
    BY DEF members
  <2>2. CASE k <= c
    BY <1>1, <2>1, <2>2 DEF members
  <2>3. CASE k > c + 1
    <3>1. k - 1 \in 1 .. n /\ e = q[k - 1]
      BY <1>1, <2>1, <2>3
    <3> QED BY <3>1 DEF members
  <2> QED BY <1>1, <2>1, <2>2, <2>3
<1>6. ASSUME NEW e \in members(q, n) \union {x} PROVE e \in members(p, n + 1)
  <2>1. CASE e = x
    <3>1. c + 1 \in 1 .. n + 1
      OBVIOUS
    <3> QED BY <1>3, <2>1, <3>1 DEF members
  <2>2. CASE e \in members(q, n)
    <3>1. PICK k \in 1 .. n : e = q[k]
      BY <2>2 DEF members
    <3>2. CASE k <= c
      <4>1. k \in 1 .. c /\ k \in 1 .. n + 1
        BY <3>2
      <4> QED BY <1>3, <3>1, <4>1 DEF members
    <3>3. CASE k > c
      <4>1. k \in c + 1 .. n /\ k + 1 \in 1 .. n + 1
        BY <3>3
      <4> QED BY <1>4, <3>1, <4>1 DEF members
    <3> QED BY <3>2, <3>3
  <2> QED BY <2>1, <2>2
<1> QED
  BY <1>2, <1>3, <1>4, <1>5, <1>6

\* The stores of the three ways to link an entry put it after c requests.
LEMMA Linking ==
  ASSUME NEW q, NEW n, NEW f, NEW m, Types, With(q, n, f, m), holding, ~holding',
         NEW c \in 0 .. n, NEW x, x = op.entry, NEW p, p = inserted(q, n, c, x),
         next'[x] = IF c < n THEN q[c + 1] ELSE NIL,
         c > 0 => next'[q[c]] = x,
         \A e \in Entry : e # x /\ (c > 0 => e # q[c]) => next'[e] = next[e],
         prev'[x] = IF c > 0 THEN q[c] ELSE NIL,
         c < n => prev'[q[c + 1]] = x,
         \A e \in Entry : e # x /\ (c < n => e # q[c + 1]) => prev'[e] = prev[e],
         io_seq' = IF c = 0 THEN x ELSE io_seq,
         io_seq_end' = IF c = n THEN x ELSE io_seq_end,
         UNCHANGED <<free_seq, free_seq_end>>
  PROVE  Lists(p, n + 1, f, m)'
<1>1. /\ n \in Nat /\ m \in Nat /\ m > 0 /\ n <= NR /\ m <= NR /\ c \in Nat /\ c <= n
      /\ q \in [1 .. n -> Entry] /\ f \in [1 .. m -> Entry] /\ x \in Entry
  BY Facts DEF Types, Hand
<1>2. /\ p \in [1 .. n + 1 -> Entry]
      /\ \A k \in 1 .. c : p[k] = q[k]
      /\ p[c + 1] = x
      /\ \A k \in c + 1 .. n : p[k + 1] = q[k]
      /\ members(p, n + 1) = members(q, n) \union {x}
  <2>1. n \in Nat /\ q \in [1 .. n -> Entry] /\ c \in 0 .. n /\ x \in Entry
        /\ p = inserted(q, n, c, x)
    BY <1>1
  <2>2. p \in [1 .. n + 1 -> Entry]
    BY <2>1, InsertedIs
  <2>3. \A k \in 1 .. c : p[k] = q[k]
    BY <2>1 DEF inserted
  <2>4. p[c + 1] = x
    BY <2>1, InsertedIs
  <2>5. \A k \in c + 1 .. n : p[k + 1] = q[k]
    <3> TAKE k \in c + 1 .. n
    <3>1. k + 1 \in 1 .. n + 1 /\ ~(k + 1 <= c) /\ k + 1 # c + 1 /\ (k + 1) - 1 = k
      BY <2>1
    <3> QED BY <2>1, <3>1 DEF inserted
  <2>6. members(p, n + 1) = members(q, n) \union {x}
    BY <2>1, InsertedIs
  <2> QED BY ONLY <2>2, <2>3, <2>4, <2>5, <2>6
<1>3. /\ \A i \in 1 .. n : q[i] # x /\ q[i] \in Entry
      /\ \A j \in 1 .. m : f[j] # x /\ f[j] \in Entry
      /\ \A i \in 1 .. n : \A j \in 1 .. m : q[i] # f[j]
      /\ \A i, j \in 1 .. n : q[i] = q[j] => i = j
      /\ \A i, j \in 1 .. m : f[i] = f[j] => i = j
      /\ n > 0 => q[1] = io_seq /\ next[q[n]] = NIL /\ q[n] = io_seq_end /\ prev[q[1]] = NIL
      /\ \A i \in 1 .. n - 1 : next[q[i]] = q[i + 1] /\ prev[q[i + 1]] = q[i]
      /\ f[1] = free_seq /\ next[f[m]] = NIL /\ f[m] = free_seq_end
      /\ \A i \in 1 .. m - 1 : next[f[i]] = f[i + 1]
      /\ n + m + 1 = NR
  BY <1>1 DEF With, Lists, List
<1>4. \A i \in 1 .. n : (c > 0 => i # c) => next'[q[i]] = next[q[i]]
  <2> SUFFICES ASSUME NEW i \in 1 .. n, c > 0 => i # c PROVE next'[q[i]] = next[q[i]]
    OBVIOUS
  <2>1. c > 0 => q[i] # q[c]
    <3>1. c > 0 => c \in 1 .. n
      BY <1>1
    <3> QED BY <1>3, <3>1
  <2> QED BY <1>3, <2>1
<1>5. \A i \in 1 .. n : (c < n => i # c + 1) => prev'[q[i]] = prev[q[i]]
  <2> SUFFICES ASSUME NEW i \in 1 .. n, c < n => i # c + 1 PROVE prev'[q[i]] = prev[q[i]]
    OBVIOUS
  <2>1. c < n => q[i] # q[c + 1]
    <3>1. c < n => c + 1 \in 1 .. n
      BY <1>1
    <3> QED BY <1>3, <3>1
  <2> QED BY <1>3, <2>1
<1>6. \A j \in 1 .. m : next'[f[j]] = next[f[j]]
  <2> TAKE j \in 1 .. m
  <2>1. c > 0 => f[j] # q[c]
    <3>1. c > 0 => c \in 1 .. n
      BY <1>1
    <3> QED BY <1>3, <3>1
  <2> QED BY <1>3, <2>1
<1>7. List(next, p, n + 1, io_seq)'
  <2>1. n + 1 \in 0 .. NR
    BY <1>1, <1>3, Sizes
  <2>2. p[1] = io_seq'
    <3>1. CASE c = 0
      BY <1>2, <3>1
    <3>2. CASE c > 0
      <4>1. 1 \in 1 .. c /\ n > 0 /\ c # 0
        BY <1>1, <3>2
      <4> QED BY <1>2, <1>3, <4>1
    <3> QED BY <1>1, <3>1, <3>2
  <2>3. next'[p[n + 1]] = NIL
    <3>1. CASE c = n
      BY <1>1, <1>2, <3>1
    <3>2. CASE c < n
      <4>1. n \in c + 1 .. n /\ n \in 1 .. n /\ n > 0 /\ n # c
        BY <1>1, <3>2
      <4>2. p[n + 1] = q[n] /\ next'[q[n]] = next[q[n]]
        BY <1>2, <1>4, <4>1
      <4> QED BY <1>3, <4>1, <4>2
    <3> QED BY <1>1, <3>1, <3>2
  <2>4. ASSUME NEW i \in 1 .. (n + 1) - 1 PROVE next'[p[i]] = p[i + 1]
    <3>0. i \in 1 .. n
      BY <1>1
    <3>1. CASE i < c
      <4>1. i \in 1 .. c /\ i + 1 \in 1 .. c /\ i \in 1 .. n - 1 /\ i # c
        BY <1>1, <3>0, <3>1
      <4> QED BY <1>2, <1>3, <1>4, <3>0, <4>1
    <3>2. CASE i = c
      <4>1. i \in 1 .. c /\ c > 0
        BY <1>1, <3>0, <3>2
      <4> QED BY <1>2, <3>2, <4>1
    <3>3. CASE i = c + 1
      <4>1. c < n /\ c + 1 \in c + 1 .. n
        BY <1>1, <3>0, <3>3
      <4> QED BY <1>2, <3>3, <4>1
    <3>4. CASE i > c + 1
      <4>1. i - 1 \in c + 1 .. n /\ i - 1 \in 1 .. n - 1 /\ i \in c + 1 .. n /\ i - 1 \in 1 .. n
            /\ i - 1 # c /\ (i - 1) + 1 = i
        BY <1>1, <3>0, <3>4
      <4>2. p[i] = q[i - 1] /\ p[i + 1] = q[i]
        BY <1>2, <4>1
      <4>3. next'[q[i - 1]] = next[q[i - 1]] /\ next[q[i - 1]] = q[i]
        BY <1>3, <1>4, <4>1
      <4> QED BY <4>2, <4>3
    <3> QED BY <1>1, <3>0, <3>1, <3>2, <3>3, <3>4
  <2>5. ASSUME NEW i \in 1 .. n + 1, NEW j \in 1 .. n + 1, p[i] = p[j] PROVE i = j
    <3> DEFINE at(k) == IF k <= c THEN k ELSE k - 1
    <3>1. ASSUME NEW k \in 1 .. n + 1, k # c + 1 PROVE at(k) \in 1 .. n /\ p[k] = q[at(k)]
      <4>1. CASE k <= c
        <5>1. k \in 1 .. c
          BY <1>1, <4>1
        <5> QED BY <1>1, <1>2, <4>1, <5>1
      <4>2. CASE k > c + 1
        <5>1. k - 1 \in c + 1 .. n /\ (k - 1) + 1 = k /\ at(k) = k - 1 /\ k - 1 \in 1 .. n
          BY <1>1, <4>2
        <5> QED BY <1>2, <5>1
      <4> QED BY <1>1, <3>1, <4>1, <4>2
    <3>2. CASE i # c + 1 /\ j # c + 1
      <4>1. at(i) = at(j)
        <5>1. at(i) \in 1 .. n /\ at(j) \in 1 .. n /\ q[at(i)] = q[at(j)]
          BY <3>1, <3>2, <2>5
        <5> HIDE DEF at
        <5> QED BY <1>3, <5>1
      <4> QED BY <1>1, <3>2, <4>1
    <3>3. CASE i = c + 1 /\ j # c + 1
      <4>1. at(j) \in 1 .. n /\ q[at(j)] = x
        BY <1>2, <3>1, <3>3, <2>5
      <4> HIDE DEF at
      <4> QED BY <1>3, <4>1
    <3>4. CASE i # c + 1 /\ j = c + 1
      <4>1. at(i) \in 1 .. n /\ q[at(i)] = x
        BY <1>2, <3>1, <3>4, <2>5
      <4> HIDE DEF at
      <4> QED BY <1>3, <4>1
    <3> QED BY <3>2, <3>3, <3>4
  <2>6. n + 1 # 0
    BY <1>1
  <2> QED BY <1>2, <2>1, <2>2, <2>3, <2>4, <2>5, <2>6 DEF List
<1>8. List(next, f, m, free_seq)'
  <2>1. \A i \in 1 .. m - 1 : next'[f[i]] = f[i + 1]
    <3>1. \A i \in 1 .. m - 1 : i \in 1 .. m
      BY <1>1
    <3> QED BY <1>3, <1>6, <3>1
  <2>2. next'[f[m]] = NIL
    <3>1. m \in 1 .. m
      BY <1>1
    <3> QED BY <1>3, <1>6, <3>1
  <2>3. List(next, f, m, free_seq)
    BY DEF With, Lists
  <2> QED BY <2>1, <2>2, <2>3 DEF List
<1>9. p[n + 1] = io_seq_end'
  <2>1. CASE c = n
    BY <1>2, <2>1
  <2>2. CASE c < n
    <3>1. n \in c + 1 .. n /\ n > 0 /\ c # n
      BY <1>1, <2>2
    <3> QED BY <1>2, <1>3, <3>1
  <2> QED BY <1>1, <2>1, <2>2
<1>10. prev'[p[1]] = NIL
  <2>1. CASE c = 0
    BY <1>2, <2>1
  <2>2. CASE c > 0
    <3>1. 1 \in 1 .. c /\ n > 0 /\ 1 \in 1 .. n /\ 1 # c + 1
      BY <1>1, <2>2
    <3> QED BY <1>2, <1>3, <1>5, <3>1
  <2> QED BY <1>1, <2>1, <2>2
<1>11. ASSUME NEW i \in 1 .. (n + 1) - 1 PROVE prev'[p[i + 1]] = p[i]
  <2>0. i \in 1 .. n
    BY <1>1
  <2>1. CASE i < c
    <3>1. i \in 1 .. c /\ i + 1 \in 1 .. c /\ i \in 1 .. n - 1 /\ i + 1 \in 1 .. n /\ i + 1 # c + 1
      BY <1>1, <2>0, <2>1
    <3> QED BY <1>2, <1>3, <1>5, <3>1
  <2>2. CASE i = c
    <3>1. i \in 1 .. c /\ c > 0
      BY <1>1, <2>0, <2>2
    <3> QED BY <1>2, <2>2, <3>1
  <2>3. CASE i = c + 1
    <3>1. c < n /\ c + 1 \in c + 1 .. n
      BY <1>1, <2>0, <2>3
    <3> QED BY <1>2, <2>3, <3>1
  <2>4. CASE i > c + 1
    <3>1. i - 1 \in c + 1 .. n /\ i - 1 \in 1 .. n - 1 /\ i \in c + 1 .. n /\ i # c + 1
          /\ (i - 1) + 1 = i
      BY <1>1, <2>0, <2>4
    <3>2. p[i] = q[i - 1] /\ p[i + 1] = q[i]
      BY <1>2, <3>1
    <3>3. prev'[q[i]] = prev[q[i]] /\ prev[q[i]] = q[i - 1]
      BY <1>3, <1>5, <2>0, <3>1
    <3> QED BY <3>2, <3>3
  <2> QED BY <1>1, <2>0, <2>1, <2>2, <2>3, <2>4
<1>12. \A i \in 1 .. n + 1 : \A j \in 1 .. m : p[i] # f[j]
  <2>1. \A i \in 1 .. n + 1 : p[i] \in members(q, n) \union {x}
    BY <1>2 DEF members
  <2> QED BY <2>1, <1>3 DEF members
<1>13. \A e \in Entry : (\E i \in 1 .. n + 1 : p[i] = e) \/ (\E j \in 1 .. m : f[j] = e)
  <2> TAKE e \in Entry
  <2>1. e \in members(q, n) \union {x} \/ \E j \in 1 .. m : f[j] = e
    BY DEF With, Lists, members
  <2> QED BY <1>2, <2>1 DEF members
<1>14. (n + 1) + m + 0 = NR
  BY <1>1, <1>3
<1>15. m > 0 /\ f[m] = free_seq_end'
  BY <1>1, <1>3
<1> QED
  BY <1>7, <1>8, <1>9, <1>10, <1>11, <1>12, <1>13, <1>14, <1>15 DEF Lists

\* The work of an entry that is linked was waiting for it, and no longer is.
LEMMA LinkedWork ==
  ASSUME NEW q, NEW n, NEW f, NEW m, Types, With(q, n, f, m),
         NEW x, x = op.entry, dpc \in {"insert", "walk"}, dpc' = after_enqueue(todo),
         UNCHANGED <<now, work, op, todo, sq_next, worker, effects>>
  PROVE  /\ Todo' /\ Hand' /\ Clock' /\ (op \in Op)' /\ (overtaken \in BOOLEAN)'
         /\ holding /\ ~holding' /\ dpc' # "walk"
         /\ Requests' /\ Commands(members(q, n) \union {x})'
<1> DEFINE Q == members(q, n)
<1>1. holding /\ ~holding' /\ dpc' \in {"reclaim", "allocate"}
  BY DEF holding, after_enqueue
<1>2. sq_next > 1 /\ op.req = sq_next - 1 /\ op \in Op /\ op.internal \in BOOLEAN
      /\ x \in Entry /\ sq_next \in 1 .. NREQ + 1
  BY <1>1 DEF Types, TypeOK, Todo, Hand, Op
<1>3. \/ todo = <<>>
      \/ op.internal /\ \E b \in Op : ~b.internal /\ b.req = sq_next - 1 /\ todo = <<b>>
  BY <1>1, <1>2 DEF Types, Todo
<1>4. Todo'
  <2>1. dpc' = "allocate" <=> todo # <<>>
    BY DEF after_enqueue
  <2> QED BY <1>1, <1>2, <1>3, <2>1 DEF Todo
<1>5. \A i \in BOOLEAN : pending(i)' => pending(i) /\ i # op.internal
  <2> SUFFICES ASSUME NEW i \in BOOLEAN, pending(i)' PROVE pending(i) /\ i # op.internal
    OBVIOUS
  <2>1. PICK k \in DOMAIN todo : todo[k].internal = i
    BY <1>1 DEF pending
  <2>2. todo # <<>>
    BY <2>1
  <2>3. PICK b \in Op : op.internal /\ ~b.internal /\ todo = <<b>>
    BY <1>3, <2>2, Zenon
  <2>4. todo[k] = b
    BY <2>1, <2>3
  <2>5. ~i
    BY <2>1, <2>3, <2>4
  <2> QED BY <2>1, <2>3, <2>5 DEF pending
<1>6. pending(op.internal)
  BY <1>1 DEF pending
<1>7. Hand' /\ Clock' /\ (op \in Op)' /\ (overtaken \in BOOLEAN)'
  BY <1>1, <1>2 DEF Types, Hand, Clock, worker, effects
<1>8. Requests'
  <2> HIDE DEF pending
  <2> QED BY <1>5, RequestsFrame DEF With, effects
<1>9. Commands(Q \union {x})'
  <2> SUFFICES ASSUME ~overtaken PROVE Commands(Q \union {x})'
    BY DEF Commands, effects
  <2>1. UNCHANGED <<id, nsecs_target, is_completed, is_copied, is_internal, buffs_of,
                    latest_nsecs, wpc, curr, sq_next, copied, posted, released, overtaken>>
    BY DEF work, worker, effects
  <2>2. /\ ~is_completed[x] /\ is_copied[x] = op.internal /\ is_internal[x] = op.internal
        /\ ~op.internal => id[x] = sq_next - 1
        /\ op.internal => buffs_of[x] = sq_next - 1
    BY <1>1, <1>2 DEF Types, Hand
  <2>3. x \notin Q
    BY <1>1 DEF With, Lists, members
  <2>4. \A e \in Q \union {x} : is_done(e)' = is_done(e)
    BY <2>1 DEF is_done
  <2>5. ~is_done(x)
    BY <2>2, <2>3 DEF is_done, With, Position, members
  <2>6. sq_next - 1 \in Req /\ sq_next - 1 \in 1 .. sq_next - 1
    BY <1>2, Sizes DEF Req
  <2>7. /\ ~op.internal => copied[sq_next - 1] = 0 /\ posted[sq_next - 1] = 0
        /\ op.internal => released[sq_next - 1] = 0
    <3>1. op.internal = TRUE \/ op.internal = FALSE
      BY <1>2
    <3> HIDE DEF pending
    <3> QED BY <1>6, <2>6, <3>1 DEF With, Requests
  <2>8. Commands(Q)
    BY DEF With
  <2>9. one(FALSE) = 0
    BY DEF one
  <2> HIDE DEF Q, pending, is_done, one
  <2>10. ASSUME NEW e \in Q \union {x}, ~is_internal[e]
         PROVE  /\ id[e] \in 1 .. sq_next - 1
                /\ pending(FALSE)' => id[e] # sq_next - 1
                /\ copied[id[e]] = one(is_copied[e])
                /\ posted[id[e]] = one(is_done(e))
                /\ \A d \in Q \union {x} : d # e /\ ~is_internal[d] => id[d] # id[e]
    <3>1. op.internal = FALSE => \A d \in Q : ~is_internal[d] => id[d] # sq_next - 1
      BY <1>6, <2>8 DEF Commands
    <3>2. CASE e = x
      <4>1. op.internal = FALSE /\ id[x] = sq_next - 1
        BY <1>2, <2>2, <2>10, <3>2
      <4>2. is_copied[x] = FALSE /\ is_done(x) = FALSE
        <5>1. is_done(x) \in BOOLEAN
          BY <1>2 DEF is_done, Types, TypeOK
        <5> QED BY <2>2, <2>5, <4>1, <5>1
      <4>3. ~pending(FALSE)'
        BY <1>5, <4>1
      <4> QED BY <2>2, <2>3, <2>6, <2>7, <2>9, <3>1, <3>2, <4>1, <4>2, <4>3
    <3>3. CASE e # x
      <4>1. e \in Q
        BY <3>3
      <4>2. /\ id[e] \in 1 .. sq_next - 1 /\ (pending(FALSE) => id[e] # sq_next - 1)
            /\ copied[id[e]] = one(is_copied[e]) /\ posted[id[e]] = one(is_done(e))
            /\ \A d \in Q : d # e /\ ~is_internal[d] => id[d] # id[e]
        BY <2>8, <2>10, <4>1 DEF Commands
      <4>3. ~is_internal[x] => id[x] # id[e]
        BY <1>2, <2>2, <2>10, <3>1, <4>1
      <4> QED BY <1>5, <4>2, <4>3
    <3> QED BY <3>2, <3>3
  <2>11. ASSUME NEW e \in Q \union {x}, is_internal[e]
         PROVE  /\ is_copied[e]
                /\ buffs_of[e] \in 1 .. sq_next - 1
                /\ pending(TRUE)' => buffs_of[e] # sq_next - 1
                /\ released[buffs_of[e]] = one(is_done(e))
                /\ \A d \in Q \union {x} : d # e /\ is_internal[d] => buffs_of[d] # buffs_of[e]
    <3>1. op.internal = TRUE => \A d \in Q : is_internal[d] => buffs_of[d] # sq_next - 1
      BY <1>6, <2>8 DEF Commands
    <3>2. CASE e = x
      <4>1. op.internal = TRUE /\ buffs_of[x] = sq_next - 1 /\ is_copied[x]
        BY <1>2, <2>2, <2>11, <3>2
      <4>2. is_done(x) = FALSE
        <5>1. is_done(x) \in BOOLEAN
          BY <1>2 DEF is_done, Types, TypeOK
        <5> QED BY <2>5, <5>1
      <4>3. ~pending(TRUE)'
        BY <1>5, <4>1
      <4> QED BY <2>2, <2>3, <2>6, <2>7, <2>9, <3>1, <3>2, <4>1, <4>2, <4>3
    <3>3. CASE e # x
      <4>1. e \in Q
        BY <3>3
      <4>2. /\ is_copied[e] /\ buffs_of[e] \in 1 .. sq_next - 1
            /\ (pending(TRUE) => buffs_of[e] # sq_next - 1)
            /\ released[buffs_of[e]] = one(is_done(e))
            /\ \A d \in Q : d # e /\ is_internal[d] => buffs_of[d] # buffs_of[e]
        BY <2>8, <2>11, <4>1 DEF Commands
      <4>3. is_internal[x] => buffs_of[x] # buffs_of[e]
        BY <1>2, <2>2, <2>11, <3>1, <4>1
      <4> QED BY <1>5, <4>2, <4>3
    <3> QED BY <3>2, <3>3
  <2>12. \A e \in Q \union {x} : is_completed[e] => is_copied[e] /\ nsecs_target[e] <= latest_nsecs
    BY <2>2, <2>8 DEF Commands
  <2> DEFINE R == Q \union {x}
  <2> HIDE DEF R
  <2>13. ASSUME NEW e \in R, ~is_internal'[e]
         PROVE  /\ id'[e] \in 1 .. sq_next' - 1
                /\ pending(FALSE)' => id'[e] # sq_next' - 1
                /\ copied'[id'[e]] = one(is_copied'[e])
                /\ posted'[id'[e]] = one(is_done(e)')
                /\ \A d \in R : d # e /\ ~is_internal'[d] => id'[d] # id'[e]
    BY <2>1, <2>4, <2>10, <2>13 DEF R
  <2>14. ASSUME NEW e \in R, is_internal'[e]
         PROVE  /\ is_copied'[e]
                /\ buffs_of'[e] \in 1 .. sq_next' - 1
                /\ pending(TRUE)' => buffs_of'[e] # sq_next' - 1
                /\ released'[buffs_of'[e]] = one(is_done(e)')
                /\ \A d \in R : d # e /\ is_internal'[d] => buffs_of'[d] # buffs_of'[e]
    BY <2>1, <2>4, <2>11, <2>14 DEF R
  <2>15. \A e \in R : is_completed'[e] => is_copied'[e] /\ nsecs_target'[e] <= latest_nsecs'
    BY <2>1, <2>12 DEF R
  <2>16. Commands(R)'
    BY <2>13, <2>14, <2>15 DEF Commands, one
  <2> QED BY <2>16 DEF R
<1> QED
  BY <1>1, <1>4, <1>7, <1>8, <1>9

\* Linking an entry between requests that are not later, or due, and requests
\* that are later.
LEMMA LinkStep ==
  ASSUME NEW q, NEW n, NEW f, NEW m, Types, With(q, n, f, m),
         dpc \in {"insert", "walk"}, dpc' = after_enqueue(todo),
         UNCHANGED <<now, work, op, todo, sq_next, worker, effects, free_seq, free_seq_end>>,
         NEW c \in 0 .. n, NEW x, x = op.entry, NEW p, p = inserted(q, n, c, x),
         next'[x] = IF c < n THEN q[c + 1] ELSE NIL,
         c > 0 => next'[q[c]] = x,
         \A e \in Entry : e # x /\ (c > 0 => e # q[c]) => next'[e] = next[e],
         prev'[x] = IF c > 0 THEN q[c] ELSE NIL,
         c < n => prev'[q[c + 1]] = x,
         \A e \in Entry : e # x /\ (c < n => e # q[c + 1]) => prev'[e] = prev[e],
         io_seq' = IF c = 0 THEN x ELSE io_seq,
         io_seq_end' = IF c = n THEN x ELSE io_seq_end,
         next' \in [Entry -> Entry \union {NIL}], prev' \in [Entry -> Entry \union {NIL}],
         c > 0 => \/ nsecs_target[q[c]] <= op.target
                  \/ nsecs_target[q[c]] <= latest_nsecs,
         c < n => op.target <= nsecs_target[q[c + 1]]
  PROVE  IInv'
<1>1. /\ Todo' /\ Hand' /\ Clock' /\ (op \in Op)' /\ (overtaken \in BOOLEAN)'
      /\ holding /\ ~holding' /\ dpc' # "walk"
      /\ Requests' /\ Commands(members(q, n) \union {x})'
  BY LinkedWork
<1>2. Lists(p, n + 1, f, m)'
  BY <1>1, Linking
<1>3. /\ n \in Nat /\ c \in Nat /\ c <= n /\ q \in [1 .. n -> Entry] /\ x \in Entry
      /\ nsecs_target[x] = op.target
  BY <1>1, Facts DEF Types, Hand, holding
<1>4. members(p, n + 1) = members(q, n) \union {x}
  BY <1>3, InsertedIs
<1>5. Position(p, n + 1, f, m)'
  <2>1. (\E i \in 1 .. n : q[i] = curr) => \E i \in 1 .. n + 1 : p[i] = curr
    <3>1. (\E i \in 1 .. n : q[i] = curr) => curr \in members(p, n + 1)
      BY <1>4 DEF members
    <3> QED BY <3>1 DEF members
  <2> QED BY <2>1 DEF With, Position, work, worker, effects
<1>6. Sorted(p, n + 1)'
  <2> SUFFICES ASSUME NEW i \in 1 .. (n + 1) - 1
               PROVE  \/ nsecs_target[p[i]] <= nsecs_target[p[i + 1]]
                      \/ nsecs_target[p[i]] <= latest_nsecs
    BY DEF Sorted, work, worker
  <2>1. \A k \in 1 .. n + 1 : p[k] = IF k <= c THEN q[k] ELSE IF k = c + 1 THEN x ELSE q[k - 1]
    BY <1>3 DEF inserted
  <2>2. i \in 1 .. n /\ i \in 1 .. n + 1 /\ i + 1 \in 1 .. n + 1
    BY <1>3
  <2>3. Sorted(q, n)
    BY DEF With
  <2>4. CASE i < c
    <3>1. p[i] = q[i] /\ p[i + 1] = q[i + 1] /\ i \in 1 .. n - 1
      BY <1>3, <2>1, <2>2, <2>4
    <3> QED BY <2>3, <3>1 DEF Sorted
  <2>5. CASE i = c
    <3>1. p[i] = q[c] /\ p[i + 1] = x /\ c > 0
      BY <1>3, <2>1, <2>2, <2>5
    <3> QED BY <1>3, <3>1
  <2>6. CASE i = c + 1
    <3>1. p[i] = x /\ p[i + 1] = q[c + 1] /\ c < n
      BY <1>3, <2>1, <2>2, <2>6
    <3> QED BY <1>3, <3>1
  <2>7. CASE i > c + 1
    <3>1. i - 1 \in 1 .. n - 1 /\ (i - 1) + 1 = i /\ ~(i <= c) /\ i # c + 1
          /\ ~(i + 1 <= c) /\ i + 1 # c + 1 /\ (i + 1) - 1 = i
      BY <1>3, <2>2, <2>7
    <3>2. p[i] = q[i - 1] /\ p[i + 1] = q[i]
      BY <2>1, <2>2, <3>1
    <3>3. \/ nsecs_target[q[i - 1]] <= nsecs_target[q[i]]
          \/ nsecs_target[q[i - 1]] <= latest_nsecs
      BY <2>3, <3>1 DEF Sorted
    <3> QED BY <3>2, <3>3
  <2> QED BY <1>3, <2>2, <2>4, <2>5, <2>6, <2>7
<1>7. TypeOK'
  <2>1. io_seq' \in Entry \union {NIL} /\ io_seq_end' \in Entry \union {NIL}
    BY <1>3 DEF Types, TypeOK
  <2>2. dpc' \in {"allocate", "reclaim"}
    BY DEF after_enqueue
  <2> QED BY <2>1, <2>2 DEF Types, TypeOK, work, worker, effects
<1>8. Walking(p, n + 1)'
  BY <1>1, NotWalking
<1>9. Commands(members(p, n + 1))'
  BY <1>1, <1>4
<1>10. Types' /\ With(p, n + 1, f, m)'
  BY <1>1, <1>2, <1>5, <1>6, <1>7, <1>8, <1>9 DEF Types, With
<1> QED
  BY <1>10 DEF IInv

LEMMA InsertFirstStep ==
  ASSUME NEW q, NEW n, NEW f, NEW m, Types, With(q, n, f, m), InsertFirst
  PROVE  IInv'
<1>1. /\ dpc = "insert" /\ io_seq = NIL /\ io_seq' = op.entry /\ io_seq_end' = op.entry
      /\ dpc' = after_enqueue(todo) /\ UNCHANGED links
      /\ UNCHANGED <<now, work, op, todo, sq_next, worker, effects, free_seq, free_seq_end>>
  BY DEF InsertFirst
<1>2. PICK x : x = op.entry
  OBVIOUS
<1>3. x \in Entry /\ next[x] = NIL /\ prev[x] = NIL
  BY <1>1, <1>2 DEF Types, Hand, holding
<1>4. n = 0
  <2> SUFFICES ASSUME n # 0 PROVE FALSE
    OBVIOUS
  <2>1. n > 0 /\ 1 \in 1 .. n /\ q[1] \in Entry
    BY Facts
  <2> QED BY <1>1, <2>1, Sizes DEF With, Lists, List
<1>5. UNCHANGED <<next, prev>> /\ next \in [Entry -> Entry \union {NIL}]
      /\ prev \in [Entry -> Entry \union {NIL}]
  BY <1>1, Facts DEF links
<1>6. PICK p : p = inserted(q, n, 0, x)
  OBVIOUS
<1>7. 0 \in 0 .. n /\ ~(0 > 0) /\ ~(0 < n)
  BY <1>4
<1>8. /\ next'[x] = (IF 0 < n THEN q[0 + 1] ELSE NIL) /\ prev'[x] = (IF 0 > 0 THEN q[0] ELSE NIL)
      /\ 0 > 0 => next'[q[0]] = x
      /\ \A e \in Entry : e # x /\ (0 > 0 => e # q[0]) => next'[e] = next[e]
      /\ 0 < n => prev'[q[0 + 1]] = x
      /\ \A e \in Entry : e # x /\ (0 < n => e # q[0 + 1]) => prev'[e] = prev[e]
      /\ io_seq' = (IF 0 = 0 THEN x ELSE io_seq)
      /\ io_seq_end' = (IF 0 = n THEN x ELSE io_seq_end)
      /\ 0 > 0 => \/ nsecs_target[q[0]] <= op.target
                  \/ nsecs_target[q[0]] <= latest_nsecs
      /\ 0 < n => op.target <= nsecs_target[q[0 + 1]]
  BY <1>1, <1>2, <1>3, <1>4, <1>5, <1>7
<1> QED
  BY <1>1, <1>2, <1>5, <1>6, <1>7, <1>8, LinkStep

LEMMA LinkHeadStep ==
  ASSUME NEW q, NEW n, NEW f, NEW m, Types, With(q, n, f, m), LinkHead
  PROVE  IInv'
<1>1. /\ dpc = "walk" /\ op.at = NIL
      /\ prev' = [prev EXCEPT ![io_seq] = op.entry]
      /\ next' = [next EXCEPT ![op.entry] = io_seq]
      /\ io_seq' = op.entry /\ UNCHANGED io_seq_end
      /\ dpc' = after_enqueue(todo)
      /\ UNCHANGED <<now, work, op, todo, sq_next, worker, effects, free_seq, free_seq_end>>
  BY DEF LinkHead
<1>2. PICK x : x = op.entry
  OBVIOUS
<1>3. x \in Entry /\ next[x] = NIL /\ prev[x] = NIL
  BY <1>1, <1>2 DEF Types, Hand, holding
<1>4. n > 0 /\ n \in Nat /\ q[1] = io_seq /\ op.target < nsecs_target[q[1]]
  BY <1>1, Facts DEF With, Walking, Lists, List
<1>5. q[1] \in Entry /\ q[1] # x /\ op.target \in 0 .. MAXT /\ nsecs_target[q[1]] \in 0 .. MAXT
  <2>1. 1 \in 1 .. n /\ holding
    BY <1>1, <1>4 DEF holding
  <2>2. q[1] \in Entry
    BY <2>1, Facts
  <2> QED BY <1>2, <2>1, <2>2, Facts DEF With, Lists, Op
<1>6. /\ next \in [Entry -> Entry \union {NIL}] /\ prev \in [Entry -> Entry \union {NIL}]
      /\ next' \in [Entry -> Entry \union {NIL}] /\ prev' \in [Entry -> Entry \union {NIL}]
  <2>1. next \in [Entry -> Entry \union {NIL}] /\ prev \in [Entry -> Entry \union {NIL}]
    BY Facts
  <2> QED BY <1>1, <1>2, <1>3, <1>4, <1>5, <2>1
<1>7. PICK p : p = inserted(q, n, 0, x)
  OBVIOUS
<1>8. 0 \in 0 .. n /\ ~(0 > 0) /\ 0 < n /\ 0 # n /\ 0 + 1 = 1
  BY <1>4
<1>9. /\ next'[x] = q[1] /\ prev'[x] = NIL /\ prev'[q[1]] = x
      /\ \A e \in Entry : e # x => next'[e] = next[e]
      /\ \A e \in Entry : e # q[1] => prev'[e] = prev[e]
  BY <1>1, <1>2, <1>3, <1>4, <1>5, <1>6
<1>10. op.target <= nsecs_target[q[1]]
  BY <1>4, <1>5, Sizes
<1>11. /\ next'[x] = (IF 0 < n THEN q[0 + 1] ELSE NIL) /\ prev'[x] = (IF 0 > 0 THEN q[0] ELSE NIL)
       /\ 0 > 0 => next'[q[0]] = x
       /\ \A e \in Entry : e # x /\ (0 > 0 => e # q[0]) => next'[e] = next[e]
       /\ 0 < n => prev'[q[0 + 1]] = x
       /\ \A e \in Entry : e # x /\ (0 < n => e # q[0 + 1]) => prev'[e] = prev[e]
       /\ io_seq' = (IF 0 = 0 THEN x ELSE io_seq)
       /\ io_seq_end' = (IF 0 = n THEN x ELSE io_seq_end)
       /\ 0 > 0 => \/ nsecs_target[q[0]] <= op.target
                   \/ nsecs_target[q[0]] <= latest_nsecs
       /\ 0 < n => op.target <= nsecs_target[q[0 + 1]]
  BY <1>1, <1>2, <1>8, <1>9, <1>10
<1> QED
  BY <1>1, <1>2, <1>6, <1>7, <1>8, <1>11, LinkStep

LEMMA LinkAfterStep ==
  ASSUME NEW q, NEW n, NEW f, NEW m, Types, With(q, n, f, m), LinkAfter
  PROVE  IInv'
<1> DEFINE succ == next[op.at]
<1>1. /\ dpc = "walk" /\ op.at # NIL /\ walk_stops(op.at)
      /\ prev' = [e \in Entry |-> IF e = op.entry THEN op.at
                                  ELSE IF e = succ THEN op.entry ELSE prev[e]]
      /\ next' = [next EXCEPT ![op.entry] = succ, ![op.at] = op.entry]
      /\ io_seq_end' = (IF succ = NIL THEN op.entry ELSE io_seq_end)
      /\ UNCHANGED io_seq
      /\ dpc' = after_enqueue(todo)
      /\ UNCHANGED <<now, work, op, todo, sq_next, worker, effects, free_seq, free_seq_end>>
  BY DEF LinkAfter, new_end
<1>2. PICK x : x = op.entry
  OBVIOUS
<1>3. PICK c \in 1 .. n : q[c] = op.at
  BY <1>1 DEF With, Walking
<1>4. x \in Entry /\ n \in Nat /\ c \in Nat /\ c <= n /\ c > 0 /\ q[c] \in Entry /\ q[c] # x
  <2>1. holding
    BY <1>1 DEF holding
  <2>2. q[c] \in Entry
    BY Facts
  <2>3. x \in Entry
    BY <1>2, <2>1 DEF Types, Hand
  <2>4. q[c] # x
    BY <1>2, <2>1 DEF With, Lists
  <2>5. n \in Nat
    BY Facts
  <2> QED BY <2>2, <2>3, <2>4, <2>5
<1>5. succ = (IF c < n THEN q[c + 1] ELSE NIL) /\ (c < n => q[c + 1] \in Entry /\ q[c + 1] # x)
  <2>1. CASE c < n
    <3>1. c \in 1 .. n - 1 /\ c + 1 \in 1 .. n /\ holding
      BY <1>1, <1>4, <2>1 DEF holding
    <3>2. q[c + 1] \in Entry
      BY <3>1, Facts
    <3> QED BY <1>2, <1>3, <2>1, <3>1, <3>2 DEF With, Lists, List
  <2>2. CASE c = n
    BY <1>3, <1>4, <2>2 DEF With, Lists, List
  <2> QED BY <1>4, <2>1, <2>2
<1>6. next \in [Entry -> Entry \union {NIL}] /\ prev \in [Entry -> Entry \union {NIL}]
  BY Facts
<1>7. succ \in Entry \union {NIL} /\ (succ = NIL <=> ~(c < n))
  BY <1>4, <1>5, Sizes
<1> HIDE DEF succ
<1>8. /\ next' \in [Entry -> Entry \union {NIL}] /\ prev' \in [Entry -> Entry \union {NIL}]
      /\ next'[x] = succ /\ next'[q[c]] = x /\ prev'[x] = q[c]
      /\ \A e \in Entry : e # x /\ e # q[c] => next'[e] = next[e]
      /\ \A e \in Entry : e # x /\ e # succ => prev'[e] = prev[e]
      /\ succ \in Entry /\ succ # x => prev'[succ] = x
  BY <1>1, <1>2, <1>3, <1>4, <1>6, <1>7
<1>9. PICK p : p = inserted(q, n, c, x)
  OBVIOUS
<1>10. c > 0 => \/ nsecs_target[q[c]] <= op.target
                \/ nsecs_target[q[c]] <= latest_nsecs
  BY <1>1, <1>3 DEF walk_stops
<1>11. c < n => op.target <= nsecs_target[q[c + 1]]
  <2> SUFFICES ASSUME c < n PROVE op.target <= nsecs_target[q[c + 1]]
    OBVIOUS
  <2>1. c \in 1 .. n - 1
    BY <1>4
  <2>2. op.target < nsecs_target[q[c + 1]]
    BY <1>1, <1>3, <2>1 DEF With, Walking
  <2>3. op.target \in 0 .. MAXT /\ nsecs_target[q[c + 1]] \in 0 .. MAXT
    BY <1>5, Facts DEF Op
  <2> QED BY <2>2, <2>3, Sizes
<1>12. \A e \in Entry : e # x /\ (c < n => e # q[c + 1]) => prev'[e] = prev[e]
  <2> TAKE e \in Entry
  <2>1. CASE c < n
    BY <1>5, <1>8, <2>1
  <2>2. CASE ~(c < n)
    <3>1. e # succ
      BY <1>7, <2>2, Sizes
    <3> QED BY <1>8, <3>1
  <2> QED BY <2>1, <2>2
<1>13. /\ c \in 0 .. n
       /\ next'[x] = (IF c < n THEN q[c + 1] ELSE NIL) /\ prev'[x] = (IF c > 0 THEN q[c] ELSE NIL)
       /\ c > 0 => next'[q[c]] = x
       /\ \A e \in Entry : e # x /\ (c > 0 => e # q[c]) => next'[e] = next[e]
       /\ c < n => prev'[q[c + 1]] = x
       /\ io_seq' = (IF c = 0 THEN x ELSE io_seq)
       /\ io_seq_end' = (IF c = n THEN x ELSE io_seq_end)
  <2>1. c = n <=> ~(c < n)
    BY <1>4
  <2>2. c # 0 /\ c \in 0 .. n
    BY <1>4
  <2> QED BY <1>1, <1>2, <1>4, <1>5, <1>7, <1>8, <2>1, <2>2
<1>14. next' \in [Entry -> Entry \union {NIL}] /\ prev' \in [Entry -> Entry \union {NIL}]
  BY <1>8
<1>15. /\ dpc \in {"insert", "walk"} /\ dpc' = after_enqueue(todo)
       /\ UNCHANGED <<now, work, op, todo, sq_next, worker, effects, free_seq, free_seq_end>>
  BY <1>1
<1> QED
  BY <1>2, <1>9, <1>10, <1>11, <1>12, <1>13, <1>14, <1>15, LinkStep

\* There is a longest completed prefix, and all of it is completed.
LEMMA PrefixLen ==
  ASSUME NEW q, NEW n \in Nat, Len(q) = n
  PROVE  prefix_len(q) \in 0 .. n /\ \A i \in 1 .. prefix_len(q) : reclaimable(q[i])
<1> DEFINE good(k) == /\ \A i \in 1 .. k : reclaimable(q[i])
                      /\ k < n => ~reclaimable(q[k + 1])
           S == {k \in 0 .. n : k = n \/ ~reclaimable(q[k + 1])}
<1>1. PICK k \in S : \A j \in S : k <= j
  <2>1. S \in SUBSET Nat /\ n \in S
    OBVIOUS
  <2> HIDE DEF S
  <2> QED BY <2>1, Smallest
<1>2. ASSUME NEW i \in 1 .. k PROVE reclaimable(q[i])
  <2>1. i - 1 \in 0 .. n /\ i - 1 < k /\ i - 1 # n /\ (i - 1) + 1 = i
    OBVIOUS
  <2>2. i - 1 \notin S
    <3> HIDE DEF S
    <3>1. k \in Nat /\ i - 1 \in Nat
      BY <2>1, <1>1 DEF S
    <3> QED BY <1>1, <2>1, <3>1
  <2> QED BY <2>1, <2>2
<1>3. k \in 0 .. n /\ good(k)
  BY <1>1, <1>2
<1>4. prefix_len(q) = CHOOSE j \in 0 .. n : good(j)
  BY DEF prefix_len
<1>5. prefix_len(q) \in 0 .. n /\ good(prefix_len(q))
  <2> HIDE DEF good
  <2> QED BY <1>3, <1>4
<1> QED
  BY <1>5

\* The first k requests go to the end of the free list.
LEMMA Reclaiming ==
  ASSUME NEW q, NEW n, NEW f, NEW m, Types, With(q, n, f, m), ~holding, ~holding',
         NEW k \in 1 .. n, NEW s, s = next[q[k]],
         NEW p, p = [i \in 1 .. n - k |-> q[i + k]],
         NEW g, g = [j \in 1 .. m + k |-> IF j <= m THEN f[j] ELSE q[j - m]],
         io_seq' = s,
         prev' = [e \in Entry |-> IF e = s THEN NIL
                                  ELSE IF e = q[1] THEN free_seq_end ELSE prev[e]],
         next' = [e \in Entry |-> IF e = q[k] THEN NIL
                                  ELSE IF e = free_seq_end THEN q[1] ELSE next[e]],
         free_seq_end' = q[k], UNCHANGED <<free_seq, io_seq_end>>
  PROVE  Lists(p, n - k, g, m + k)'
<1>1. /\ n \in Nat /\ m \in Nat /\ m > 0 /\ n <= NR /\ m <= NR /\ k \in Nat /\ k <= n /\ k > 0
      /\ q \in [1 .. n -> Entry] /\ f \in [1 .. m -> Entry]
      /\ NR \in Nat /\ NIL \notin Entry
  <2>1. /\ n \in Nat /\ m \in Nat /\ m > 0 /\ n <= NR /\ m <= NR
        /\ q \in [1 .. n -> Entry] /\ f \in [1 .. m -> Entry]
    BY Facts
  <2>2. k \in Nat /\ k <= n /\ k > 0
    BY <2>1
  <2> QED BY <2>1, <2>2, Sizes
<1>2. /\ \A i \in 1 .. n : q[i] \in Entry
      /\ \A j \in 1 .. m : f[j] \in Entry
      /\ \A i \in 1 .. n : \A j \in 1 .. m : q[i] # f[j]
      /\ \A i, j \in 1 .. n : q[i] = q[j] => i = j
      /\ \A i, j \in 1 .. m : f[i] = f[j] => i = j
      /\ q[1] = io_seq /\ next[q[n]] = NIL /\ q[n] = io_seq_end
      /\ \A i \in 1 .. n - 1 : next[q[i]] = q[i + 1] /\ prev[q[i + 1]] = q[i]
      /\ f[1] = free_seq /\ next[f[m]] = NIL /\ f[m] = free_seq_end
      /\ \A i \in 1 .. m - 1 : next[f[i]] = f[i + 1]
      /\ n + m = NR
  <2>1. n + m + 0 = NR
    BY DEF With, Lists
  <2>2. n > 0
    BY <1>1
  <2> QED BY <1>1, <2>1, <2>2 DEF With, Lists, List
<1>3. s = (IF k < n THEN q[k + 1] ELSE NIL)
  <2>1. k < n => k \in 1 .. n - 1
    BY <1>1
  <2>2. ~(k < n) => k = n
    BY <1>1
  <2> QED BY <1>2, <2>1, <2>2
<1>4. /\ \A i \in 1 .. n - k : p[i] = q[i + k] /\ i + k \in 1 .. n
      /\ p \in [1 .. n - k -> Entry]
  <2>1. \A i \in 1 .. n - k : i + k \in 1 .. n
    BY <1>1
  <2> QED BY <1>2, <2>1
<1>5. /\ \A j \in 1 .. m : g[j] = f[j]
      /\ \A j \in 1 .. k : g[j + m] = q[j]
      /\ g \in [1 .. m + k -> Entry]
  <2>1. \A j \in 1 .. m : j \in 1 .. m + k /\ j <= m
    BY <1>1
  <2>2. \A j \in 1 .. k : j + m \in 1 .. m + k /\ ~(j + m <= m) /\ (j + m) - m = j
    BY <1>1
  <2>3. \A j \in 1 .. m + k : j <= m => j \in 1 .. m
    BY <1>1
  <2>4. \A j \in 1 .. m + k : ~(j <= m) => j - m \in 1 .. n
    BY <1>1
  <2> QED BY <1>2, <2>1, <2>2, <2>3, <2>4
<1>6. /\ \A i \in 1 .. n : i # k => next'[q[i]] = next[q[i]]
      /\ next'[q[k]] = NIL
      /\ \A j \in 1 .. m : j # m => next'[f[j]] = next[f[j]]
      /\ next'[f[m]] = q[1]
  <2>1. \A i \in 1 .. n : q[i] # free_seq_end
    <3>1. m \in 1 .. m
      BY <1>1
    <3> QED BY <1>2, <3>1
  <2>2. \A j \in 1 .. m : f[j] # q[k]
    BY <1>2
  <2>3. \A i \in 1 .. n : i # k => q[i] # q[k]
    BY <1>2
  <2>4. m \in 1 .. m /\ \A j \in 1 .. m : j # m => f[j] # free_seq_end
    <3>1. m \in 1 .. m
      BY <1>1
    <3> QED BY <1>2, <3>1
  <2> QED BY <1>2, <2>1, <2>2, <2>3, <2>4
<1>7. /\ k < n => prev'[q[k + 1]] = NIL
      /\ \A i \in 1 .. n : i > k + 1 => prev'[q[i]] = prev[q[i]]
  <2>1. k < n => k + 1 \in 1 .. n
    BY <1>1
  <2>2. \A i \in 1 .. n : i > k + 1 => /\ k < n /\ i # k + 1 /\ i # 1 /\ k + 1 \in 1 .. n
                                       /\ 1 \in 1 .. n
    BY <1>1
  <2>3. k < n => prev'[q[k + 1]] = NIL
    BY <1>2, <1>3, <2>1
  <2>4. ASSUME NEW i \in 1 .. n, i > k + 1 PROVE prev'[q[i]] = prev[q[i]]
    <3>1. q[i] # q[k + 1] /\ q[i] # q[1] /\ s = q[k + 1] /\ q[i] \in Entry
      BY <1>2, <1>3, <2>2, <2>4
    <3> QED BY <3>1
  <2> QED BY <2>3, <2>4
<1>8. n - k \in 0 .. NR /\ m + k \in 0 .. NR /\ m + k > 0 /\ (n - k) + (m + k) + 0 = NR
  BY <1>1, <1>2
<1>9. List(next, p, n - k, io_seq)'
  <2>1. n - k = 0 => io_seq' = NIL
    BY <1>1, <1>3
  <2>2. n - k > 0 => p[1] = io_seq' /\ next'[p[n - k]] = NIL
    <3> SUFFICES ASSUME n - k > 0 PROVE p[1] = io_seq' /\ next'[p[n - k]] = NIL
      OBVIOUS
    <3>1. 1 \in 1 .. n - k /\ n - k \in 1 .. n - k /\ (n - k) + k = n /\ k < n /\ n # k /\ n \in 1 .. n
          /\ 1 + k = k + 1
      BY <1>1
    <3>2. p[1] = q[k + 1] /\ p[n - k] = q[n]
      BY <1>4, <3>1
    <3> QED BY <1>2, <1>3, <1>6, <3>1, <3>2
  <2>3. ASSUME NEW i \in 1 .. (n - k) - 1 PROVE next'[p[i]] = p[i + 1]
    <3>1. i \in 1 .. n - k /\ i + 1 \in 1 .. n - k /\ i + k \in 1 .. n - 1 /\ i + k # k
          /\ (i + 1) + k = (i + k) + 1 /\ i + k \in 1 .. n
      BY <1>1
    <3>2. p[i] = q[i + k] /\ p[i + 1] = q[(i + k) + 1]
      BY <1>4, <3>1
    <3>3. next'[q[i + k]] = next[q[i + k]] /\ next[q[i + k]] = q[(i + k) + 1]
      BY <1>2, <1>6, <3>1
    <3> QED BY <3>2, <3>3
  <2>4. ASSUME NEW i \in 1 .. n - k, NEW j \in 1 .. n - k, p[i] = p[j] PROVE i = j
    <3>1. i + k = j + k
      BY <1>2, <1>4, <2>4
    <3> QED BY <1>1, <3>1
  <2> QED BY <1>4, <1>8, <2>1, <2>2, <2>3, <2>4 DEF List
<1>10. List(next, g, m + k, free_seq)'
  <2>1. g[1] = free_seq'
    <3>1. 1 \in 1 .. m
      BY <1>1
    <3> QED BY <1>2, <1>5, <3>1
  <2>2. g[m + k] = q[k] /\ next'[g[m + k]] = NIL
    <3>1. k \in 1 .. k /\ k + m = m + k
      BY <1>1
    <3>2. g[m + k] = q[k]
      BY <1>5, <3>1
    <3> QED BY <1>6, <3>2
  <2>3. ASSUME NEW j \in 1 .. (m + k) - 1 PROVE next'[g[j]] = g[j + 1]
    <3>1. CASE j < m
      <4>1. j \in 1 .. m /\ j + 1 \in 1 .. m /\ j \in 1 .. m - 1 /\ j # m
        BY <1>1, <3>1
      <4> QED BY <1>2, <1>5, <1>6, <4>1
    <3>2. CASE j = m
      <4>1. j \in 1 .. m /\ 1 \in 1 .. k /\ j + 1 = 1 + m
        BY <1>1, <3>2
      <4> QED BY <1>5, <1>6, <3>2, <4>1
    <3>3. CASE j > m
      <4>1. /\ j - m \in 1 .. k /\ (j - m) + 1 \in 1 .. k /\ j - m \in 1 .. n - 1
            /\ j - m # k /\ (j - m) + m = j /\ ((j - m) + 1) + m = j + 1 /\ j - m \in 1 .. n
        BY <1>1, <3>3
      <4>2. g[j] = q[j - m] /\ g[j + 1] = q[(j - m) + 1]
        BY <1>5, <4>1
      <4>3. next'[q[j - m]] = next[q[j - m]] /\ next[q[j - m]] = q[(j - m) + 1]
        BY <1>2, <1>6, <4>1
      <4> QED BY <4>2, <4>3
    <3> QED BY <1>1, <3>1, <3>2, <3>3
  <2>4. ASSUME NEW i \in 1 .. m + k, NEW j \in 1 .. m + k, g[i] = g[j] PROVE i = j
    <3>1. CASE i <= m /\ j <= m
      <4>1. i \in 1 .. m /\ j \in 1 .. m
        BY <1>1, <3>1
      <4> QED BY <1>2, <1>5, <2>4, <4>1
    <3>2. CASE i > m /\ j > m
      <4>1. i - m \in 1 .. k /\ j - m \in 1 .. k /\ i - m \in 1 .. n /\ j - m \in 1 .. n
            /\ (i - m) + m = i /\ (j - m) + m = j
        BY <1>1, <3>2
      <4>2. q[i - m] = q[j - m]
        BY <1>5, <2>4, <4>1
      <4>3. i - m = j - m
        BY <1>2, <4>1, <4>2
      <4> QED BY <1>1, <4>3
    <3>3. CASE i <= m /\ j > m
      <4>1. i \in 1 .. m /\ j - m \in 1 .. k /\ (j - m) + m = j /\ j - m \in 1 .. n
        BY <1>1, <3>3
      <4>2. f[i] = q[j - m]
        BY <1>5, <2>4, <4>1
      <4> QED BY <1>2, <4>1, <4>2
    <3>4. CASE i > m /\ j <= m
      <4>1. j \in 1 .. m /\ i - m \in 1 .. k /\ (i - m) + m = i /\ i - m \in 1 .. n
        BY <1>1, <3>4
      <4>2. f[j] = q[i - m]
        BY <1>5, <2>4, <4>1
      <4> QED BY <1>2, <4>1, <4>2
    <3> QED BY <1>1, <3>1, <3>2, <3>3, <3>4
  <2>5. m + k # 0
    BY <1>1
  <2> QED BY <1>5, <1>8, <2>1, <2>2, <2>3, <2>4, <2>5 DEF List
<1>11. g[m + k] = free_seq_end'
  <2>1. k \in 1 .. k /\ k + m = m + k
    BY <1>1
  <2> QED BY <1>5, <2>1
<1>12. n - k > 0 => p[n - k] = io_seq_end' /\ prev'[p[1]] = NIL
  <2> SUFFICES ASSUME n - k > 0 PROVE p[n - k] = io_seq_end' /\ prev'[p[1]] = NIL
    OBVIOUS
  <2>1. 1 \in 1 .. n - k /\ n - k \in 1 .. n - k /\ (n - k) + k = n /\ k < n /\ 1 + k = k + 1
    BY <1>1
  <2>2. p[1] = q[k + 1] /\ p[n - k] = q[n]
    BY <1>4, <2>1
  <2> QED BY <1>2, <1>7, <2>1, <2>2
<1>13. ASSUME NEW i \in 1 .. (n - k) - 1 PROVE prev'[p[i + 1]] = p[i]
  <2>1. i \in 1 .. n - k /\ i + 1 \in 1 .. n - k /\ i + k \in 1 .. n - 1
        /\ (i + 1) + k = (i + k) + 1 /\ (i + k) + 1 \in 1 .. n /\ (i + k) + 1 > k + 1
    BY <1>1
  <2>2. p[i] = q[i + k] /\ p[i + 1] = q[(i + k) + 1]
    BY <1>4, <2>1
  <2>3. prev'[q[(i + k) + 1]] = prev[q[(i + k) + 1]] /\ prev[q[(i + k) + 1]] = q[i + k]
    BY <1>2, <1>7, <2>1
  <2> QED BY <2>2, <2>3
<1>14. ASSUME NEW i \in 1 .. n - k, NEW j \in 1 .. m + k PROVE p[i] # g[j]
  <2>1. CASE j <= m
    <3>1. j \in 1 .. m
      BY <1>1, <2>1
    <3> QED BY <1>2, <1>4, <1>5, <3>1
  <2>2. CASE j > m
    <3>1. j - m \in 1 .. k /\ (j - m) + m = j /\ j - m \in 1 .. n /\ i + k # j - m /\ i + k \in 1 .. n
      BY <1>1, <2>2
    <3>2. g[j] = q[j - m] /\ p[i] = q[i + k]
      BY <1>4, <1>5, <3>1
    <3> QED BY <1>2, <3>1, <3>2
  <2> QED BY <1>1, <2>1, <2>2
<1>15. ASSUME NEW e \in Entry
       PROVE  (\E i \in 1 .. n - k : p[i] = e) \/ (\E j \in 1 .. m + k : g[j] = e)
  <2>1. CASE \E j \in 1 .. m : f[j] = e
    <3>1. PICK j \in 1 .. m : f[j] = e
      BY <2>1
    <3>2. j \in 1 .. m + k /\ g[j] = e
      BY <1>1, <1>5, <3>1
    <3> QED BY <3>2
  <2>2. CASE \E i \in 1 .. n : q[i] = e
    <3>1. PICK i \in 1 .. n : q[i] = e
      BY <2>2
    <3>2. CASE i <= k
      <4>1. i \in 1 .. k /\ i + m \in 1 .. m + k
        BY <1>1, <3>2
      <4>2. g[i + m] = e
        BY <1>5, <3>1, <4>1
      <4> QED BY <4>1, <4>2
    <3>3. CASE i > k
      <4>1. i - k \in 1 .. n - k /\ (i - k) + k = i
        BY <1>1, <3>3
      <4>2. p[i - k] = e
        BY <1>4, <3>1, <4>1
      <4> QED BY <4>1, <4>2
    <3> QED BY <1>1, <3>2, <3>3
  <2> QED BY <2>1, <2>2 DEF With, Lists
<1> QED
  BY <1>8, <1>9, <1>10, <1>11, <1>12, <1>13, <1>14, <1>15 DEF Lists

\* What holds of the requests holds of a part of them.
LEMMA CommandsPart ==
  ASSUME NEW Q, NEW R, R \subseteq Q, Commands(Q)
  PROVE  Commands(R)
<1> HIDE DEF is_done, pending, one
<1> QED
  BY DEF Commands

LEMMA ReclaimStep ==
  ASSUME NEW q, NEW n, NEW f, NEW m, Types, With(q, n, f, m), Reclaim
  PROVE  IInv'
<1>1. /\ dpc = "reclaim" /\ dpc' = "idle" /\ op' = no_op
      /\ UNCHANGED <<now, work, todo, sq_next, worker, effects>>
  BY DEF Reclaim
<1>2. chain(next, io_seq) = q /\ Len(q) = n /\ n \in Nat
  BY ListChain, Facts DEF With, Lists
<1>3. PICK k : k = prefix_len(q)
  OBVIOUS
<1>4. k \in 0 .. n /\ \A i \in 1 .. k : reclaimable(q[i])
  BY <1>2, <1>3, PrefixLen
<1>5. IF k = 0
      THEN UNCHANGED <<links, seqs>>
      ELSE /\ io_seq' = next[q[k]]
           /\ prev' = [e \in Entry |-> IF e = next[q[k]] THEN NIL
                                       ELSE IF e = q[1] THEN free_seq_end ELSE prev[e]]
           /\ next' = [e \in Entry |-> IF e = q[k] THEN NIL
                                       ELSE IF e = free_seq_end THEN q[1] ELSE next[e]]
           /\ free_seq_end' = q[k]
           /\ UNCHANGED <<free_seq, io_seq_end>>
  BY <1>2, <1>3, Zenon DEF Reclaim
<1>6. ~holding /\ ~holding' /\ holding' = holding
  BY <1>1 DEF holding
<1>7. Todo' /\ Hand' /\ op' \in Op /\ Clock' /\ (overtaken \in BOOLEAN)'
  <2>1. op' \in Op
    BY <1>1, Sizes DEF no_op, Op
  <2>2. todo = <<>>
    BY <1>1 DEF Types, Todo
  <2>3. Todo'
    BY <1>1, <1>6, <2>2 DEF Todo
  <2> QED BY <1>1, <1>6, <2>1, <2>3 DEF Types, Hand, Clock, worker, effects
<1>8. \A i \in BOOLEAN : pending(i)' => pending(i)
  BY <1>1, <1>6 DEF pending
<1>9. CASE k = 0
  <2>1. UNCHANGED <<links, seqs>>
    BY <1>5, <1>9
  <2>2. TypeOK'
    BY <1>1, <1>7, <2>1 DEF Types, TypeOK, work, links, seqs, worker, effects, Op
  <2>3. UNCHANGED <<now, work, links, seqs, sq_next, worker, copied, posted, released, overtaken>>
    BY <1>1, <2>1 DEF effects
  <2>4. Walking(q, n)'
    BY <1>1, NotWalking
  <2> HIDE DEF pending
  <2>5. Types' /\ With(q, n, f, m)'
    BY <1>6, <1>7, <1>8, <2>2, <2>3, <2>4, DispatcherMoves
  <2> QED BY <2>5 DEF IInv
<1>10. CASE k # 0
  <2>1. /\ k \in 1 .. n /\ k \in Nat /\ k > 0 /\ k <= n
        /\ n \in Nat /\ m \in Nat /\ q \in [1 .. n -> Entry] /\ f \in [1 .. m -> Entry]
    BY <1>4, <1>10, Facts
  <2>2. PICK p : p = [i \in 1 .. n - k |-> q[i + k]]
    OBVIOUS
  <2>3. PICK g : g = [j \in 1 .. m + k |-> IF j <= m THEN f[j] ELSE q[j - m]]
    OBVIOUS
  <2>4. PICK s : s = next[q[k]]
    OBVIOUS
  <2>5. /\ io_seq' = s
        /\ prev' = [e \in Entry |-> IF e = s THEN NIL
                                    ELSE IF e = q[1] THEN free_seq_end ELSE prev[e]]
        /\ next' = [e \in Entry |-> IF e = q[k] THEN NIL
                                    ELSE IF e = free_seq_end THEN q[1] ELSE next[e]]
        /\ free_seq_end' = q[k] /\ UNCHANGED <<free_seq, io_seq_end>>
    BY <1>5, <1>10, <2>4, Zenon
  <2>6. Lists(p, n - k, g, m + k)'
    BY <1>6, <2>1, <2>2, <2>3, <2>4, <2>5, Reclaiming, Zenon
  <2>7. q[1] \in Entry /\ q[k] \in Entry /\ s \in Entry \union {NIL} /\ free_seq_end \in Entry
        /\ next \in [Entry -> Entry \union {NIL}] /\ prev \in [Entry -> Entry \union {NIL}]
    <3>1. next \in [Entry -> Entry \union {NIL}] /\ prev \in [Entry -> Entry \union {NIL}]
          /\ free_seq_end \in Entry
      BY DEF Types, TypeOK
    <3>2. q[1] \in Entry /\ q[k] \in Entry
      BY <2>1
    <3> QED BY <2>4, <3>1, <3>2
  <2>8. TypeOK'
    <3>1. next' \in [Entry -> Entry \union {NIL}] /\ prev' \in [Entry -> Entry \union {NIL}]
      BY <2>5, <2>7
    <3>2. op'.entry \in Entry \union {NIL} /\ op'.at \in Entry \union {NIL}
      BY <1>7 DEF Op
    <3> QED BY <1>1, <2>5, <2>7, <3>1, <3>2 DEF Types, TypeOK, work, worker, effects
  <2>9. /\ \A i \in 1 .. n - k : p[i] = q[i + k] /\ i + k \in 1 .. n
        /\ \A i \in 1 .. n : i > k => i - k \in 1 .. n - k /\ p[i - k] = q[i]
    <3>1. \A i \in 1 .. n - k : p[i] = q[i + k] /\ i + k \in 1 .. n
      BY <2>1, <2>2
    <3>2. \A i \in 1 .. n : i > k => i - k \in 1 .. n - k /\ (i - k) + k = i
      BY <2>1
    <3> QED BY <3>1, <3>2
  <2>10. /\ \A j \in 1 .. m : g[j] = f[j] /\ j \in 1 .. m + k
         /\ \A j \in 1 .. k : g[j + m] = q[j] /\ j + m \in 1 .. m + k /\ j \in 1 .. n
    <3>1. \A j \in 1 .. m : j \in 1 .. m + k /\ j <= m
      BY <2>1
    <3>2. \A j \in 1 .. k : j + m \in 1 .. m + k /\ ~(j + m <= m) /\ (j + m) - m = j /\ j \in 1 .. n
      BY <2>1
    <3> QED BY <2>3, <3>1, <3>2
  <2>11. \A i \in 1 .. k : is_completed[q[i]]
    BY <1>4 DEF reclaimable
  <2>12. Sorted(p, n - k)'
    <3> SUFFICES ASSUME NEW i \in 1 .. (n - k) - 1
                 PROVE  \/ nsecs_target[p[i]] <= nsecs_target[p[i + 1]]
                        \/ nsecs_target[p[i]] <= latest_nsecs
      BY <1>1 DEF Sorted, work, worker
    <3>1. i \in 1 .. n - k /\ i + 1 \in 1 .. n - k /\ i + k \in 1 .. n - 1 /\ (i + 1) + k = (i + k) + 1
      BY <2>1
    <3>2. p[i] = q[i + k] /\ p[i + 1] = q[(i + k) + 1]
      BY <2>9, <3>1
    <3>3. \/ nsecs_target[q[i + k]] <= nsecs_target[q[(i + k) + 1]]
          \/ nsecs_target[q[i + k]] <= latest_nsecs
      BY <3>1 DEF With, Sorted
    <3> QED BY <3>2, <3>3
  <2>13. Position(p, n - k, g, m + k)'
    <3> SUFFICES ASSUME ~overtaken PROVE Position(p, n - k, g, m + k)'
      BY <1>1 DEF Position, effects
    <3>1. ASSUME NEW i \in 1 .. n, q[i] = curr, i <= k
          PROVE  \E l \in 1 .. m + k : g[l] = curr /\ \A j \in l .. m + k : is_completed[g[j]]
      <4>1. i \in 1 .. k
        BY <2>1, <3>1
      <4>2. i + m \in 1 .. m + k /\ g[i + m] = curr
        BY <2>10, <3>1, <4>1
      <4>3. ASSUME NEW j \in i + m .. m + k PROVE is_completed[g[j]]
        <5>1. j - m \in 1 .. k /\ (j - m) + m = j
          BY <2>1, <4>1
        <5> QED BY <2>10, <2>11, <5>1
      <4> QED BY <4>2, <4>3
    <3>2. ASSUME NEW l \in 1 .. m, f[l] = curr, \A j \in l .. m : is_completed[f[j]]
          PROVE  \E h \in 1 .. m + k : g[h] = curr /\ \A j \in h .. m + k : is_completed[g[j]]
      <4>1. l \in 1 .. m + k /\ g[l] = curr
        BY <2>10, <3>2
      <4>2. ASSUME NEW j \in l .. m + k PROVE is_completed[g[j]]
        <5>1. CASE j <= m
          <6>1. j \in 1 .. m /\ j \in l .. m
            BY <2>1, <5>1
          <6> QED BY <2>10, <3>2, <6>1
        <5>2. CASE j > m
          <6>1. j - m \in 1 .. k /\ (j - m) + m = j
            BY <2>1, <5>2
          <6> QED BY <2>10, <2>11, <6>1
        <5> QED BY <2>1, <5>1, <5>2
      <4> QED BY <4>1, <4>2
    <3>3. ASSUME NEW i \in 1 .. n, q[i] = curr, ~is_completed[curr]
          PROVE  \E j \in 1 .. n - k : p[j] = curr
      <4>1. i > k
        <5> SUFFICES ASSUME i <= k PROVE FALSE
          BY <2>1
        <5>1. i \in 1 .. k
          BY <2>1
        <5> QED BY <2>11, <3>3, <5>1
      <4>2. i - k \in 1 .. n - k /\ p[i - k] = curr
        BY <2>9, <3>3, <4>1
      <4> QED BY <4>2
    <3>4. wpc # "pass" => \/ \E i \in 1 .. n - k : p[i] = curr
                          \/ \E h \in 1 .. m + k : /\ g[h] = curr
                                                   /\ \A j \in h .. m + k : is_completed[g[j]]
      <4> SUFFICES ASSUME wpc # "pass"
                   PROVE  \/ \E i \in 1 .. n - k : p[i] = curr
                          \/ \E h \in 1 .. m + k : /\ g[h] = curr
                                                   /\ \A j \in h .. m + k : is_completed[g[j]]
        OBVIOUS
      <4>1. CASE \E i \in 1 .. n : q[i] = curr
        <5>1. PICK i \in 1 .. n : q[i] = curr
          BY <4>1
        <5>2. i <= k \/ i > k
          BY <2>1
        <5>3. i > k => i - k \in 1 .. n - k /\ p[i - k] = curr
          BY <2>9, <5>1
        <5> QED BY <3>1, <5>1, <5>2, <5>3
      <4>2. CASE \E l \in 1 .. m : f[l] = curr /\ \A j \in l .. m : is_completed[f[j]]
        BY <3>2, <4>2
      <4> QED BY <4>1, <4>2 DEF With, Position
    <3>5. wpc \in {"copy", "due", "mark"} =>
            (\E i \in 1 .. n - k : p[i] = curr) /\ ~is_completed[curr]
      BY <3>3 DEF With, Position
    <3>6. UNCHANGED <<wpc, curr, is_completed, is_copied, nsecs_target, latest_nsecs>>
      BY <1>1 DEF work, worker
    <3> QED BY <3>4, <3>5, <3>6 DEF With, Position
  <2>14. Requests'
    <3> HIDE DEF pending
    <3> QED BY <1>1, <1>8, RequestsFrame DEF With, effects
  <2>15. Commands(members(p, n - k))'
    <3>1. members(p, n - k) \subseteq members(q, n) /\ members(q, n) \in SUBSET Entry
      BY <2>9, Facts DEF members
    <3>2. Commands(members(q, n))
      BY DEF With
    <3>3. Commands(members(p, n - k))
      BY <3>1, <3>2, CommandsPart
    <3>4. latest_nsecs' \in 0 .. MAXT /\ latest_nsecs <= latest_nsecs'
      BY <1>1, Facts, Sizes DEF worker
    <3>5. \A e : is_done(e)' = is_done(e)
      BY <1>1 DEF is_done, work, worker
    <3>6. nsecs_target \in [Entry -> 0 .. MAXT] /\ latest_nsecs \in 0 .. MAXT
          /\ UNCHANGED <<sq_next, copied, posted, released, overtaken, work>>
      BY <1>1, Facts DEF effects
    <3> DEFINE R == members(p, n - k)
    <3>7. R \in SUBSET Entry /\ Commands(R)
      BY <3>1, <3>3
    <3> HIDE DEF R, pending, is_done
    <3>8. Commands(R)'
      BY <1>8, <3>4, <3>5, <3>6, <3>7, CommandsFrame
    <3> QED BY <3>8 DEF R
  <2>16. Walking(p, n - k)'
    BY <1>1, NotWalking
  <2>17. Types' /\ With(p, n - k, g, m + k)'
    BY <1>7, <2>6, <2>8, <2>12, <2>13, <2>14, <2>15, <2>16 DEF Types, With
  <2> QED BY <2>17 DEF IInv
<1> QED
  BY <1>9, <1>10

-----------------------------------------------------------------------------
(* The invariant holds.                                                    *)

\* At the start all entries are free.
LEMMA InitHolds == Init => IInv
<1> SUFFICES ASSUME Init PROVE IInv
  OBVIOUS
<1>1. PICK q : q = [i \in 1 .. 0 |-> 0]
  OBVIOUS
<1>2. PICK f : f = [k \in 1 .. NR |-> k - 1]
  OBVIOUS
<1>3. /\ q \in [1 .. 0 -> Entry] /\ f \in [1 .. NR -> Entry]
      /\ \A k \in 1 .. NR : f[k] = k - 1
      /\ NR \in Nat /\ NR >= 2
  BY <1>1, <1>2, Sizes
<1>4. TypeOK
  BY QueueAssumption, Sizes DEF Init, TypeOK, Entry, Req, NIL, no_op
<1>5. Types
  <2>0. no_op \in Op
    BY Sizes DEF Op, no_op
  <2>1. op \in Op /\ overtaken \in BOOLEAN
    BY <2>0 DEF Init
  <2>2. ~holding
    BY DEF Init, holding
  <2>3. Todo /\ Hand
    BY <2>2 DEF Init, Todo, Hand
  <2>4. Clock
    BY DEF Init, Clock
  <2> QED BY <1>4, <2>1, <2>3, <2>4 DEF Types
<1>6. List(next, q, 0, io_seq)
  BY <1>1, <1>3 DEF List, Init
<1>7. List(next, f, NR, free_seq)
  <2>1. f[1] = free_seq /\ next[f[NR]] = NIL
    BY <1>3, Sizes DEF Init, NR
  <2>2. \A i \in 1 .. NR - 1 : next[f[i]] = f[i + 1]
    <3> TAKE i \in 1 .. NR - 1
    <3>1. f[i] = i - 1 /\ f[i + 1] = i /\ i - 1 \in Entry /\ i - 1 # NR - 1
      BY <1>3, Sizes
    <3> QED BY <3>1 DEF Init, NR
  <2>3. \A i, j \in 1 .. NR : f[i] = f[j] => i = j
    BY <1>3
  <2> QED BY <1>3, <2>1, <2>2, <2>3 DEF List
<1>8. Lists(q, 0, f, NR)
  <2>1. ~holding
    BY DEF Init, holding
  <2>2. f[NR] = free_seq_end
    BY <1>3 DEF Init, NR
  <2>3. ASSUME NEW e \in Entry PROVE \E j \in 1 .. NR : f[j] = e
    <3>1. e + 1 \in 1 .. NR /\ f[e + 1] = e
      BY <1>3, Sizes
    <3> QED BY <3>1
  <2>4. 0 + NR + 0 = NR /\ NR > 0
    BY <1>3
  <2> QED BY <1>6, <1>7, <2>1, <2>2, <2>3, <2>4 DEF Lists
<1>9. Walking(q, 0) /\ Sorted(q, 0)
  BY DEF Init, Walking, Sorted
<1>10. Position(q, 0, f, NR)
  BY DEF Init, Position
<1>11. Requests
  BY DEF Init, Requests
<1>12. Commands(members(q, 0))
  <2>1. members(q, 0) = {}
    BY DEF members
  <2> QED BY <2>1 DEF Commands
<1>13. With(q, 0, f, NR)
  BY <1>8, <1>9, <1>10, <1>11, <1>12 DEF With
<1> QED
  BY <1>5, <1>13 DEF IInv

LEMMA StutterStep ==
  ASSUME NEW q, NEW n, NEW f, NEW m, Types, With(q, n, f, m), UNCHANGED vars
  PROVE  Types' /\ With(q, n, f, m)'
<1>1. UNCHANGED <<now, work, links, seqs, disp, worker, effects>>
  BY DEF vars
<1>2. UNCHANGED <<now, work, links, seqs, sq_next, worker, copied, posted, released, overtaken>>
      /\ UNCHANGED <<dpc, op, todo>>
  BY <1>1 DEF disp, effects
<1>3. holding' = holding /\ \A i \in BOOLEAN : pending(i)' => pending(i)
  BY <1>2 DEF holding, pending
<1>4. TypeOK' /\ Hand' /\ (op \in Op)'
  <2>1. TypeOK'
    BY <1>1 DEF Types, TypeOK, work, links, seqs, disp, worker, effects
  <2>2. Hand'
    BY <1>2, <1>3 DEF Types, Hand, work, links
  <2> QED BY <1>2, <2>1, <2>2 DEF Types
<1>5. Todo' /\ Walking(q, n)'
  <2>1. Todo'
    BY <1>2, <1>3 DEF Types, Todo
  <2>2. UNCHANGED nsecs_target
    BY <1>1 DEF work
  <2> QED BY <1>2, <2>1, <2>2, WalkingFrame DEF With
<1> HIDE DEF pending
<1> QED
  BY <1>2, <1>3, <1>4, <1>5, DispatcherMoves

LEMMA NextHolds == IInv /\ [Next]_vars => IInv'
<1> SUFFICES ASSUME IInv, [Next]_vars PROVE IInv'
  OBVIOUS
<1>1. PICK q, n, f, m : With(q, n, f, m)
  BY DEF IInv
<1>2. Types
  BY DEF IInv
<1>3. CASE Types' /\ With(q, n, f, m)'
  BY <1>3 DEF IInv
<1>4. CASE ProcIo
  BY <1>1, <1>2, <1>3, <1>4, ProcIoStep
<1>5. CASE DispatcherStep
  <2>1. CASE AllocateFails
    BY <1>1, <1>2, <1>3, <2>1, AllocateFailsStep
  <2>2. CASE Allocate
    BY <1>1, <1>2, <2>2, AllocateStep
  <2>3. CASE Fill \/ FillCopied \/ FillLinks \/ FillInternal \/ FillBuffs
    BY <1>1, <1>2, <1>3, <2>3, FillStep
  <2>4. CASE InsertFirst
    BY <1>1, <1>2, <2>4, InsertFirstStep
  <2>5. CASE InsertBegin
    BY <1>1, <1>2, <1>3, <2>5, InsertBeginStep
  <2>6. CASE Walk
    BY <1>1, <1>2, <1>3, <2>6, WalkStep
  <2>7. CASE LinkHead
    BY <1>1, <1>2, <2>7, LinkHeadStep
  <2>8. CASE LinkAfter
    BY <1>1, <1>2, <2>8, LinkAfterStep
  <2>9. CASE Reclaim
    BY <1>1, <1>2, <2>9, ReclaimStep
  <2> QED BY <1>5, <2>1, <2>2, <2>3, <2>4, <2>5, <2>6, <2>7, <2>8, <2>9 DEF DispatcherStep
<1>6. CASE WorkerStep
  <2>1. CASE PassBegin
    BY <1>1, <1>2, <1>3, <2>1, PassBeginStep
  <2>2. CASE Check
    BY <1>1, <1>2, <1>3, <2>2, CheckStep
  <2>3. CASE Copy
    BY <1>1, <1>2, <1>3, <2>3, CopyStep
  <2>4. CASE NotDue
    BY <1>1, <1>2, <1>3, <2>4, NotDueStep
  <2>5. CASE Complete
    BY <1>1, <1>2, <1>3, <2>5, CompleteStep
  <2>6. CASE Mark
    BY <1>1, <1>2, <1>3, <2>6, MarkStep
  <2>7. CASE Advance
    BY <1>1, <1>2, <1>3, <2>7, AdvanceStep
  <2> QED BY <1>6, <2>1, <2>2, <2>3, <2>4, <2>5, <2>6, <2>7 DEF WorkerStep
<1>7. CASE Tick
  BY <1>1, <1>2, <1>3, <1>7, TickStep
<1>8. CASE UNCHANGED vars
  BY <1>1, <1>2, <1>3, <1>8, StutterStep
<1> QED
  BY <1>4, <1>5, <1>6, <1>7, <1>8 DEF Next

LEMMA Invariance == Spec => []IInv
BY InitHolds, NextHolds, PTL DEF Spec

\* The properties speak of the lists as chains of next fields.
LEMMA ChainsAre ==
  ASSUME NEW q, NEW n, NEW f, NEW m, Types, With(q, n, f, m)
  PROVE  queued = q /\ Len(q) = n /\ free = f /\ Len(f) = m
BY ListChain DEF With, Lists, queued, free

\* The dispatcher takes, links and reclaims entries through the one next field
\* both lists share: whatever the worker does meanwhile, every entry of the work
\* queue is on the request list, on the free list or in the dispatcher's hand
\* and nowhere else, and the tails and the prev fields are right.
THEOREM ListsStayApart == Spec => []ListsApart
<1>1. IInv => ListsApart
  <2> SUFFICES ASSUME IInv PROVE ListsApart
    OBVIOUS
  <2>1. PICK q, n, f, m : With(q, n, f, m)
    BY DEF IInv
  <2>2. Types /\ TypeOK
    BY DEF IInv, Types
  <2>3. queued = q /\ Len(q) = n /\ free = f /\ Len(f) = m
    BY <2>1, <2>2, ChainsAre
  <2>4. n \in Nat /\ m \in Nat /\ Lists(q, n, f, m)
        /\ q \in [1 .. n -> Entry] /\ f \in [1 .. m -> Entry]
    BY <2>1, <2>2, Facts DEF With
  <2>5. in_hand = (IF holding THEN {op.entry} ELSE {}) /\ (holding => op.entry \in Entry)
    BY <2>2 DEF in_hand, holding, Types, Hand
  <2>6. Cardinality(in_hand) = IF holding THEN 1 ELSE 0
    BY <2>5, FS_EmptySet, FS_Singleton
  <2>7. /\ elems(q) = {q[i] : i \in 1 .. n} /\ elems(f) = {f[i] : i \in 1 .. m}
    BY <2>3 DEF elems
  <2>8. elems(q) \intersect elems(f) = {}
    BY <2>4, <2>7 DEF Lists
  <2>9. in_hand \intersect (elems(q) \union elems(f)) = {}
    BY <2>4, <2>5, <2>7 DEF Lists
  <2>10. elems(q) \union elems(f) \union in_hand = Entry
    <3>1. elems(q) \subseteq Entry /\ elems(f) \subseteq Entry /\ in_hand \subseteq Entry
      BY <2>4, <2>5, <2>7
    <3>2. ASSUME NEW e \in Entry PROVE e \in elems(q) \union elems(f) \union in_hand
      BY <2>4, <2>5, <2>7 DEF Lists
    <3> QED BY <3>1, <3>2
  <2>11. n + m + Cardinality(in_hand) = NR_MAX_PARALLEL_IO
    BY <2>4, <2>6 DEF Lists, NR
  <2>12. f[m] = free_seq_end
    BY <2>4 DEF Lists
  <2>13. q # <<>> => q[n] = io_seq_end /\ prev[io_seq] = NIL
    <3> SUFFICES ASSUME q # <<>> PROVE q[n] = io_seq_end /\ prev[io_seq] = NIL
      OBVIOUS
    <3>1. n # 0
      BY <2>4
    <3>2. n > 0
      BY <2>4, <3>1
    <3> QED BY <2>4, <3>2 DEF Lists, List
  <2>14. \A i \in 1 .. n - 1 : prev[q[i + 1]] = q[i]
    BY <2>4 DEF Lists
  <2> QED BY <2>2, <2>3, <2>8, <2>9, <2>10, <2>11, <2>12, <2>13, <2>14 DEF ListsApart
<1> QED
  BY <1>1, Invariance, PTL

\* __insert_req_sorted walks back only over requests that are later and not yet
\* due, so the list stays sorted as far as the clock of the worker has not come.
THEOREM ListStaysSorted == Spec => []SortedAhead
<1>1. IInv => SortedAhead
  <2> SUFFICES ASSUME IInv PROVE SortedAhead
    OBVIOUS
  <2>1. PICK q, n, f, m : With(q, n, f, m)
    BY DEF IInv
  <2>2. queued = q /\ Len(q) = n
    BY <2>1, ChainsAre DEF IInv
  <2> QED BY <2>1, <2>2 DEF With, Sorted, SortedAhead
<1> QED
  BY <1>1, Invariance, PTL

\* The worker walks without a lock over entries the dispatcher reclaims under
\* it; until an entry is handed out while the worker stands on it, the worker
\* copies, completes and marks only entries of the request list.
THEOREM WorkerActsOnRequests == Spec => []ActsOnQueued
<1>1. IInv => ActsOnQueued
  <2> SUFFICES ASSUME IInv PROVE ActsOnQueued
    OBVIOUS
  <2>1. PICK q, n, f, m : With(q, n, f, m)
    BY DEF IInv
  <2>2. queued = q /\ Len(q) = n
    BY <2>1, ChainsAre DEF IInv
  <2> QED BY <2>1, <2>2 DEF With, Position, ActsOnQueued, elems
<1> QED
  BY <1>1, Invariance, PTL

\* Under the same condition the data of a command is copied once, before its one
\* completion, a buffer is released once, and neither happens before the target
\* time: is_completed, which lets the dispatcher reuse the entry, comes last.
THEOREM CompletedExactlyOnce == Spec => []ExactlyOnce
<1>1. IInv => ExactlyOnce
  <2> SUFFICES ASSUME IInv, ~overtaken PROVE ExactlyOnce
    BY DEF ExactlyOnce
  <2>1. PICK q, n, f, m : With(q, n, f, m)
    BY DEF IInv
  <2>2. queued = q /\ Len(q) = n
    BY <2>1, ChainsAre DEF IInv
  <2>3. \A r \in Req :
          /\ copied[r] <= 1 /\ posted[r] <= copied[r] /\ released[r] <= 1
          /\ posted[r] = 1 => r < sq_next
    <3> TAKE r \in Req
    <3>1. copied[r] <= 1 /\ posted[r] <= copied[r] /\ released[r] <= 1
      BY <2>1 DEF With, Requests
    <3>2. r >= sq_next => posted[r] = 0
      BY <2>1 DEF With, Requests
    <3>3. r \in Nat /\ sq_next \in Nat
      BY Sizes DEF IInv, Types, TypeOK, Req
    <3> QED BY <3>1, <3>2, <3>3
  <2>4. ASSUME NEW i \in 1 .. n, NEW e, e = q[i], is_completed[e]
        PROVE  /\ nsecs_target[e] <= latest_nsecs
               /\ IF is_internal[e] THEN released[buffs_of[e]] = 1 ELSE posted[id[e]] = 1
    <3>1. e \in members(q, n) /\ Commands(members(q, n))
      BY <2>1, <2>4 DEF members, With
    <3>2. is_done(e) /\ one(is_done(e)) = 1
      BY <2>4 DEF is_done, one
    <3> HIDE DEF is_done, one, pending
    <3> QED BY <2>4, <3>1, <3>2 DEF Commands
  <2> QED BY <2>2, <2>3, <2>4 DEF ExactlyOnce
<1> QED
  BY <1>1, Invariance, PTL

=============================================================================
