--------------------------- MODULE ConvFTLProofs ---------------------------
(***************************************************************************)
(* For every geometry, number of lines and number of logical pages: the    *)
(* state of the FTL keeps its type, maptbl and rmap stay inverse to each   *)
(* other, every line stays in exactly one place and the write credits      *)
(* never wrap.  All four follow from the inductive invariant IInv.  With   *)
(* PageStates it shows that the counters of a line count its pages.  On a  *)
(* device that is Provisioned no assertion fails: PInv, which adds the     *)
(* Reserve of unwritten pages, is inductive too.  With the contents of the *)
(* pages the FTL implements the logical array of pages, the refinement     *)
(* ImplementsLogicalStore.                                                 *)
(***************************************************************************)
EXTENDS ConvStore, FiniteSetTheorems, WellFoundedInduction, TLAPS

\* A set that holds 0 and, with a number below n, its successor, is all of 0 .. n.
LEMMA BoundedInduction ==
  ASSUME NEW n \in Nat, NEW G \in SUBSET (0 .. n), 0 \in G,
         \A i \in 0 .. n - 1 : i \in G => i + 1 \in G
  PROVE  G = 0 .. n
<1> DEFINE F == (0 .. n) \ G
<1>1. SUFFICES ASSUME F # {} PROVE FALSE
  OBVIOUS
<1>2. F \subseteq Nat
  OBVIOUS
<1>3. PICK c \in F : \A d \in F : ~ (<<d, c>> \in OpToRel(<, Nat))
  BY <1>1, <1>2, WFMin, NatLessThanWellFounded
<1>4. c \in 1 .. n /\ c - 1 \in 0 .. n - 1 /\ (c - 1) + 1 = c
  OBVIOUS
<1>5. c - 1 \notin G
  BY <1>4
<1>6. c - 1 \in F /\ c - 1 \in Nat /\ c \in Nat /\ c - 1 < c
  BY <1>4, <1>5
<1>7. <<c - 1, c>> \in OpToRel(<, Nat)
  BY <1>6 DEF OpToRel
<1> QED
  BY <1>3, <1>6, <1>7

\* The quotient is the number of the interval of length m that holds a.
LEMMA QuotientIs ==
  ASSUME NEW m \in Nat \ {0}, NEW q \in Nat, NEW r \in 0 .. m - 1
  PROVE  (q * m + r) \div m = q /\ (q * m + r) % m = r
OBVIOUS

\* Adding elements that were not there.
LEMMA CardAdd ==
  ASSUME NEW A, NEW B, IsFiniteSet(A), IsFiniteSet(B), A \intersect B = {}
  PROVE  /\ IsFiniteSet(A \union B)
         /\ Cardinality(A) \in Nat /\ Cardinality(B) \in Nat
         /\ Cardinality(A \union B) = Cardinality(A) + Cardinality(B)
<1>1. IsFiniteSet(A \union B)
  BY FS_Union
<1>2. Cardinality(A \union B)
        = Cardinality(A) + Cardinality(B) - Cardinality(A \intersect B)
  BY FS_Union
<1>3. Cardinality(A \intersect B) = 0
  BY FS_EmptySet
<1>4. Cardinality(A) \in Nat /\ Cardinality(B) \in Nat
  BY FS_CardinalityType
<1> QED
  BY <1>1, <1>2, <1>3, <1>4

-----------------------------------------------------------------------------
(* Addresses.                                                              *)

\* A physical page address is determined by its five fields.
LEMMA PagePpa ==
  ASSUME NEW b \in Line, NEW c \in 0 .. NCHS - 1, NEW u \in 0 .. LUNS - 1,
         NEW w \in 0 .. WLS - 1, NEW g \in 0 .. ONESHOT - 1
  PROVE  /\ page(b, c, u, w, g) \in Ppa
         /\ page(b, c, u, w, g).blk = b
         /\ page(b, c, u, w, g).ch = c
         /\ page(b, c, u, w, g).lun = u
         /\ page(b, c, u, w, g).wl = w
         /\ page(b, c, u, w, g).pg = g
BY DEF page, Ppa

\* The first page of a line is a page.
LEMMA LineStartPpa ==
  ASSUME NEW l \in Line
  PROVE  line_start(l) \in Ppa /\ line_start(l).blk = l
BY GeometryAssumption DEF line_start, page, Ppa

\* advance_write_pointer stays inside the line until its last page.
LEMMA NextPgPpa ==
  ASSUME NEW p \in Ppa, ~last_pg_in_line(p)
  PROVE  next_pg_in_line(p) \in Ppa /\ next_pg_in_line(p).blk = p.blk
BY GeometryAssumption DEF next_pg_in_line, last_pg_in_line, page, Ppa

\* do_gc's loops stay inside the line until its last flash page.
LEMMA NextFlashpgPpa ==
  ASSUME NEW p \in Ppa, ~last_flashpg(p)
  PROVE  next_flashpg(p) \in Ppa /\ next_flashpg(p).blk = p.blk
BY GeometryAssumption DEF next_flashpg, last_flashpg, page, Ppa

\* One digit of a mixed-radix number: a*B + b with b < B stays below A*B.
LEMMA Digit ==
  ASSUME NEW A \in Nat, NEW B \in Nat, NEW a \in 0 .. A - 1, NEW b \in 0 .. B - 1
  PROVE  a * B + b \in 0 .. A * B - 1
<1>1. a * B \in Nat /\ A * B \in Nat
  OBVIOUS
<1>2. (A - 1 - a) * B \in Nat
  OBVIOUS
<1>3. (A - 1 - a) * B = A * B - B - a * B
  OBVIOUS
<1> QED
  BY <1>1, <1>2, <1>3

\* A carry adds one unit of the next digit.
LEMMA CarryDigit ==
  ASSUME NEW a \in Int, NEW B \in Int
  PROVE  (a + 1) * B = a * B + B
OBVIOUS

\* The rank of a page is below the number of pages of a line.
LEMMA RankBound ==
  ASSUME NEW p \in Ppa
  PROVE  rank(p) \in 0 .. pgs_per_line - 1
<1> DEFINE x == p.wl * LUNS + p.lun
           y == x * NCHS + p.ch
<1>1. x \in 0 .. WLS * LUNS - 1
  BY Digit, GeometryAssumption DEF Ppa
<1>2. WLS * LUNS \in Nat /\ WLS * LUNS * NCHS \in Nat
  BY GeometryAssumption
<1> HIDE DEF x
<1>3. y \in 0 .. WLS * LUNS * NCHS - 1
  BY <1>1, <1>2, Digit, GeometryAssumption DEF Ppa
<1> HIDE DEF y
<1>4. y * ONESHOT + p.pg \in 0 .. WLS * LUNS * NCHS * ONESHOT - 1
  BY <1>2, <1>3, Digit, GeometryAssumption DEF Ppa
<1>5. WLS * LUNS * NCHS * ONESHOT = pgs_per_line
  BY GeometryAssumption DEF pgs_per_line
<1>6. rank(p) = y * ONESHOT + p.pg
  BY DEF rank, x, y
<1> QED
  BY <1>4, <1>5, <1>6

\* The write pointer starts a line at rank 0, advances it by 1, and is at rank
\* pgs_per_line - 1 on the last page.
LEMMA RankStep ==
  /\ \A l \in Line : rank(line_start(l)) = 0
  /\ \A p \in Ppa : ~last_pg_in_line(p) => rank(next_pg_in_line(p)) = rank(p) + 1
  /\ \A p \in Ppa : last_pg_in_line(p) => rank(p) = pgs_per_line - 1
<1>1. ASSUME NEW l \in Line
      PROVE  rank(line_start(l)) = 0
  BY GeometryAssumption DEF rank, line_start, page
<1>2. ASSUME NEW p \in Ppa, ~last_pg_in_line(p)
      PROVE  rank(next_pg_in_line(p)) = rank(p) + 1
  <2> DEFINE x == p.wl * LUNS + p.lun
             y == x * NCHS + p.ch
  <2>0. /\ p.wl \in Nat /\ p.lun \in Nat /\ p.ch \in Nat /\ p.pg \in Nat
        /\ NCHS \in Nat /\ LUNS \in Nat /\ ONESHOT \in Nat
        /\ x \in Nat /\ y \in Nat
    BY GeometryAssumption DEF Ppa
  <2>1. CASE p.pg # ONESHOT - 1
    BY <2>0, <2>1 DEF rank, next_pg_in_line, page
  <2>2. CASE p.pg = ONESHOT - 1 /\ p.ch # NCHS - 1
    <3>1. rank(next_pg_in_line(p)) = (x * NCHS + (p.ch + 1)) * ONESHOT + 0
      BY <2>2 DEF rank, next_pg_in_line, page
    <3>2. x * NCHS + (p.ch + 1) = y + 1
      BY <2>0
    <3> HIDE DEF x, y
    <3>3. (y + 1) * ONESHOT = y * ONESHOT + ONESHOT
      BY <2>0
    <3>4. rank(p) = y * ONESHOT + (ONESHOT - 1)
      BY <2>2 DEF rank, x, y
    <3> QED
      BY <2>0, <3>1, <3>2, <3>3, <3>4
  <2>3. CASE p.pg = ONESHOT - 1 /\ p.ch = NCHS - 1 /\ p.lun # LUNS - 1
    <3>1. rank(next_pg_in_line(p)) = ((p.wl * LUNS + (p.lun + 1)) * NCHS + 0) * ONESHOT + 0
      BY <2>3 DEF rank, next_pg_in_line, page
    <3>2. p.wl * LUNS + (p.lun + 1) = x + 1
      BY <2>0
    <3>3. rank(p) = (x * NCHS + (NCHS - 1)) * ONESHOT + (ONESHOT - 1)
      BY <2>3 DEF rank
    <3> HIDE DEF x
    <3>4. (x + 1) * NCHS + 0 = x * NCHS + (NCHS - 1) + 1
      BY <2>0
    <3> DEFINE z == x * NCHS + (NCHS - 1)
    <3>5. z \in Int
      BY <2>0
    <3>6. rank(next_pg_in_line(p)) = (z + 1) * ONESHOT /\ rank(p) = z * ONESHOT + (ONESHOT - 1)
      BY <3>1, <3>2, <3>3, <3>4, <3>5, <2>0
    <3> HIDE DEF z
    <3>7. (z + 1) * ONESHOT = z * ONESHOT + ONESHOT
      BY <2>0, <3>5
    <3> QED
      BY <2>0, <3>5, <3>6, <3>7
  <2>4. CASE p.pg = ONESHOT - 1 /\ p.ch = NCHS - 1 /\ p.lun = LUNS - 1
    <3>1. rank(next_pg_in_line(p)) = (((p.wl + 1) * LUNS + 0) * NCHS + 0) * ONESHOT + 0
      BY <2>4 DEF rank, next_pg_in_line, page
    <3>2. rank(p) = ((p.wl * LUNS + (LUNS - 1)) * NCHS + (NCHS - 1)) * ONESHOT + (ONESHOT - 1)
      BY <2>4 DEF rank
    <3> DEFINE u == p.wl * LUNS + (LUNS - 1)
               z == u * NCHS + (NCHS - 1)
    <3>3. u \in Int /\ z \in Int
      BY <2>0
    <3>4. (p.wl + 1) * LUNS + 0 = u + 1
      <4>1. (p.wl + 1) * LUNS = p.wl * LUNS + LUNS
        BY <2>0, CarryDigit
      <4> DEFINE w == p.wl * LUNS
      <4>2. w \in Int
        BY <2>0
      <4> HIDE DEF w
      <4> QED
        BY <2>0, <4>1, <4>2 DEF w
    <3> HIDE DEF u
    <3>5. (u + 1) * NCHS + 0 = z + 1
      BY <2>0, <3>3
    <3> HIDE DEF z
    <3>6. (z + 1) * ONESHOT = z * ONESHOT + ONESHOT
      BY <2>0, <3>3
    <3>7. rank(next_pg_in_line(p)) = (z + 1) * ONESHOT + 0
      BY <3>1, <3>4, <3>5
    <3>8. rank(p) = z * ONESHOT + (ONESHOT - 1)
      BY <3>2 DEF u, z
    <3> QED
      BY <2>0, <3>3, <3>6, <3>7, <3>8
  <2> QED
    BY <2>1, <2>2, <2>3, <2>4
<1>3. ASSUME NEW p \in Ppa, last_pg_in_line(p)
      PROVE  rank(p) = pgs_per_line - 1
  <2>1. rank(p) = (((WLS - 1) * LUNS + (LUNS - 1)) * NCHS + (NCHS - 1)) * ONESHOT + (ONESHOT - 1)
    BY <1>3 DEF rank, last_pg_in_line
  <2>2. (WLS - 1) * LUNS + (LUNS - 1) = WLS * LUNS - 1
    BY GeometryAssumption
  <2> DEFINE u == WLS * LUNS
             z == u * NCHS
  <2>3. u \in Nat /\ z \in Nat
    BY GeometryAssumption
  <2> HIDE DEF u
  <2>4. (u - 1) * NCHS + (NCHS - 1) = z - 1
    BY <2>3, GeometryAssumption
  <2> HIDE DEF z
  <2>5. (z - 1) * ONESHOT + (ONESHOT - 1) = z * ONESHOT - 1
    BY <2>3, GeometryAssumption
  <2>6. z * ONESHOT = pgs_per_line
    BY GeometryAssumption DEF z, u, pgs_per_line
  <2>7. rank(p) = ((u - 1) * NCHS + (NCHS - 1)) * ONESHOT + (ONESHOT - 1)
    BY <2>1, <2>2 DEF u
  <2> QED
    BY <2>4, <2>5, <2>6, <2>7
<1> QED
  BY <1>1, <1>2, <1>3

-----------------------------------------------------------------------------
(* The initial state.                                                      *)

\* pgs_per_line is a positive number.
LEMMA LineSize == pgs_per_line \in Nat /\ pgs_per_line >= 1
<1>1. NCHS * LUNS \in Nat \ {0}
  BY GeometryAssumption
<1>2. NCHS * LUNS * WLS \in Nat \ {0}
  BY <1>1, GeometryAssumption
<1>3. NCHS * LUNS * WLS * ONESHOT \in Nat \ {0}
  BY <1>2, GeometryAssumption
<1> QED
  BY <1>3 DEF pgs_per_line

\* conv_init_ftl establishes the invariant.
LEMMA InitIInv == Init => IInv
<1> SUFFICES ASSUME Init
             PROVE  IInv
  OBVIOUS
<1>0. tt_lines \in Nat /\ tt_lines >= 2
  BY GeometryAssumption, FS_CardinalityType DEF tt_lines
<1>1. PICK o \in line_orders :
        /\ wp = [t \in IoType |-> line_start(IF t = "USER_IO" THEN o[1] ELSE o[2])]
        /\ free_line_list = [i \in 1 .. tt_lines - 2 |-> o[i + 2]]
  BY DEF Init
<1>2. /\ o \in [1 .. tt_lines -> Line]
      /\ \A i, j \in 1 .. tt_lines : i # j => o[i] # o[j]
      /\ \A l \in Line : \E i \in 1 .. tt_lines : o[i] = l
  BY DEF line_orders
<1>3. o[1] \in Line /\ o[2] \in Line /\ o[1] # o[2]
  BY <1>0, <1>2
<1>4. /\ wp["USER_IO"] = line_start(o[1])
      /\ wp["GC_IO"] = line_start(o[2])
      /\ wp \in [IoType -> Ppa]
  BY <1>1, <1>3, LineStartPpa DEF IoType
<1>5. /\ wp["USER_IO"].blk = o[1]
      /\ wp["GC_IO"].blk = o[2]
  BY <1>3, <1>4, LineStartPpa
<1>6. /\ free_line_list \in Seq(Line)
      /\ Len(free_line_list) = tt_lines - 2
      /\ \A i \in 1 .. tt_lines - 2 : free_line_list[i] = o[i + 2]
  BY <1>0, <1>1, <1>2
<1>7. ~in_gc
  BY DEF Init, in_gc
<1>8. TypeOK
  BY <1>4, <1>6, <1>7, LineSize, GeometryAssumption DEF Init, TypeOK, Lpn, INVALID_LPN
<1>9. MapInverse
  BY <1>7, GeometryAssumption DEF Init, MapInverse, mapped_ppa
<1>10. LinePartition
  <2>1. \A l \in Line : ~collected(l)
    BY <1>7 DEF collected
  <2>2. \A l \in Line : open(l) <=> l = o[1] \/ l = o[2]
    BY <1>5 DEF open, IoType
  <2>3. \A l \in Line : on_free(l) <=> \E i \in 1 .. tt_lines - 2 : o[i + 2] = l
    BY <1>6 DEF on_free
  <2>4. \A l \in Line : on_free(l) \/ open(l)
    <3> TAKE l \in Line
    <3>1. PICK i \in 1 .. tt_lines : o[i] = l
      BY <1>2
    <3>2. CASE i = 1 \/ i = 2
      BY <3>1, <3>2, <2>2
    <3>3. CASE i > 2
      <4>1. i - 2 \in 1 .. tt_lines - 2 /\ o[(i - 2) + 2] = l
        BY <3>1, <3>3, <1>0
      <4> QED
        BY <4>1, <2>3
    <3> QED
      BY <3>2, <3>3
  <2>5. \A l \in Line : on_free(l) => ~open(l)
    BY <1>0, <1>2, <2>2, <2>3
  <2>6. \A i, j \in 1 .. Len(free_line_list) :
          i # j => free_line_list[i] # free_line_list[j]
    BY <1>0, <1>2, <1>6
  <2> QED
    BY <1>3, <1>5, <2>1, <2>4, <2>5, <2>6 DEF LinePartition, Init
<1>11. LineOccupancy
  <2>1. \A t \in IoType : rank(wp[t]) = 0 /\ wp[t].blk \in Line
    BY <1>3, <1>4, <1>5, RankStep DEF IoType
  <2> QED
    BY <2>1 DEF LineOccupancy, Init
<1>12. CreditRange
  BY <1>7, LineSize DEF CreditRange, Init
<1>13. GcErased
  BY <1>7 DEF GcErased, Init
<1> QED
  BY <1>8, <1>9, <1>10, <1>11, <1>12, <1>13 DEF IInv, Consistent

-----------------------------------------------------------------------------
(* The steps that program no page.                                         *)

\* A credit count that is in range is not changed by the wrap of its type.
LEMMA NoWrap ==
  ASSUME NEW a \in 0 .. 2 * pgs_per_line
  PROVE  a % UINT_MOD = a
<1>1. a \in Nat /\ UINT_MOD \in Nat /\ a < UINT_MOD
  BY LineSize, GeometryAssumption
<1> QED
  BY <1>1

\* A failing assertion leaves the types alone.
LEMMA PanicIInv ==
  ASSUME TypeOK, Panic
  PROVE  IInv'
<1>1. ~in_gc' /\ ~NoPanic'
  BY DEF Panic, in_gc, NoPanic
<1>2. TypeOK'
  BY <1>1 DEF Panic, TypeOK, lines, credits
<1> QED
  BY <1>1, <1>2 DEF IInv

\* Accepting a command changes neither the mapping nor the lines.
LEMMA WriteBeginIInv ==
  ASSUME TypeOK, Consistent, WriteBegin
  PROVE  IInv'
<1> USE DEF WriteBegin, lines, credits
<1>1. ~in_gc /\ ~in_gc'
  BY DEF in_gc
<1>2. TypeOK'
  BY <1>1 DEF TypeOK
<1>3. MapInverse'
  BY <1>1 DEF Consistent, MapInverse, being_replaced, superseded, mapped_ppa
<1>4. LinePartition'
  BY <1>1 DEF Consistent, LinePartition, on_free, open, collected
<1>5. LineOccupancy'
  BY DEF Consistent, LineOccupancy, on_free, rank
<1>6. CreditRange'
  BY <1>1 DEF Consistent, CreditRange
<1>7. GcErased'
  BY <1>1 DEF GcErased
<1> QED
  BY <1>2, <1>3, <1>4, <1>5, <1>6, <1>7 DEF IInv, Consistent

\* What the end of a loop iteration does to pc and req.
LEMMA NextLpnType ==
  ASSUME TypeOK, next_lpn
  PROVE  /\ pc' \in {"idle", "invalidate"}
         /\ req' \in [lpn : Lpn, end : Lpn]
BY GeometryAssumption DEF TypeOK, next_lpn, Lpn

\* A credit is left: the loop goes on.
LEMMA CreditLeftIInv ==
  ASSUME TypeOK, Consistent, CreditLeft
  PROVE  IInv'
<1> USE DEF CreditLeft, lines, credits
<1>0. pc' \in {"idle", "invalidate"} /\ req' \in [lpn : Lpn, end : Lpn]
  BY NextLpnType
<1>1. ~in_gc /\ ~in_gc'
  BY <1>0 DEF in_gc
<1>2. TypeOK'
  BY <1>0, <1>1 DEF TypeOK
<1>3. MapInverse'
  BY <1>0, <1>1 DEF Consistent, MapInverse, being_replaced, superseded, mapped_ppa
<1>4. LinePartition'
  BY <1>1 DEF Consistent, LinePartition, on_free, open, collected
<1>5. LineOccupancy'
  BY DEF Consistent, LineOccupancy, on_free, rank
<1>6. CreditRange'
  BY <1>0, <1>1, LineSize DEF Consistent, CreditRange
<1>7. GcErased'
  BY <1>0, <1>1 DEF GcErased
<1> QED
  BY <1>2, <1>3, <1>4, <1>5, <1>6, <1>7 DEF IInv, Consistent

\* The credits run out and are refilled without a collection.
LEMMA RefillNoGcIInv ==
  ASSUME TypeOK, Consistent, RefillNoGc
  PROVE  IInv'
<1> USE DEF RefillNoGc, lines
<1>0. pc' \in {"idle", "invalidate"} /\ req' \in [lpn : Lpn, end : Lpn]
  BY NextLpnType
<1>1. ~in_gc /\ ~in_gc'
  BY <1>0 DEF in_gc
<1>2. write_credits' = credits_to_refill /\ credits_to_refill \in 1 .. pgs_per_line
  <2>1. credits_to_refill \in 1 .. pgs_per_line
    BY DEF Consistent, CreditRange
  <2>2. 0 + credits_to_refill \in 0 .. 2 * pgs_per_line
    BY <2>1, LineSize
  <2> QED
    BY <2>1, <2>2, NoWrap DEF refill
<1>3. TypeOK'
  BY <1>0, <1>1, <1>2, LineSize DEF TypeOK
<1>4. MapInverse'
  BY <1>0, <1>1 DEF Consistent, MapInverse, being_replaced, superseded, mapped_ppa
<1>5. LinePartition'
  BY <1>1 DEF Consistent, LinePartition, on_free, open, collected
<1>6. LineOccupancy'
  BY DEF Consistent, LineOccupancy, on_free, rank
<1>7. CreditRange'
  BY <1>0, <1>1, <1>2 DEF Consistent, CreditRange
<1>8. GcErased'
  BY <1>0, <1>1 DEF GcErased
<1> QED
  BY <1>3, <1>4, <1>5, <1>6, <1>7, <1>8 DEF IInv, Consistent

\* A line holds no more pages than it has, and one with only valid pages is
\* closed and on the full list.
LEMMA Occupied ==
  ASSUME TypeOK, LinePartition, LineOccupancy, NEW l \in Line, ~collected(l)
  PROVE  /\ vpc[l] \in Nat /\ ipc[l] \in Nat /\ vpc[l] + ipc[l] <= pgs_per_line
         /\ vpc[l] = pgs_per_line => l \in full_line_list
<1>1. vpc[l] \in Nat /\ ipc[l] \in Nat
  BY DEF TypeOK, LineOccupancy
<1>2. CASE on_free(l) \/ l \in full_line_list \/ l \in victim_line_pq
  BY <1>1, <1>2, LineSize DEF LineOccupancy
<1>3. CASE open(l)
  <2>1. PICK t \in IoType : wp[t].blk = l
    BY <1>3 DEF open
  <2>2. vpc[l] + ipc[l] = rank(wp[t]) /\ wp[t] \in Ppa
    BY <2>1 DEF LineOccupancy, TypeOK
  <2>3. rank(wp[t]) \in 0 .. pgs_per_line - 1
    BY <2>2, RankBound
  <2> QED
    BY <1>1, <2>2, <2>3, LineSize
<1> QED
  BY <1>2, <1>3 DEF LinePartition

\* mark_page_invalid: the page leaves the mapping, its line may leave the full
\* list.  A line with vpc = pgs_per_line is on that list: a free line has no
\* valid page, an open one fewer than its rank, a victim has an invalid page.
LEMMA InvalidateOldIInv ==
  ASSUME TypeOK, Consistent, InvalidateOld
  PROVE  IInv'
<1> DEFINE old == maptbl[req.lpn]
           l0 == old.blk
<1>0. ~in_gc /\ req.lpn \in Lpn
  BY DEF InvalidateOld, in_gc, TypeOK
<1>1. CASE ~mapped_ppa(old)
  <2> USE <1>1 DEF InvalidateOld, lines, credits
  <2>1. ~in_gc' /\ pc' = "program"
    BY DEF in_gc
  <2>2. TypeOK'
    BY <2>1 DEF TypeOK
  <2>3. MapInverse'
    BY <1>0, <2>1 DEF Consistent, MapInverse, being_replaced, superseded, mapped_ppa
  <2>4. LinePartition'
    BY <1>0, <2>1 DEF Consistent, LinePartition, on_free, open, collected
  <2>5. LineOccupancy'
    BY DEF Consistent, LineOccupancy, on_free, rank
  <2>6. CreditRange'
    BY <2>1 DEF Consistent, CreditRange
  <2>7. GcErased'
    BY <2>1 DEF GcErased
  <2> QED
    BY <2>2, <2>3, <2>4, <2>5, <2>6, <2>7 DEF IInv, Consistent
<1>2. CASE mapped_ppa(old) /\ invalidate_asserts(old)
  <2>1. old \in Ppa /\ l0 \in Line
    BY <1>0, <1>2 DEF TypeOK, mapped_ppa, Ppa
  <2>2. /\ mark_page_invalid(old)
        /\ rmap' = [rmap EXCEPT ![old] = INVALID_LPN]
        /\ pc' = "program"
        /\ UNCHANGED <<req, maptbl, wp, gc, write_credits, credits_to_refill>>
    BY <1>2 DEF InvalidateOld, credits
  <2>3. ~in_gc'
    BY <2>2 DEF in_gc
  <2>4. vpc[l0] = pgs_per_line <=> l0 \in full_line_list
    <3>1. ASSUME vpc[l0] = pgs_per_line
          PROVE  l0 \in full_line_list
      BY <1>0, <2>1, <3>1, Occupied DEF Consistent, collected
    <3>2. ASSUME l0 \in full_line_list
          PROVE  vpc[l0] = pgs_per_line
      BY <2>1, <3>2 DEF Consistent, LineOccupancy
    <3> QED
      BY <3>1, <3>2
  <2>5. /\ ipc' = [ipc EXCEPT ![l0] = ipc[l0] + 1]
        /\ vpc' = [vpc EXCEPT ![l0] = vpc[l0] - 1]
        /\ vpc[l0] \in Int /\ ipc[l0] \in Int
        /\ vpc[l0] > 0 /\ vpc[l0] <= pgs_per_line
        /\ vpc' \in [Line -> Int] /\ ipc' \in [Line -> Int]
    BY <1>2, <2>1, <2>2 DEF mark_page_invalid, invalidate_asserts, TypeOK
  <2>6. /\ full_line_list' = full_line_list \ {l0}
        /\ victim_line_pq' = IF l0 \in full_line_list THEN victim_line_pq \union {l0}
                             ELSE victim_line_pq
        /\ free_line_list' = free_line_list
    BY <2>2, <2>4 DEF mark_page_invalid
  <2>7. TypeOK'
    BY <2>1, <2>2, <2>3, <2>5, <2>6 DEF TypeOK, mark_page_invalid
  <2>8. MapInverse'
    <3>1. status' = [status EXCEPT ![old] = "INVALID"]
      BY <2>2 DEF mark_page_invalid
    <3>2. \A l \in Lpn : l # req.lpn /\ mapped_ppa(maptbl[l]) =>
            maptbl[l] # old /\ status[maptbl[l]] = "VALID" /\ rmap[maptbl[l]] = l
      <4>1. ~being_replaced(req.lpn) /\ \A l \in Lpn : ~being_replaced(l)
        BY DEF being_replaced, InvalidateOld
      <4> QED
        BY <1>0, <1>2, <4>1 DEF Consistent, MapInverse
    <3>3. \A l \in Lpn : mapped_ppa(maptbl[l]) => maptbl[l] \in Ppa
      BY DEF TypeOK, mapped_ppa
    <3>4. ASSUME NEW l \in Lpn, mapped_ppa(maptbl'[l]), ~being_replaced(l)'
          PROVE  /\ status'[maptbl'[l]] = "VALID"
                 /\ rmap'[maptbl'[l]] = l
                 /\ ~superseded(maptbl[l])'
      <4>1. l # req.lpn
        BY <2>2, <3>4 DEF being_replaced
      <4> QED
        BY <2>1, <2>2, <2>3, <3>1, <3>2, <3>3, <3>4, <4>1 DEF superseded, TypeOK
    <3>5. ASSUME NEW p \in Ppa, status'[p] = "VALID", ~superseded(p)'
          PROVE  rmap'[p] \in Lpn /\ maptbl'[rmap'[p]] = p
      <4>1. p # old /\ status[p] = "VALID" /\ rmap'[p] = rmap[p]
        BY <2>1, <2>2, <3>1, <3>5 DEF TypeOK
      <4>2. ~superseded(p)
        BY <1>0 DEF superseded
      <4> QED
        BY <2>2, <4>1, <4>2 DEF Consistent, MapInverse
    <3> QED
      BY <1>0, <2>1, <2>2, <3>1, <3>4, <3>5 DEF MapInverse, mapped_ppa, being_replaced, TypeOK
  <2>9. LinePartition'
    <3>1. \A l \in Line : /\ on_free(l)' <=> on_free(l)
                          /\ open(l)' <=> open(l)
                          /\ ~collected(l) /\ ~collected(l)'
      BY <1>0, <2>2, <2>3, <2>6 DEF on_free, open, collected
    <3> QED
      BY <2>1, <2>2, <2>6, <3>1 DEF Consistent, LinePartition
  <2>10. LineOccupancy'
    <3>1. \A l \in Line : on_free(l)' <=> on_free(l)
      BY <2>6 DEF on_free
    <3>2. ~on_free(l0)
      BY <2>1, <2>5 DEF Consistent, LineOccupancy
    <3>3. \A l \in Line : /\ vpc'[l] \in Int /\ ipc'[l] \in Int
                          /\ vpc[l] \in Int /\ ipc[l] \in Int
                          /\ vpc'[l] + ipc'[l] = vpc[l] + ipc[l]
                          /\ l # l0 => vpc'[l] = vpc[l] /\ ipc'[l] = ipc[l]
      <4> TAKE l \in Line
      <4>1. vpc[l] \in Int /\ ipc[l] \in Int
        BY DEF TypeOK
      <4>2. CASE l = l0
        <5>1. vpc'[l] = vpc[l] - 1 /\ ipc'[l] = ipc[l] + 1
          BY <2>1, <2>5, <4>2 DEF TypeOK
        <5> QED
          BY <4>1, <4>2, <5>1
      <4>3. CASE l # l0
        <5>1. vpc'[l] = vpc[l] /\ ipc'[l] = ipc[l]
          BY <2>1, <2>5, <4>3 DEF TypeOK
        <5> QED
          BY <4>1, <5>1
      <4> QED
        BY <4>2, <4>3
    <3>4. ASSUME NEW l \in Line
          PROVE  /\ vpc'[l] >= 0 /\ ipc'[l] >= 0
                 /\ on_free(l)' => vpc'[l] = 0 /\ ipc'[l] = 0
                 /\ l \in full_line_list' => vpc'[l] = pgs_per_line /\ ipc'[l] = 0
                 /\ l \in victim_line_pq' => vpc'[l] + ipc'[l] = pgs_per_line /\ ipc'[l] > 0
      <4>1. CASE l = l0
        <5>1. vpc'[l] = vpc[l0] - 1 /\ ipc'[l] = ipc[l0] + 1 /\ ipc[l0] >= 0
          BY <2>1, <2>5, <4>1 DEF Consistent, LineOccupancy, TypeOK
        <5>2. l0 \in full_line_list => vpc[l0] + ipc[l0] = pgs_per_line
          BY <2>1, LineSize DEF Consistent, LineOccupancy
        <5>3. l0 \in victim_line_pq => vpc[l0] + ipc[l0] = pgs_per_line
          BY <2>1 DEF Consistent, LineOccupancy
        <5> QED
          BY <2>1, <2>5, <2>6, <3>1, <3>2, <3>3, <4>1, <5>1, <5>2, <5>3
      <4>2. CASE l # l0
        BY <2>6, <3>1, <3>3, <4>2 DEF Consistent, LineOccupancy
      <4> QED
        BY <4>1, <4>2
    <3>5. ASSUME NEW t \in IoType
          PROVE  vpc'[wp'[t].blk] + ipc'[wp'[t].blk] = rank(wp'[t])
      <4>1. wp'[t] = wp[t] /\ wp[t].blk \in Line
        BY <2>2 DEF TypeOK, Ppa
      <4> QED
        BY <3>3, <4>1 DEF Consistent, LineOccupancy
    <3> QED
      BY <3>4, <3>5 DEF LineOccupancy, rank
  <2>11. CreditRange'
    BY <2>2, <2>3 DEF Consistent, CreditRange, InvalidateOld
  <2>12. GcErased'
    BY <2>2, <2>3 DEF GcErased
  <2> QED
    BY <2>7, <2>8, <2>9, <2>10, <2>11, <2>12 DEF IInv, Consistent
<1>3. CASE mapped_ppa(old) /\ ~invalidate_asserts(old)
  BY <1>3, PanicIInv DEF InvalidateOld
<1> QED
  BY <1>1, <1>2, <1>3

\* select_victim_line: the victim leaves the queue and no page of it is passed
\* yet; it has an invalid page, so the credits to refill are at least one.
LEMMA SelectVictimIInv ==
  ASSUME TypeOK, Consistent, SelectVictim
  PROVE  IInv'
<1>1. PICK v \in Line :
        /\ v \in victim_line_pq
        /\ victim_line_pq' = victim_line_pq \ {v}
        /\ gc' = line_start(v)
        /\ credits_to_refill' = ipc[v]
  BY DEF SelectVictim, credits_from, is_min_victim
<1>2. /\ pc = "credit" /\ pc' = "clean" /\ write_credits = 0
      /\ UNCHANGED <<req, maptbl, rmap, status, vpc, ipc, free_line_list,
                      full_line_list, wp, write_credits>>
  BY DEF SelectVictim, credits_from
<1>3. ~in_gc /\ in_gc'
  BY <1>2 DEF in_gc
<1>4. /\ gc' \in Ppa /\ gc'.blk = v
      /\ gc'.wl = 0 /\ gc'.ch = 0 /\ gc'.lun = 0 /\ gc'.pg = 0
  BY <1>1, LineStartPpa DEF line_start, page
<1>5. ipc[v] \in 1 .. pgs_per_line
  BY LineSize, <1>1 DEF Consistent, LineOccupancy, TypeOK
<1>6. TypeOK'
  BY <1>1, <1>2, <1>3, <1>4, <1>5, LineSize DEF TypeOK
<1>7. MapInverse'
  <2>1. \A p \in Ppa : ~superseded(p)' /\ ~superseded(p)
    <3> TAKE p \in Ppa
    <3>1. p.wl >= 0 /\ p.ch >= 0 /\ p.lun >= 0 /\ p.pg >= 0
      BY DEF Ppa
    <3> QED
      BY <1>2, <1>3, <1>4, <3>1 DEF superseded, passed, Ppa
  <2>2. \A l \in Lpn : mapped_ppa(maptbl[l]) => maptbl[l] \in Ppa
    BY DEF TypeOK, mapped_ppa
  <2> QED
    BY <1>2, <2>1, <2>2 DEF Consistent, MapInverse, mapped_ppa, being_replaced
<1>8. LinePartition'
  <2>1. \A l \in Line : /\ on_free(l)' <=> on_free(l)
                        /\ open(l)' <=> open(l)
                        /\ ~collected(l)
                        /\ collected(l)' <=> l = v
    BY <1>2, <1>3, <1>4 DEF on_free, open, collected
  <2> QED
    BY <1>1, <1>2, <2>1 DEF Consistent, LinePartition
<1>9. LineOccupancy'
  BY <1>1, <1>2 DEF Consistent, LineOccupancy, on_free, rank
<1>10. CreditRange'
  BY <1>1, <1>2, <1>3, <1>5 DEF CreditRange
<1>11. GcErased'
  <2>1. \A p \in Ppa : ~(p.ch < 0) /\ ~(p.lun < 0)
    BY DEF Ppa
  <2> QED
    BY <1>2, <1>4, <2>1 DEF GcErased, block_erased
<1> QED
  BY <1>6, <1>7, <1>8, <1>9, <1>10, <1>11 DEF IInv, Consistent

\* mark_block_free: every page of the block has been passed, so none of them is
\* the current copy of a logical page.
LEMMA EraseBlockIInv ==
  ASSUME TypeOK, Consistent, EraseBlock
  PROVE  IInv'
<1>1. /\ pc = "erase"
      /\ status' = [p \in Ppa |-> IF same_block(p, gc) THEN "FREE" ELSE status[p]]
      /\ UNCHANGED <<req, maptbl, rmap, vpc, ipc, free_line_list, full_line_list,
                      victim_line_pq, wp, write_credits, credits_to_refill>>
  BY DEF EraseBlock, lines, credits
<1>2. /\ in_gc /\ in_gc' /\ gc \in Ppa
      /\ gc.wl = WLS - 1 /\ gc.pg = ONESHOT - 1
  BY <1>1 DEF EraseBlock, in_gc, TypeOK, Consistent, GcErased
<1>3. \/ last_flashpg(gc) /\ pc' = "free_line" /\ gc' = gc
      \/ /\ ~last_flashpg(gc) /\ pc' = "clean" /\ gc' = next_flashpg(gc)
         /\ gc'.wl = gc.wl /\ gc'.pg = 0
         /\ \/ gc'.ch = gc.ch /\ gc'.lun = gc.lun + 1
            \/ gc.lun = LUNS - 1 /\ gc'.ch = gc.ch + 1 /\ gc'.lun = 0
  BY <1>1, <1>2 DEF EraseBlock, last_flashpg, next_flashpg, page
<1>4. gc' \in Ppa /\ gc'.blk = gc.blk
  BY <1>2, <1>3, NextFlashpgPpa
<1>5. \A p \in Ppa : same_block(p, gc) => superseded(p)
  <2> TAKE p \in Ppa
  <2>1. p.wl \in Int /\ p.wl <= WLS - 1 /\ WLS \in Int
    BY GeometryAssumption DEF Ppa
  <2> QED
    BY <1>1, <1>2, <2>1 DEF same_block, superseded, passed
<1>6. \A p \in Ppa : superseded(p)' => superseded(p)
  <2> TAKE p \in Ppa
  <2>1. /\ p.wl \in 0 .. WLS - 1 /\ p.ch \in 0 .. NCHS - 1 /\ p.lun \in 0 .. LUNS - 1
        /\ p.pg \in 0 .. ONESHOT - 1
        /\ gc.ch \in 0 .. NCHS - 1 /\ gc.lun \in 0 .. LUNS - 1
    BY <1>2 DEF Ppa
  <2> QED
    BY <1>1, <1>2, <1>3, <1>4, <2>1, GeometryAssumption
    DEF superseded, passed, last_flashpg
<1>7. \A p \in Ppa : superseded(p) => superseded(p)' \/ same_block(p, gc)
  <2> TAKE p \in Ppa
  <2>1. /\ p.wl \in 0 .. WLS - 1 /\ p.ch \in 0 .. NCHS - 1 /\ p.lun \in 0 .. LUNS - 1
        /\ gc.ch \in 0 .. NCHS - 1 /\ gc.lun \in 0 .. LUNS - 1
    BY <1>2 DEF Ppa
  <2> QED
    BY <1>1, <1>2, <1>3, <1>4, <2>1, GeometryAssumption
    DEF superseded, passed, same_block
<1>8. TypeOK'
  BY <1>1, <1>2, <1>3, <1>4 DEF TypeOK
<1>9. MapInverse'
  <2>1. \A l \in Lpn : mapped_ppa(maptbl[l]) => maptbl[l] \in Ppa
    BY DEF TypeOK, mapped_ppa
  <2>2. ASSUME NEW l \in Lpn, mapped_ppa(maptbl[l])
        PROVE  /\ status'[maptbl[l]] = "VALID"
               /\ rmap[maptbl[l]] = l
               /\ ~superseded(maptbl[l])'
    <3>1. ~being_replaced(l)
      BY <1>1 DEF being_replaced
    <3>2. /\ status[maptbl[l]] = "VALID" /\ rmap[maptbl[l]] = l
          /\ ~superseded(maptbl[l]) /\ maptbl[l] \in Ppa
      BY <2>1, <2>2, <3>1 DEF Consistent, MapInverse
    <3>3. ~same_block(maptbl[l], gc)
      BY <1>5, <3>2
    <3>4. status'[maptbl[l]] = "VALID"
      BY <1>1, <3>2, <3>3
    <3>5. ~superseded(maptbl[l])'
      <4> DEFINE q == maptbl[l]
      <4>1. q \in Ppa /\ ~superseded(q) /\ q' = q
        BY <1>1, <3>2
      <4> QED
        BY <1>6, <4>1 DEF superseded, passed
    <3> QED
      BY <3>2, <3>4, <3>5
  <2>3. ASSUME NEW p \in Ppa, status'[p] = "VALID", ~superseded(p)'
        PROVE  rmap[p] \in Lpn /\ maptbl[rmap[p]] = p
    BY <1>1, <1>7, <2>3 DEF Consistent, MapInverse
  <2>4. \A l \in Lpn : ~being_replaced(l)'
    BY <1>3 DEF being_replaced
  <2> QED
    BY <1>1, <2>2, <2>3, <2>4 DEF MapInverse, mapped_ppa
<1>10. LinePartition'
  BY <1>1, <1>2, <1>4 DEF Consistent, LinePartition, on_free, open, collected
<1>11. LineOccupancy'
  BY <1>1 DEF Consistent, LineOccupancy, on_free, rank
<1>12. CreditRange'
  BY <1>1, <1>2, <1>3 DEF Consistent, CreditRange
<1>13. GcErased'
  <2>1. \A p \in Ppa : p.blk = gc'.blk /\ block_erased(p)' =>
          same_block(p, gc) \/ block_erased(p)
    <3> TAKE p \in Ppa
    <3>1. /\ p.ch \in 0 .. NCHS - 1 /\ p.lun \in 0 .. LUNS - 1
          /\ gc.ch \in 0 .. NCHS - 1 /\ gc.lun \in 0 .. LUNS - 1
      BY <1>2 DEF Ppa
    <3> QED
      BY <1>1, <1>2, <1>3, <1>4, <3>1, GeometryAssumption
      DEF block_erased, same_block, last_flashpg
  <2>2. \A p \in Ppa : p.blk = gc.blk /\ block_erased(p) => status[p] = "FREE"
    BY <1>2 DEF Consistent, GcErased
  <2>3. pc' # "erase"
    BY <1>3
  <2> QED
    BY <1>1, <1>4, <2>1, <2>2, <2>3 DEF GcErased
<1> QED
  BY <1>8, <1>9, <1>10, <1>11, <1>12, <1>13 DEF IInv, Consistent

\* mark_line_free: the whole line is blank and nothing is mapped to it.
LEMMA FreeLineIInv ==
  ASSUME TypeOK, Consistent, FreeLine
  PROVE  IInv'
<1> DEFINE v == gc.blk
           n == Len(free_line_list)
<1>1. /\ pc = "free_line"
      /\ vpc' = [vpc EXCEPT ![v] = 0]
      /\ ipc' = [ipc EXCEPT ![v] = 0]
      /\ free_line_list' = Append(free_line_list, v)
      /\ gc' = UNMAPPED_PPA
      /\ UNCHANGED <<maptbl, rmap, status, full_line_list, victim_line_pq, wp,
                      credits_to_refill>>
  BY DEF FreeLine
<1>2. pc' \in {"idle", "invalidate"} /\ req' \in [lpn : Lpn, end : Lpn]
  BY NextLpnType DEF FreeLine
<1>3. in_gc /\ ~in_gc' /\ gc \in Ppa /\ v \in Line
  BY <1>1, <1>2 DEF in_gc, TypeOK, Ppa
<1>4. write_credits' = credits_to_refill /\ credits_to_refill \in 1 .. pgs_per_line
  <2>1. credits_to_refill \in 1 .. pgs_per_line /\ write_credits = 0
    BY <1>3 DEF Consistent, CreditRange
  <2>2. 0 + credits_to_refill \in 0 .. 2 * pgs_per_line
    BY <2>1, LineSize
  <2> QED
    BY <2>1, <2>2, NoWrap DEF refill, FreeLine
<1>5. /\ n \in Nat /\ Len(free_line_list') = n + 1
      /\ free_line_list' \in Seq(Line)
      /\ \A i \in 1 .. n : free_line_list'[i] = free_line_list[i]
      /\ free_line_list'[n + 1] = v
  BY <1>1, <1>3 DEF TypeOK
<1>6. \A l \in Line : on_free(l)' <=> on_free(l) \/ l = v
  <2> HIDE DEF n, v
  <2> QED
    BY <1>5 DEF on_free, n
<1>7. TypeOK'
  BY <1>1, <1>2, <1>3, <1>4, <1>5, LineSize DEF TypeOK
<1>8. MapInverse'
  <2>1. \A p \in Ppa : superseded(p) => status[p] = "FREE"
    BY <1>1, <1>3 DEF Consistent, GcErased, superseded, block_erased
  <2>2. \A p \in Ppa : ~superseded(p)'
    BY <1>3 DEF superseded
  <2>3. \A l \in Lpn : ~being_replaced(l) /\ ~being_replaced(l)'
    BY <1>1, <1>2 DEF being_replaced
  <2>4. \A l \in Lpn : mapped_ppa(maptbl[l]) => maptbl[l] \in Ppa
    BY DEF TypeOK, mapped_ppa
  <2>5. ASSUME NEW l \in Lpn, mapped_ppa(maptbl[l])
        PROVE  /\ status[maptbl[l]] = "VALID" /\ rmap[maptbl[l]] = l
               /\ ~superseded(maptbl[l])'
    BY <1>3, <2>3, <2>5 DEF Consistent, MapInverse, superseded
  <2>6. ASSUME NEW p \in Ppa, status[p] = "VALID"
        PROVE  rmap[p] \in Lpn /\ maptbl[rmap[p]] = p
    BY <2>1, <2>6 DEF Consistent, MapInverse
  <2> QED
    BY <1>1, <2>3, <2>5, <2>6 DEF MapInverse, mapped_ppa
<1>9. LinePartition'
  <2>1. \A l \in Line : /\ open(l)' <=> open(l)
                        /\ collected(l) <=> l = v
                        /\ ~collected(l)'
    BY <1>1, <1>3 DEF open, collected
  <2>2. \A i, j \in 1 .. n + 1 : i # j => free_line_list'[i] # free_line_list'[j]
    <3>1. \A i \in 1 .. n : free_line_list[i] # v
      <4>1. ~on_free(v)
        BY <1>3, <2>1 DEF Consistent, LinePartition
      <4> QED
        BY <4>1 DEF on_free
    <3>2. \A i, j \in 1 .. n : i # j => free_line_list[i] # free_line_list[j]
      BY DEF Consistent, LinePartition
    <3> HIDE DEF n, v
    <3>3. \A i \in 1 .. n + 1 : i \in 1 .. n \/ i = n + 1
      BY <1>5
    <3> QED
      BY <1>5, <3>1, <3>2, <3>3
  <2> QED
    BY <1>1, <1>3, <1>5, <1>6, <2>1, <2>2 DEF Consistent, LinePartition
<1>10. LineOccupancy'
  <2>1. v \notin full_line_list /\ v \notin victim_line_pq /\ ~open(v)
    BY <1>3 DEF Consistent, LinePartition, collected
  <2>2. \A l \in Line : /\ l = v => vpc'[l] = 0 /\ ipc'[l] = 0
                        /\ l # v => vpc'[l] = vpc[l] /\ ipc'[l] = ipc[l]
    BY <1>1, <1>3 DEF TypeOK
  <2>3. \A t \in IoType : wp[t].blk # v /\ wp[t].blk \in Line
    BY <2>1 DEF open, TypeOK, Ppa
  <2> HIDE DEF v
  <2>4. ASSUME NEW l \in Line
        PROVE  /\ vpc'[l] >= 0 /\ ipc'[l] >= 0
               /\ on_free(l)' => vpc'[l] = 0 /\ ipc'[l] = 0
               /\ l \in full_line_list' => vpc'[l] = pgs_per_line /\ ipc'[l] = 0
               /\ l \in victim_line_pq' => vpc'[l] + ipc'[l] = pgs_per_line /\ ipc'[l] > 0
    BY <1>1, <1>6, <2>1, <2>2 DEF Consistent, LineOccupancy
  <2>5. \A t \in IoType : vpc'[wp'[t].blk] + ipc'[wp'[t].blk] = rank(wp'[t])
    BY <1>1, <2>2, <2>3 DEF Consistent, LineOccupancy
  <2> QED
    BY <2>4, <2>5 DEF LineOccupancy, rank
<1>11. CreditRange'
  BY <1>1, <1>2, <1>3, <1>4 DEF CreditRange
<1>12. GcErased'
  BY <1>2, <1>3 DEF GcErased
<1> QED
  BY <1>7, <1>8, <1>9, <1>10, <1>11, <1>12 DEF IInv, Consistent

-----------------------------------------------------------------------------
(* The steps that program a page.                                          *)

\* What programming a page does to the lines, for either write pointer: the
\* open line gains a page, or is closed and replaced by the head of the free list.
LEMMA ProgramLines ==
  ASSUME TypeOK, LinePartition, LineOccupancy,
         NEW lpn \in Lpn, NEW t \in IoType,
         program_asserts(t), program_page(lpn, t),
         in_gc' <=> in_gc, in_gc => gc'.blk = gc.blk
  PROVE  /\ LinePartition'
         /\ LineOccupancy'
         /\ free_line_list' \in Seq(Line)
         /\ full_line_list' \subseteq Line
         /\ victim_line_pq' \subseteq Line
         /\ wp' \in [IoType -> Ppa]
         /\ vpc' \in [Line -> Int]
<1> DEFINE new == wp[t]
           b == new.blk
           u == IF t = "USER_IO" THEN "GC_IO" ELSE "USER_IO"
           n == Len(free_line_list)
<1>1. /\ new \in Ppa /\ b \in Line
      /\ u \in IoType /\ u # t /\ IoType = {t, u}
      /\ wp[u] \in Ppa /\ wp[u].blk \in Line /\ wp[u].blk # b
  BY DEF TypeOK, Ppa, IoType, LinePartition
<1>2. /\ vpc' = [vpc EXCEPT ![b] = vpc[b] + 1] /\ ipc' = ipc
      /\ vpc[b] \in Int /\ ipc[b] \in Int
      /\ advance_write_pointer(t, vpc[b] + 1)
  BY <1>1 DEF program_page, TypeOK
<1>3. vpc' \in [Line -> Int]
  BY <1>1, <1>2 DEF TypeOK
<1>4. /\ vpc'[b] = vpc[b] + 1
      /\ \A l \in Line : l # b => vpc'[l] = vpc[l]
  BY <1>1, <1>2 DEF TypeOK
<1>5. open(b) /\ open(wp[u].blk) /\ \A l \in Line : open(l) <=> l = b \/ l = wp[u].blk
  BY <1>1 DEF open
<1>6. ~on_free(b) /\ b \notin full_line_list /\ b \notin victim_line_pq /\ ~collected(b)
  BY <1>1, <1>5 DEF LinePartition
<1>7. \A l \in Line : collected(l)' <=> collected(l)
  BY DEF collected
<1>8. /\ vpc[b] + ipc[b] = rank(new) /\ vpc[b] >= 0 /\ ipc[b] >= 0
      /\ vpc[wp[u].blk] + ipc[wp[u].blk] = rank(wp[u])
      /\ rank(new) \in Int /\ rank(wp[u]) \in Int
  BY <1>1, RankBound DEF LineOccupancy
<1>9. CASE ~last_pg_in_line(new)
  <2>1. /\ wp' = [wp EXCEPT ![t] = next_pg_in_line(new)]
        /\ UNCHANGED <<free_line_list, full_line_list, victim_line_pq>>
    BY <1>2, <1>9 DEF advance_write_pointer, lines
  <2>2. /\ next_pg_in_line(new) \in Ppa /\ next_pg_in_line(new).blk = b
        /\ rank(next_pg_in_line(new)) = rank(new) + 1
    BY <1>1, <1>9, NextPgPpa, RankStep
  <2>3. /\ wp' \in [IoType -> Ppa]
        /\ wp'[t] = next_pg_in_line(new) /\ wp'[u] = wp[u]
    BY <1>1, <2>1, <2>2 DEF TypeOK
  <2>4. \A l \in Line : on_free(l)' <=> on_free(l)
    BY <2>1 DEF on_free
  <2>5. \A l \in Line : open(l)' <=> open(l)
    BY <1>1, <1>5, <2>2, <2>3 DEF open
  <2>6. wp'["USER_IO"].blk = wp["USER_IO"].blk /\ wp'["GC_IO"].blk = wp["GC_IO"].blk
    BY <1>1, <2>2, <2>3 DEF IoType
  <2>7. LinePartition'
    BY <1>7, <2>1, <2>4, <2>5, <2>6 DEF LinePartition
  <2>8. LineOccupancy'
    <3>1. ASSUME NEW l \in Line
          PROVE  /\ vpc'[l] >= 0 /\ ipc'[l] >= 0
                 /\ on_free(l)' => vpc'[l] = 0 /\ ipc'[l] = 0
                 /\ l \in full_line_list' => vpc'[l] = pgs_per_line /\ ipc'[l] = 0
                 /\ l \in victim_line_pq' => vpc'[l] + ipc'[l] = pgs_per_line /\ ipc'[l] > 0
      <4>1. CASE l = b
        BY <1>1, <1>2, <1>4, <1>6, <1>8, <2>1, <2>4, <4>1
      <4>2. CASE l # b
        BY <1>2, <1>4, <2>1, <2>4, <4>2 DEF LineOccupancy
      <4> QED
        BY <4>1, <4>2
    <3>2. vpc'[wp'[t].blk] + ipc'[wp'[t].blk] = rank(wp'[t])
      BY <1>2, <1>4, <1>8, <2>2, <2>3
    <3>3. vpc'[wp'[u].blk] + ipc'[wp'[u].blk] = rank(wp'[u])
      BY <1>1, <1>2, <1>4, <1>8, <2>3
    <3> QED
      BY <1>1, <3>1, <3>2, <3>3 DEF LineOccupancy, rank
  <2> QED
    BY <1>3, <2>1, <2>3, <2>7, <2>8 DEF TypeOK
<1>10. CASE last_pg_in_line(new)
  <2> DEFINE h == Head(free_line_list)
  <2>1. /\ wp' = [wp EXCEPT ![t] = line_start(h)]
        /\ free_line_list' = Tail(free_line_list)
        /\ close_line(b, vpc[b] + 1)
    BY <1>2, <1>10 DEF advance_write_pointer
  <2>2. /\ IF vpc[b] + 1 = pgs_per_line THEN ipc[b] = 0 ELSE ipc[b] > 0
        /\ free_line_list # <<>>
    BY <1>10 DEF program_asserts
  <2>3. /\ n \in Nat /\ n >= 1 /\ h = free_line_list[1] /\ h \in Line
        /\ free_line_list' \in Seq(Line) /\ Len(free_line_list') = n - 1
        /\ \A i \in 1 .. n - 1 : free_line_list'[i] = free_line_list[i + 1]
    BY <2>1, <2>2 DEF TypeOK
  <2>4. /\ line_start(h) \in Ppa /\ line_start(h).blk = h /\ rank(line_start(h)) = 0
    BY <2>3, LineStartPpa, RankStep
  <2>5. /\ wp' \in [IoType -> Ppa]
        /\ wp'[t] = line_start(h) /\ wp'[u] = wp[u]
    BY <1>1, <2>1, <2>4 DEF TypeOK
  <2>6. on_free(h)
    BY <2>3 DEF on_free
  <2>7. h \notin full_line_list /\ h \notin victim_line_pq /\ ~open(h) /\ ~collected(h)
        /\ h # b /\ h # wp[u].blk
    BY <1>1, <1>5, <2>3, <2>6 DEF LinePartition
  <2>8. \A i, j \in 1 .. n : i # j => free_line_list[i] # free_line_list[j]
    BY DEF LinePartition
  <2>9. \A l \in Line : on_free(l)' <=> on_free(l) /\ l # h
    <3> TAKE l \in Line
    <3>1. ASSUME on_free(l)'
          PROVE  on_free(l) /\ l # h
      <4>1. PICK i \in 1 .. n - 1 : free_line_list[i + 1] = l
        BY <2>3, <3>1 DEF on_free
      <4>2. i + 1 \in 1 .. n /\ i + 1 # 1 /\ 1 \in 1 .. n
        BY <2>3
      <4> QED
        BY <2>3, <2>8, <4>1, <4>2 DEF on_free
    <3>2. ASSUME on_free(l), l # h
          PROVE  on_free(l)'
      <4>1. PICK i \in 1 .. n : free_line_list[i] = l
        BY <3>2 DEF on_free
      <4>2. i # 1
        BY <2>3, <3>2, <4>1
      <4>3. i - 1 \in 1 .. n - 1 /\ (i - 1) + 1 = i
        BY <2>3, <4>2
      <4>4. free_line_list'[i - 1] = l
        BY <2>3, <4>1, <4>3
      <4> QED
        BY <2>3, <4>3, <4>4 DEF on_free
    <3> QED
      BY <3>1, <3>2
  <2>10. \A l \in Line : open(l)' <=> l = h \/ l = wp[u].blk
    BY <1>1, <2>4, <2>5 DEF open
  <2>11. rank(new) = pgs_per_line - 1
    BY <1>1, <1>10, RankStep
  <2>12. \/ /\ vpc[b] + 1 = pgs_per_line
            /\ full_line_list' = full_line_list \union {b}
            /\ victim_line_pq' = victim_line_pq
         \/ /\ vpc[b] + 1 # pgs_per_line
            /\ full_line_list' = full_line_list
            /\ victim_line_pq' = victim_line_pq \union {b}
    BY <2>1 DEF close_line
  <2>13. LinePartition'
    <3>1. \A i, j \in 1 .. n - 1 : i # j => free_line_list'[i] # free_line_list'[j]
      <4> TAKE i, j \in 1 .. n - 1
      <4>1. i + 1 \in 1 .. n /\ j + 1 \in 1 .. n /\ (i # j => i + 1 # j + 1)
        BY <2>3
      <4> QED
        BY <2>3, <2>8, <4>1
    <3>2. wp'["USER_IO"].blk # wp'["GC_IO"].blk
      BY <1>1, <2>4, <2>5, <2>7 DEF IoType
    <3> HIDE DEF h, b, n
    <3>3. ASSUME NEW l \in Line
          PROVE  /\ on_free(l)' \/ l \in full_line_list' \/ l \in victim_line_pq' \/ open(l)' \/ collected(l)'
                 /\ on_free(l)' => l \notin full_line_list' \union victim_line_pq' /\ ~open(l)' /\ ~collected(l)'
                 /\ l \in full_line_list' => l \notin victim_line_pq' /\ ~open(l)' /\ ~collected(l)'
                 /\ l \in victim_line_pq' => ~open(l)' /\ ~collected(l)'
                 /\ open(l)' => ~collected(l)'
      BY <1>1, <1>5, <1>6, <1>7, <2>6, <2>7, <2>9, <2>10, <2>12 DEF LinePartition
    <3> QED
      BY <2>3, <3>1, <3>2, <3>3 DEF LinePartition
  <2>14. LineOccupancy'
    <3>1. ASSUME NEW l \in Line
          PROVE  /\ vpc'[l] >= 0 /\ ipc'[l] >= 0
                 /\ on_free(l)' => vpc'[l] = 0 /\ ipc'[l] = 0
                 /\ l \in full_line_list' => vpc'[l] = pgs_per_line /\ ipc'[l] = 0
                 /\ l \in victim_line_pq' => vpc'[l] + ipc'[l] = pgs_per_line /\ ipc'[l] > 0
      <4>1. CASE l = b
        BY <1>1, <1>2, <1>4, <1>6, <1>8, <2>2, <2>9, <2>11, <2>12, <4>1, LineSize
      <4>2. CASE l # b
        BY <1>2, <1>4, <2>9, <2>12, <4>2 DEF LineOccupancy
      <4> QED
        BY <4>1, <4>2
    <3>2. vpc'[wp'[t].blk] + ipc'[wp'[t].blk] = rank(wp'[t])
      BY <1>2, <1>4, <2>3, <2>4, <2>5, <2>6, <2>7 DEF LineOccupancy
    <3>3. vpc'[wp'[u].blk] + ipc'[wp'[u].blk] = rank(wp'[u])
      BY <1>1, <1>2, <1>4, <1>8, <2>5
    <3> QED
      BY <1>1, <3>1, <3>2, <3>3 DEF LineOccupancy, rank
  <2> QED
    BY <1>1, <1>3, <2>3, <2>5, <2>12, <2>13, <2>14 DEF TypeOK
<1> QED
  BY <1>9, <1>10

\* conv_write programs the new copy of the page it has just invalidated.
LEMMA ProgramUserIInv ==
  ASSUME TypeOK, Consistent, ProgramUser
  PROVE  IInv'
<1> DEFINE lpn == req.lpn
           new == wp["USER_IO"]
<1>1. CASE ~program_asserts("USER_IO")
  BY <1>1, PanicIInv DEF ProgramUser
<1>2. CASE program_asserts("USER_IO")
  <2>1. /\ pc = "program" /\ pc' = "credit"
        /\ program_page(lpn, "USER_IO")
        /\ write_credits' = (write_credits - 1) % UINT_MOD
        /\ UNCHANGED <<req, gc, credits_to_refill>>
    BY <1>2 DEF ProgramUser, consume_write_credit
  <2>2. /\ ~in_gc /\ ~in_gc' /\ lpn \in Lpn /\ "USER_IO" \in IoType
        /\ new \in Ppa /\ status[new] = "FREE"
    BY <1>2, <2>1 DEF in_gc, TypeOK, IoType, program_asserts
  <2>3. /\ maptbl' = [maptbl EXCEPT ![lpn] = new]
        /\ rmap' = [rmap EXCEPT ![new] = lpn]
        /\ status' = [status EXCEPT ![new] = "VALID"]
        /\ ipc' = ipc
    BY <2>1 DEF program_page
  <2>4. /\ LinePartition' /\ LineOccupancy'
        /\ free_line_list' \in Seq(Line)
        /\ full_line_list' \subseteq Line
        /\ victim_line_pq' \subseteq Line
        /\ wp' \in [IoType -> Ppa]
        /\ vpc' \in [Line -> Int]
    BY <1>2, <2>1, <2>2, ProgramLines DEF Consistent
  <2>5. write_credits' = write_credits - 1 /\ write_credits \in 1 .. pgs_per_line
    <3>1. write_credits \in 1 .. pgs_per_line
      BY <2>1 DEF Consistent, CreditRange
    <3>2. write_credits - 1 \in 0 .. 2 * pgs_per_line
      BY <3>1, LineSize
    <3> QED
      BY <2>1, <3>1, <3>2, NoWrap
  <2>6. TypeOK'
    BY <2>1, <2>2, <2>3, <2>4, <2>5, LineSize DEF TypeOK
  <2>7. MapInverse'
    <3>1. \A l \in Lpn : ~being_replaced(l)' /\ (l # lpn => ~being_replaced(l))
      BY <2>1 DEF being_replaced
    <3>2. being_replaced(lpn)
      BY <2>1 DEF being_replaced
    <3>3. \A p \in Ppa : ~superseded(p) /\ ~superseded(p)'
      BY <2>2 DEF superseded
    <3>4. \A l \in Lpn : mapped_ppa(maptbl[l]) => maptbl[l] \in Ppa
      BY DEF TypeOK, mapped_ppa
    <3>5. ASSUME NEW l \in Lpn, mapped_ppa(maptbl'[l])
          PROVE  /\ status'[maptbl'[l]] = "VALID" /\ rmap'[maptbl'[l]] = l
                 /\ ~superseded(maptbl[l])'
      <4>1. CASE l = lpn
        BY <2>2, <2>3, <4>1 DEF TypeOK, superseded
      <4>2. CASE l # lpn
        <5>1. maptbl'[l] = maptbl[l] /\ maptbl[l] \in Ppa
          BY <2>2, <2>3, <3>4, <3>5, <4>2 DEF TypeOK
        <5>2. status[maptbl[l]] = "VALID" /\ rmap[maptbl[l]] = l
          BY <3>1, <3>5, <4>2, <5>1 DEF Consistent, MapInverse
        <5> QED
          BY <2>2, <2>3, <5>1, <5>2 DEF TypeOK, superseded
      <4> QED
        BY <4>1, <4>2
    <3>6. ASSUME NEW p \in Ppa, status'[p] = "VALID"
          PROVE  rmap'[p] \in Lpn /\ maptbl'[rmap'[p]] = p
      <4>1. CASE p = new
        BY <2>2, <2>3, <4>1 DEF TypeOK
      <4>2. CASE p # new
        <5>1. status[p] = "VALID" /\ rmap'[p] = rmap[p]
          BY <2>2, <2>3, <3>6, <4>2 DEF TypeOK
        <5>2. rmap[p] \in Lpn /\ maptbl[rmap[p]] = p
          BY <3>3, <5>1 DEF Consistent, MapInverse
        <5>3. rmap[p] # lpn
          <6> SUFFICES ASSUME rmap[p] = lpn
                       PROVE  FALSE
            OBVIOUS
          <6>1. maptbl[lpn] = p /\ mapped_ppa(maptbl[lpn])
            BY <5>2, GeometryAssumption DEF mapped_ppa
          <6>2. status[maptbl[lpn]] = "INVALID"
            BY <2>2, <3>2, <6>1 DEF Consistent, MapInverse
          <6> QED
            BY <5>1, <6>1, <6>2
        <5> QED
          BY <2>2, <2>3, <5>1, <5>2, <5>3 DEF TypeOK
      <4> QED
        BY <4>1, <4>2
    <3> QED
      BY <3>1, <3>5, <3>6 DEF MapInverse, mapped_ppa
  <2>8. CreditRange'
    BY <2>1, <2>2, <2>5, LineSize DEF Consistent, CreditRange
  <2>9. GcErased'
    BY <2>1, <2>2 DEF GcErased
  <2> QED
    BY <2>4, <2>6, <2>7, <2>8, <2>9 DEF IInv, Consistent
<1> QED
  BY <1>1, <1>2

\* Two addresses with the same fields are the same page.
LEMMA SamePage ==
  ASSUME NEW p \in Ppa, NEW q \in Ppa,
         p.blk = q.blk, p.ch = q.ch, p.lun = q.lun, p.wl = q.wl, p.pg = q.pg
  PROVE  p = q
BY DEF Ppa

\* do_gc's loops visit the pages of the victim line one after the other: a step
\* of the inner loop passes exactly the page it was at.
LEMMA GcCursor ==
  ASSUME pc = "clean", gc \in Ppa, gc_next_page
  PROVE  /\ gc' \in Ppa /\ gc'.blk = gc.blk /\ pc' \in {"clean", "erase"}
         /\ pc' = "erase" => gc'.wl = WLS - 1 /\ gc'.pg = ONESHOT - 1
         /\ \A p \in Ppa : p.blk = gc.blk => (passed(p)' <=> passed(p) \/ p = gc)
         /\ \A p \in Ppa : block_erased(p)' => block_erased(p)
<1>0. /\ gc.wl \in 0 .. WLS - 1 /\ gc.ch \in 0 .. NCHS - 1 /\ gc.lun \in 0 .. LUNS - 1
      /\ gc.pg \in 0 .. ONESHOT - 1 /\ gc.blk \in Line
  BY DEF Ppa
<1>1. \A p \in Ppa : /\ p.wl \in 0 .. WLS - 1 /\ p.ch \in 0 .. NCHS - 1
                     /\ p.lun \in 0 .. LUNS - 1 /\ p.pg \in 0 .. ONESHOT - 1
  BY DEF Ppa
<1>2. \A p \in Ppa : p.blk = gc.blk /\ p.ch = gc.ch /\ p.lun = gc.lun
                     /\ p.wl = gc.wl /\ p.pg = gc.pg => p = gc
  BY SamePage
<1>3. CASE gc.pg # ONESHOT - 1
  <2>1. /\ pc' = "clean" /\ gc' \in Ppa /\ gc'.blk = gc.blk /\ gc'.wl = gc.wl
        /\ gc'.ch = gc.ch /\ gc'.lun = gc.lun /\ gc'.pg = gc.pg + 1
    <3>1. pc' = "clean" /\ gc' = page(gc.blk, gc.ch, gc.lun, gc.wl, gc.pg + 1)
      BY <1>3 DEF gc_next_page
    <3>2. gc.pg + 1 \in 0 .. ONESHOT - 1
      BY <1>0, <1>3, GeometryAssumption
    <3> QED
      BY <1>0, <3>1, <3>2, PagePpa
  <2> QED
    BY <1>0, <1>1, <1>2, <2>1, GeometryAssumption DEF passed, block_erased
<1>4. CASE gc.pg = ONESHOT - 1 /\ gc.wl = WLS - 1
  <2>1. pc' = "erase" /\ gc' = gc
    BY <1>4 DEF gc_next_page
  <2> QED
    BY <1>0, <1>1, <1>2, <1>4, <2>1, GeometryAssumption DEF passed, block_erased
<1>5. CASE gc.pg = ONESHOT - 1 /\ gc.wl # WLS - 1
  <2>1. pc' = "clean" /\ gc' = next_flashpg(gc) /\ ~last_flashpg(gc)
    BY <1>5 DEF gc_next_page, last_flashpg
  <2>2. gc' \in Ppa /\ gc'.blk = gc.blk
    BY <2>1, NextFlashpgPpa
  <2>3. /\ gc'.pg = 0
        /\ \/ gc'.wl = gc.wl /\ gc'.ch = gc.ch /\ gc'.lun = gc.lun + 1
           \/ gc'.wl = gc.wl /\ gc.lun = LUNS - 1 /\ gc'.ch = gc.ch + 1 /\ gc'.lun = 0
           \/ /\ gc.lun = LUNS - 1 /\ gc.ch = NCHS - 1
              /\ gc'.wl = gc.wl + 1 /\ gc'.ch = 0 /\ gc'.lun = 0
    BY <2>1 DEF next_flashpg, page
  <2>4. \A p \in Ppa : p.blk = gc.blk => (passed(p)' <=> passed(p) \/ p = gc)
    <3> SUFFICES ASSUME NEW p \in Ppa, p.blk = gc.blk
                 PROVE  passed(p)' <=> passed(p) \/ p = gc
      OBVIOUS
    <3>1. /\ p.wl \in 0 .. WLS - 1 /\ p.ch \in 0 .. NCHS - 1
          /\ p.lun \in 0 .. LUNS - 1 /\ p.pg \in 0 .. ONESHOT - 1
      BY <1>1
    <3>2. p = gc <=> p.ch = gc.ch /\ p.lun = gc.lun /\ p.wl = gc.wl /\ p.pg = gc.pg
      BY <1>2
    <3>3. passed(p) <=>
            \/ p.wl < gc.wl
            \/ p.wl = gc.wl /\ p.ch < gc.ch
            \/ p.wl = gc.wl /\ p.ch = gc.ch /\ p.lun < gc.lun
            \/ p.wl = gc.wl /\ p.ch = gc.ch /\ p.lun = gc.lun /\ p.pg < gc.pg
      BY DEF passed
    <3>4. passed(p)' <=>
            \/ p.wl < gc'.wl
            \/ p.wl = gc'.wl /\ p.ch < gc'.ch
            \/ p.wl = gc'.wl /\ p.ch = gc'.ch /\ p.lun < gc'.lun
      BY <2>1, <2>3, <3>1 DEF passed
    <3>5. CASE gc'.wl = gc.wl /\ gc'.ch = gc.ch /\ gc'.lun = gc.lun + 1
      BY <1>0, <1>5, <3>1, <3>2, <3>3, <3>4, <3>5, GeometryAssumption
    <3>6. CASE gc'.wl = gc.wl /\ gc.lun = LUNS - 1 /\ gc'.ch = gc.ch + 1 /\ gc'.lun = 0
      BY <1>0, <1>5, <3>1, <3>2, <3>3, <3>4, <3>6, GeometryAssumption
    <3>7. CASE /\ gc.lun = LUNS - 1 /\ gc.ch = NCHS - 1
               /\ gc'.wl = gc.wl + 1 /\ gc'.ch = 0 /\ gc'.lun = 0
      BY <1>0, <1>5, <3>1, <3>2, <3>3, <3>4, <3>7, GeometryAssumption
    <3> QED
      BY <2>3, <3>5, <3>6, <3>7
  <2>5. \A p \in Ppa : block_erased(p)' => block_erased(p)
    BY <1>0, <1>1, <1>5, <2>1, <2>3, GeometryAssumption DEF block_erased
  <2> QED
    BY <2>1, <2>2, <2>4, <2>5
<1> QED
  BY <1>3, <1>4, <1>5

\* clean_one_flashpg: a valid page is the current copy of its logical page and
\* moves to the GC line, which is never the victim itself; an invalid page is
\* skipped.  Either way the page counts as passed.
LEMMA CleanPageIInv ==
  ASSUME TypeOK, Consistent, CleanPage
  PROVE  IInv'
<1> DEFINE lpn == rmap[gc]
           new == wp["GC_IO"]
<1>1. /\ pc = "clean" /\ in_gc /\ gc \in Ppa /\ "GC_IO" \in IoType /\ new \in Ppa
      /\ status[gc] \in {"FREE", "VALID", "INVALID"}
  BY DEF CleanPage, in_gc, TypeOK, IoType
<1>2. ~passed(gc) /\ ~superseded(gc)
  BY <1>1 DEF passed, superseded, Ppa
<1>3. \A l \in Lpn : mapped_ppa(maptbl[l]) => maptbl[l] \in Ppa
  BY DEF TypeOK, mapped_ppa
<1>4. \A l \in Lpn : ~being_replaced(l)
  BY <1>1 DEF being_replaced
<1>5. CASE status[gc] = "INVALID"
  <2>1. /\ gc_next_page
        /\ UNCHANGED <<req, maptbl, rmap, status, vpc, ipc, free_line_list,
                        full_line_list, victim_line_pq, wp, write_credits, credits_to_refill>>
    BY <1>5 DEF CleanPage, lines, credits
  <2>2. /\ gc' \in Ppa /\ gc'.blk = gc.blk /\ pc' \in {"clean", "erase"} /\ in_gc'
        /\ pc' = "erase" => gc'.wl = WLS - 1 /\ gc'.pg = ONESHOT - 1
        /\ \A p \in Ppa : superseded(p)' <=> superseded(p) \/ p = gc
        /\ \A p \in Ppa : block_erased(p)' => block_erased(p)
    BY <1>1, <2>1, GcCursor DEF in_gc, superseded
  <2>3. TypeOK'
    BY <2>1, <2>2 DEF TypeOK
  <2>4. MapInverse'
    <3>1. ASSUME NEW l \in Lpn, mapped_ppa(maptbl[l])
          PROVE  /\ status[maptbl[l]] = "VALID" /\ rmap[maptbl[l]] = l
                 /\ ~superseded(maptbl[l])'
      <4>1. /\ status[maptbl[l]] = "VALID" /\ rmap[maptbl[l]] = l
            /\ ~superseded(maptbl[l]) /\ maptbl[l] \in Ppa
        BY <1>3, <1>4, <3>1 DEF Consistent, MapInverse
      <4>2. maptbl[l] # gc /\ maptbl'[l] = maptbl[l]
        BY <1>5, <2>1, <4>1
      <4> QED
        BY <2>2, <4>1, <4>2 DEF superseded, passed
    <3>2. ASSUME NEW p \in Ppa, status[p] = "VALID", ~superseded(p)'
          PROVE  rmap[p] \in Lpn /\ maptbl[rmap[p]] = p
      BY <2>2, <3>2 DEF Consistent, MapInverse
    <3>3. \A l \in Lpn : ~being_replaced(l)'
      BY <2>2 DEF being_replaced
    <3> QED
      BY <2>1, <3>1, <3>2, <3>3 DEF MapInverse, mapped_ppa
  <2>5. LinePartition'
    BY <1>1, <2>1, <2>2 DEF Consistent, LinePartition, on_free, open, collected
  <2>6. LineOccupancy'
    BY <2>1 DEF Consistent, LineOccupancy, on_free, rank
  <2>7. CreditRange'
    BY <1>1, <2>1, <2>2 DEF Consistent, CreditRange
  <2>8. GcErased'
    BY <1>1, <2>1, <2>2 DEF Consistent, GcErased
  <2> QED
    BY <2>3, <2>4, <2>5, <2>6, <2>7, <2>8 DEF IInv, Consistent
<1>6. CASE status[gc] = "VALID" /\ lpn \in Lpn /\ program_asserts("GC_IO")
  <2>1. /\ program_page(lpn, "GC_IO") /\ gc_next_page
        /\ UNCHANGED <<req, write_credits, credits_to_refill>>
    BY <1>6 DEF CleanPage, credits
  <2>2. /\ gc' \in Ppa /\ gc'.blk = gc.blk /\ pc' \in {"clean", "erase"} /\ in_gc'
        /\ pc' = "erase" => gc'.wl = WLS - 1 /\ gc'.pg = ONESHOT - 1
        /\ \A p \in Ppa : superseded(p)' <=> superseded(p) \/ p = gc
        /\ \A p \in Ppa : block_erased(p)' => block_erased(p)
    BY <1>1, <2>1, GcCursor DEF in_gc, superseded
  <2>3. /\ maptbl' = [maptbl EXCEPT ![lpn] = new]
        /\ rmap' = [rmap EXCEPT ![new] = lpn]
        /\ status' = [status EXCEPT ![new] = "VALID"]
        /\ ipc' = ipc
        /\ status[new] = "FREE"
    BY <1>6, <2>1 DEF program_page, program_asserts
  <2>4. /\ LinePartition' /\ LineOccupancy'
        /\ free_line_list' \in Seq(Line)
        /\ full_line_list' \subseteq Line
        /\ victim_line_pq' \subseteq Line
        /\ wp' \in [IoType -> Ppa]
        /\ vpc' \in [Line -> Int]
    BY <1>1, <1>6, <2>1, <2>2, ProgramLines DEF Consistent
  <2>5. TypeOK'
    BY <1>1, <1>6, <2>1, <2>2, <2>3, <2>4 DEF TypeOK
  <2>6. new.blk # gc.blk /\ new # gc
    <3>1. open(new.blk) /\ collected(gc.blk) /\ new.blk \in Line
      BY <1>1 DEF open, collected, Ppa
    <3> QED
      BY <3>1 DEF Consistent, LinePartition
  <2>7. maptbl[lpn] = gc
    BY <1>1, <1>2, <1>6 DEF Consistent, MapInverse
  <2>8. MapInverse'
    <3>1. ASSUME NEW l \in Lpn, mapped_ppa(maptbl'[l])
          PROVE  /\ status'[maptbl'[l]] = "VALID" /\ rmap'[maptbl'[l]] = l
                 /\ ~superseded(maptbl[l])'
      <4>1. CASE l = lpn
        <5>1. maptbl'[l] = new
          BY <1>6, <2>3, <4>1 DEF TypeOK
        <5>2. ~superseded(maptbl[l])'
          BY <2>2, <2>6, <5>1 DEF superseded
        <5> QED
          BY <1>1, <2>3, <4>1, <5>1, <5>2 DEF TypeOK
      <4>2. CASE l # lpn
        <5>1. maptbl'[l] = maptbl[l] /\ maptbl[l] \in Ppa
          BY <1>3, <1>6, <2>3, <3>1, <4>2 DEF TypeOK
        <5>2. /\ status[maptbl[l]] = "VALID" /\ rmap[maptbl[l]] = l
              /\ ~superseded(maptbl[l])
          BY <1>4, <3>1, <5>1 DEF Consistent, MapInverse
        <5>3. maptbl[l] # gc /\ maptbl[l] # new
          BY <2>3, <4>2, <5>2
        <5>4. ~superseded(maptbl[l])'
          BY <2>2, <5>1, <5>2, <5>3 DEF superseded, passed
        <5> QED
          BY <1>1, <2>3, <5>1, <5>2, <5>3, <5>4 DEF TypeOK
      <4> QED
        BY <4>1, <4>2
    <3>2. ASSUME NEW p \in Ppa, status'[p] = "VALID", ~superseded(p)'
          PROVE  rmap'[p] \in Lpn /\ maptbl'[rmap'[p]] = p
      <4>1. CASE p = new
        BY <1>1, <1>6, <2>3, <4>1 DEF TypeOK
      <4>2. CASE p # new
        <5>1. status[p] = "VALID" /\ rmap'[p] = rmap[p] /\ ~superseded(p) /\ p # gc
          BY <1>1, <2>2, <2>3, <3>2, <4>2 DEF TypeOK
        <5>2. rmap[p] \in Lpn /\ maptbl[rmap[p]] = p
          BY <5>1 DEF Consistent, MapInverse
        <5>3. rmap[p] # lpn
          BY <2>7, <5>1, <5>2
        <5> QED
          BY <1>6, <2>3, <5>1, <5>2, <5>3 DEF TypeOK
      <4> QED
        BY <4>1, <4>2
    <3>3. \A l \in Lpn : ~being_replaced(l)'
      BY <2>2 DEF being_replaced
    <3> QED
      BY <3>1, <3>2, <3>3 DEF MapInverse, mapped_ppa
  <2>9. CreditRange'
    BY <1>1, <2>1, <2>2 DEF Consistent, CreditRange
  <2>10. GcErased'
    <3>1. \A p \in Ppa : p.blk = gc.blk => status'[p] = status[p]
      BY <1>1, <2>3, <2>6 DEF TypeOK
    <3> QED
      BY <1>1, <2>2, <3>1 DEF Consistent, GcErased
  <2> QED
    BY <2>4, <2>5, <2>8, <2>9, <2>10 DEF IInv, Consistent
<1>7. CASE \/ status[gc] = "FREE"
           \/ status[gc] = "VALID" /\ ~(lpn \in Lpn /\ program_asserts("GC_IO"))
  BY <1>7, PanicIInv DEF CleanPage
<1> QED
  BY <1>1, <1>5, <1>6, <1>7

-----------------------------------------------------------------------------
(* The theorems.                                                           *)

\* A panic is final.
LEMMA PanicFinal ==
  ASSUME pc = "panic", Next
  PROVE  FALSE
BY DEF Next, Gc, WriteBegin, InvalidateOld, ProgramUser, CreditLeft, RefillNoGc,
       SelectVictim, CleanPage, EraseBlock, FreeLine

\* IInv is inductive.
LEMMA InductiveStep ==
  ASSUME IInv, [Next]_vars
  PROVE  IInv'
<1>1. CASE UNCHANGED vars
  BY <1>1 DEF vars, lines, credits, IInv, TypeOK, NoPanic, Consistent, MapInverse,
              LinePartition, LineOccupancy, CreditRange, GcErased, in_gc, on_free, open,
              collected, superseded, passed, being_replaced, block_erased, mapped_ppa, rank
<1>2. CASE Next
  <2>1. TypeOK /\ Consistent
    BY <1>2, PanicFinal DEF IInv, NoPanic
  <2> QED
    BY <1>2, <2>1, WriteBeginIInv, InvalidateOldIInv, ProgramUserIInv, CreditLeftIInv,
       RefillNoGcIInv, SelectVictimIInv, CleanPageIInv, EraseBlockIInv, FreeLineIInv
    DEF Next, Gc
<1> QED
  BY <1>1, <1>2

\* The inductive invariant holds in every state of every behaviour.
THEOREM Invariance == Spec => []IInv
<1>1. Init => IInv
  BY InitIInv
<1>2. IInv /\ [Next]_vars => IInv'
  BY InductiveStep
<1> QED
  BY <1>1, <1>2, PTL DEF Spec

\* conv_ftl.c keeps the types of its state.
THEOREM TypeCorrect == Spec => []TypeOK
<1>1. IInv => TypeOK
  BY DEF IInv
<1> QED
  BY <1>1, Invariance, PTL

\* As long as no assertion has failed, maptbl and rmap are inverse to each other:
\* neither an overwrite nor a collection loses a logical page or maps two to one
\* flash page, for any geometry and any order of writes.
THEOREM MappingCorrect == Spec => [](NoPanic => MapInverse)
<1>1. IInv => (NoPanic => MapInverse)
  BY DEF IInv, Consistent
<1> QED
  BY <1>1, Invariance, PTL

\* As long as no assertion has failed, every line is in exactly one place.
THEOREM LinesCorrect == Spec => [](NoPanic => LinePartition)
<1>1. IInv => (NoPanic => LinePartition)
  BY DEF IInv, Consistent
<1> QED
  BY <1>1, Invariance, PTL

\* The unsigned credit counter of the write throttle never wraps.
THEOREM CreditsCorrect == Spec => []CreditInHand
<1>1. IInv => CreditInHand
  BY LineSize DEF IInv, Consistent, CreditRange, CreditInHand, NoPanic
<1> QED
  BY <1>1, Invariance, PTL

-----------------------------------------------------------------------------
(* Counting the pages of a line.                                           *)

\* Two numbers with the same digits in a mixed radix are equal, and conversely.
LEMMA DigitUnique ==
  ASSUME NEW B \in Nat \ {0}, NEW a \in Nat, NEW c \in Nat,
         NEW b \in 0 .. B - 1, NEW d \in 0 .. B - 1,
         a * B + b = c * B + d
  PROVE  a = c /\ b = d
<1>1. /\ (a * B + b) \div B = a /\ (a * B + b) % B = b
      /\ (c * B + d) \div B = c /\ (c * B + d) % B = d
  BY QuotientIs
<1> QED
  BY <1>1

\* Write order passes over no page of a line twice ...
LEMMA RankInjective ==
  ASSUME NEW p \in Ppa, NEW q \in Ppa, p.blk = q.blk, rank(p) = rank(q)
  PROVE  p = q
<1>1. /\ p.wl \in Nat /\ p.lun \in 0 .. LUNS - 1 /\ p.ch \in 0 .. NCHS - 1
      /\ p.pg \in 0 .. ONESHOT - 1
      /\ q.wl \in Nat /\ q.lun \in 0 .. LUNS - 1 /\ q.ch \in 0 .. NCHS - 1
      /\ q.pg \in 0 .. ONESHOT - 1
      /\ NCHS \in Nat \ {0} /\ LUNS \in Nat \ {0} /\ ONESHOT \in Nat \ {0}
  BY GeometryAssumption DEF Ppa
<1>2. PICK x \in Nat : x = p.wl * LUNS + p.lun
  BY <1>1
<1>3. PICK z \in Nat : z = q.wl * LUNS + q.lun
  BY <1>1
<1>4. PICK y \in Nat : y = x * NCHS + p.ch
  BY <1>1
<1>5. PICK w \in Nat : w = z * NCHS + q.ch
  BY <1>1
<1>6. y * ONESHOT + p.pg = w * ONESHOT + q.pg
  BY <1>2, <1>3, <1>4, <1>5 DEF rank
<1>7. y = w /\ p.pg = q.pg
  BY <1>1, <1>6, DigitUnique
<1>8. x = z /\ p.ch = q.ch
  BY <1>1, <1>4, <1>5, <1>7, DigitUnique
<1>9. p.wl = q.wl /\ p.lun = q.lun
  <2>1. PICK a \in Nat : a = p.wl
    BY <1>1
  <2>2. PICK c \in Nat : c = q.wl
    BY <1>1
  <2>3. a * LUNS + p.lun = c * LUNS + q.lun
    BY <1>2, <1>3, <1>8, <2>1, <2>2
  <2>4. a = c /\ p.lun = q.lun
    BY <1>1, <2>3, DigitUnique
  <2> QED
    BY <2>1, <2>2, <2>4
<1> QED
  BY <1>7, <1>8, <1>9, SamePage

\* ... and leaves out none.
LEMMA RankOnto ==
  ASSUME NEW l \in Line, NEW r \in 0 .. pgs_per_line - 1
  PROVE  \E p \in Ppa : p.blk = l /\ rank(p) = r
<1> DEFINE n == pgs_per_line - 1
           G == {i \in 0 .. n : \E p \in Ppa : p.blk = l /\ rank(p) = i}
<1>1. n \in Nat
  BY LineSize
<1>2. 0 \in G
  BY <1>1, LineStartPpa, RankStep
<1>3. ASSUME NEW i \in 0 .. n - 1, i \in G
      PROVE  i + 1 \in G
  <2>1. PICK p \in Ppa : p.blk = l /\ rank(p) = i
    BY <1>3
  <2>2. ~last_pg_in_line(p)
    BY <1>1, <2>1, RankStep
  <2>3. /\ next_pg_in_line(p) \in Ppa /\ next_pg_in_line(p).blk = l
        /\ rank(next_pg_in_line(p)) = i + 1
    BY <2>1, <2>2, NextPgPpa, RankStep
  <2> QED
    BY <1>1, <1>3, <2>3
<1>4. G = 0 .. n
  <2> HIDE DEF n
  <2>1. G \in SUBSET (0 .. n) /\ \A i \in 0 .. n - 1 : i \in G => i + 1 \in G
    BY <1>3
  <2> HIDE DEF G
  <2> QED
    BY <1>1, <1>2, <2>1, BoundedInduction
<1> QED
  BY <1>4

\* A line has finitely many pages.
LEMMA LinePages ==
  ASSUME NEW l \in Line
  PROVE  IsFiniteSet(pages_of(l))
<1> DEFINE S == pages_of(l)
           T == 0 .. pgs_per_line - 1
           f == [p \in S |-> rank(p)]
<1>1. \A p \in S : p \in Ppa /\ p.blk = l
  BY DEF pages_of
<1>2. f \in [S -> T]
  BY <1>1, RankBound
<1>3. \A p, q \in S : f[p] = f[q] => p = q
  BY <1>1, RankInjective
<1>4. f \in Injection(S, T)
  <2> HIDE DEF f, S, T
  <2> QED
    BY <1>2, <1>3 DEF Injection, IsInjective
<1>5. IsFiniteSet(T)
  BY LineSize, FS_Interval
<1> HIDE DEF f, S, T
<1>6. IsFiniteSet(S)
  BY <1>4, <1>5, FS_Injection
<1> QED
  BY <1>6 DEF S

\* the pages of line l with status k, and their number
marked(st, l, k) == {p \in pages_of(l) : st[p] = k}
counted(st, l, k) == Cardinality(marked(st, l, k))

Mark == {"FREE", "VALID", "INVALID"}

\* Changing the status of one page moves it from one count of its line to another.
LEMMA Recount ==
  ASSUME NEW st \in [Ppa -> Mark], NEW p \in Ppa, NEW s \in Mark, st[p] # s,
         NEW l \in Line, NEW k \in Mark
  PROVE  /\ counted(st, l, k) \in Nat
         /\ l = p.blk /\ k = s =>
              counted([st EXCEPT ![p] = s], l, k) = counted(st, l, k) + 1
         /\ l = p.blk /\ k = st[p] =>
              counted([st EXCEPT ![p] = s], l, k) = counted(st, l, k) - 1
         /\ l # p.blk \/ (k # s /\ k # st[p]) =>
              counted([st EXCEPT ![p] = s], l, k) = counted(st, l, k)
<1> DEFINE A == marked(st, l, k)
           B == marked([st EXCEPT ![p] = s], l, k)
<1>1. IsFiniteSet(A) /\ IsFiniteSet(B) /\ Cardinality(A) \in Nat
  <2>1. A \subseteq pages_of(l) /\ B \subseteq pages_of(l)
    BY DEF marked
  <2> HIDE DEF A, B
  <2> QED
    BY <2>1, LinePages, FS_Subset, FS_CardinalityType
<1>2. ASSUME l = p.blk, k = s
      PROVE  Cardinality(B) = Cardinality(A) + 1
  <2>1. B = A \union {p} /\ p \notin A
    BY <1>2 DEF marked, pages_of
  <2> HIDE DEF A, B
  <2> QED
    BY <1>1, <2>1, FS_AddElement
<1>3. ASSUME l = p.blk, k = st[p]
      PROVE  Cardinality(B) = Cardinality(A) - 1
  <2>1. B = A \ {p} /\ p \in A
    BY <1>3 DEF marked, pages_of
  <2> HIDE DEF A, B
  <2> QED
    BY <1>1, <2>1, FS_RemoveElement
<1>4. ASSUME l # p.blk \/ (k # s /\ k # st[p])
      PROVE  B = A
  BY <1>4 DEF marked, pages_of
<1> QED
  BY <1>1, <1>2, <1>3, <1>4 DEF counted

-----------------------------------------------------------------------------
(* Every step keeps the counts exact and the pages of a line in write      *)
(* order.                                                                  *)

\* LineCounts in terms of counted.
LEMMA CountsAre ==
  LineCounts <=>
    \A l \in Line : ~(in_gc /\ l = gc.blk) =>
      vpc[l] = counted(status, l, "VALID") /\ ipc[l] = counted(status, l, "INVALID")
BY DEF LineCounts, counted, marked

\* A line none of whose pages is marked so.
LEMMA CountNone ==
  ASSUME NEW st, NEW l \in Line, NEW k, \A p \in pages_of(l) : st[p] # k
  PROVE  counted(st, l, k) = 0
<1>1. marked(st, l, k) = {}
  BY DEF marked
<1> QED
  BY <1>1, FS_EmptySet DEF counted

\* conv_init_ftl: every line is blank.
LEMMA InitPages ==
  ASSUME Init
  PROVE  LineCounts /\ PageStates
<1>1. ~in_gc
  BY DEF Init, in_gc
<1>2. \A p \in Ppa : status[p] = "FREE"
  BY DEF Init
<1>3. LineCounts
  <2>1. ASSUME NEW l \in Line
        PROVE  counted(status, l, "VALID") = 0 /\ counted(status, l, "INVALID") = 0
    <3>1. \A p \in pages_of(l) : status[p] # "VALID" /\ status[p] # "INVALID"
      BY <1>2 DEF pages_of
    <3> QED
      BY <3>1, CountNone
  <2> QED
    BY <2>1, CountsAre DEF Init
<1>4. PageStates
  <2>1. IInv
    BY InitIInv
  <2>2. full_line_list = {} /\ victim_line_pq = {}
    BY DEF Init
  <2>3. \A t \in IoType : rank(wp[t]) = 0
    <3>1. tt_lines \in Nat /\ tt_lines >= 2
      BY GeometryAssumption, FS_CardinalityType DEF tt_lines
    <3>2. PICK o \in line_orders :
             wp = [t \in IoType |-> line_start(IF t = "USER_IO" THEN o[1] ELSE o[2])]
      BY DEF Init
    <3>3. o[1] \in Line /\ o[2] \in Line
      BY <3>1 DEF line_orders
    <3> QED
      BY <3>2, <3>3, RankStep DEF IoType
  <2>4. \A p \in Ppa : rank(p) >= 0
    BY RankBound
  <2> QED
    BY <1>1, <1>2, <2>2, <2>3, <2>4 DEF PageStates
<1> QED
  BY <1>3, <1>4

\* The steps that leave the pages and the lines alone.
LEMMA QuietPages ==
  ASSUME LineCounts, PageStates, ~in_gc, ~in_gc',
         UNCHANGED <<status, vpc, ipc, free_line_list, full_line_list, victim_line_pq, wp>>
  PROVE  LineCounts' /\ PageStates'
<1>1. LineCounts'
  BY DEF LineCounts
<1>2. PageStates'
  BY DEF PageStates, on_free, rank
<1> QED
  BY <1>1, <1>2

\* mark_page_invalid: the page leaves the one count of its line and joins the
\* other, and a full line that becomes a victim stays closed.
LEMMA InvalidatePages ==
  ASSUME TypeOK, Consistent, LineCounts, PageStates, InvalidateOld, NoPanic'
  PROVE  LineCounts' /\ PageStates'
<1> DEFINE old == maptbl[req.lpn]
           b == old.blk
<1>0. ~in_gc /\ req.lpn \in Lpn
  BY DEF InvalidateOld, in_gc, TypeOK
<1>1. CASE ~mapped_ppa(old)
  <2>1. /\ pc' = "program"
        /\ UNCHANGED <<status, vpc, ipc, free_line_list, full_line_list, victim_line_pq, wp>>
    BY <1>1 DEF InvalidateOld, lines
  <2> QED
    BY <1>0, <2>1, QuietPages DEF in_gc
<1>2. CASE mapped_ppa(old) /\ invalidate_asserts(old)
  <2>1. old \in Ppa /\ b \in Line
    BY <1>0, <1>2 DEF TypeOK, mapped_ppa, Ppa
  <2>2. mark_page_invalid(old) /\ pc' = "program" /\ UNCHANGED wp
    BY <1>2 DEF InvalidateOld, credits
  <2>3. ~in_gc'
    BY <2>2 DEF in_gc
  <2>4. /\ status' = [status EXCEPT ![old] = "INVALID"] /\ status[old] = "VALID"
        /\ ipc' = [ipc EXCEPT ![b] = ipc[b] + 1] /\ vpc' = [vpc EXCEPT ![b] = vpc[b] - 1]
        /\ free_line_list' = free_line_list
        /\ vpc \in [Line -> Int] /\ ipc \in [Line -> Int]
        /\ status \in [Ppa -> Mark]
    BY <1>2, <2>2 DEF mark_page_invalid, invalidate_asserts, TypeOK, Mark
  <2>5. vpc[b] = pgs_per_line => b \in full_line_list
    BY <1>0, <2>1, Occupied DEF Consistent, collected
  <2>6. full_line_list' \union victim_line_pq' = full_line_list \union victim_line_pq
    BY <2>2, <2>5 DEF mark_page_invalid
  <2> HIDE DEF b, old
  <2>7. LineCounts'
    <3>1. ASSUME NEW l \in Line
          PROVE  /\ vpc'[l] = counted(status', l, "VALID")
                 /\ ipc'[l] = counted(status', l, "INVALID")
      <4>1. vpc[l] = counted(status, l, "VALID") /\ ipc[l] = counted(status, l, "INVALID")
        BY <1>0, CountsAre
      <4>2. "VALID" \in Mark /\ "INVALID" \in Mark /\ "VALID" # "INVALID"
        BY DEF Mark
      <4>3. CASE l = b
        <5>1. counted(status', l, "VALID") = counted(status, l, "VALID") - 1
          BY <2>1, <2>4, <4>2, <4>3, Recount, ZenonT(60) DEF b
        <5>2. counted(status', l, "INVALID") = counted(status, l, "INVALID") + 1
          BY <2>1, <2>4, <4>2, <4>3, Recount, ZenonT(60) DEF b
        <5> QED
          BY <2>1, <2>4, <4>1, <4>3, <5>1, <5>2
      <4>4. CASE l # b
        <5>1. /\ counted(status', l, "VALID") = counted(status, l, "VALID")
              /\ counted(status', l, "INVALID") = counted(status, l, "INVALID")
          BY <2>1, <2>4, <4>2, <4>4, Recount DEF b
        <5> QED
          BY <2>1, <2>4, <4>1, <4>4, <5>1
      <4> QED
        BY <4>3, <4>4
    <3> QED
      BY <3>1, CountsAre DEF LineCounts, counted, marked
  <2>8. PageStates'
    <3>1. \A p \in Ppa : status'[p] = "FREE" <=> status[p] = "FREE"
      BY <2>1, <2>4
    <3>2. \A l \in Line : on_free(l)' <=> on_free(l)
      BY <2>4 DEF on_free
    <3>3. \A p \in Ppa : p.blk \in Line
      BY DEF Ppa
    <3> QED
      BY <2>2, <2>3, <2>6, <3>1, <3>2, <3>3 DEF PageStates, rank
  <2> QED
    BY <2>7, <2>8
<1> QED
  BY <1>1, <1>2 DEF InvalidateOld, Panic, NoPanic

\* Programming a page, for either write pointer: the page at the pointer joins
\* the valid ones of the open line, and the pointer moves to the next blank page.
LEMMA ProgramPages ==
  ASSUME TypeOK, LinePartition, LineCounts, PageStates,
         NEW lpn \in Lpn, NEW t \in IoType,
         program_asserts(t), program_page(lpn, t),
         in_gc' <=> in_gc, in_gc => gc'.blk = gc.blk,
         in_gc => \A p \in Ppa : p.blk = gc.blk /\ passed(p) => passed(p)'
  PROVE  LineCounts' /\ PageStates'
<1> DEFINE new == wp[t]
           b == new.blk
           u == IF t = "USER_IO" THEN "GC_IO" ELSE "USER_IO"
<1>1. /\ new \in Ppa /\ b \in Line
      /\ u \in IoType /\ u # t /\ IoType = {t, u}
      /\ wp[u] \in Ppa /\ wp[u].blk \in Line /\ wp[u].blk # b
  BY DEF TypeOK, Ppa, IoType, LinePartition
<1>2. /\ vpc' = [vpc EXCEPT ![b] = vpc[b] + 1] /\ ipc' = ipc
      /\ status' = [status EXCEPT ![new] = "VALID"] /\ status[new] = "FREE"
      /\ status \in [Ppa -> Mark] /\ vpc \in [Line -> Int] /\ ipc \in [Line -> Int]
      /\ advance_write_pointer(t, vpc[b] + 1)
  BY <1>1 DEF program_page, program_asserts, TypeOK, Mark
<1>3. /\ open(b) /\ open(wp[u].blk)
      /\ ~on_free(b) /\ b \notin full_line_list /\ b \notin victim_line_pq
      /\ in_gc => gc.blk # b
  BY <1>1 DEF LinePartition, open, collected
<1>4. LineCounts'
  <2>0. /\ new \in Ppa /\ b \in Line /\ new.blk = b
        /\ status \in [Ppa -> Mark] /\ status[new] # "VALID" /\ status[new] # "INVALID"
        /\ status' = [status EXCEPT ![new] = "VALID"]
    BY <1>1, <1>2
  <2>1. ASSUME NEW l \in Line, ~(in_gc /\ l = gc.blk)
        PROVE  /\ vpc'[l] = counted(status', l, "VALID")
               /\ ipc'[l] = counted(status', l, "INVALID")
    <3> HIDE DEF b, new
    <3>1. vpc[l] = counted(status, l, "VALID") /\ ipc[l] = counted(status, l, "INVALID")
      BY <2>1, CountsAre
    <3>2. "VALID" \in Mark /\ "INVALID" \in Mark /\ "INVALID" # "VALID"
      BY DEF Mark
    <3>3. counted(status', l, "INVALID") = counted(status, l, "INVALID")
      <4>1. "INVALID" # status[new]
        BY <2>0
      <4>2. counted([status EXCEPT ![new] = "VALID"], l, "INVALID") = counted(status, l, "INVALID")
        BY <2>0, <3>2, <4>1, Recount, ZenonT(60)
      <4> QED
        BY <2>0, <4>2
    <3>4. CASE l = b
      <4>0. l = new.blk
        BY <2>0, <3>4
      <4>1. counted([status EXCEPT ![new] = "VALID"], l, "VALID") = counted(status, l, "VALID") + 1
        BY <2>0, <3>2, <4>0, Recount, ZenonT(60)
      <4> QED
        BY <1>1, <1>2, <2>0, <3>1, <3>3, <3>4, <4>1
    <3>5. CASE l # b
      <4>1. counted(status', l, "VALID") = counted(status, l, "VALID")
        BY <2>0, <3>2, <3>5, Recount
      <4> QED
        BY <1>1, <1>2, <3>1, <3>3, <3>5, <4>1
    <3> QED
      BY <3>4, <3>5
  <2> QED
    BY <2>1 DEF LineCounts, counted, marked
<1>5. \A p \in Ppa : /\ p.blk \in Line
                     /\ p # new => status'[p] = status[p]
                     /\ p.blk # b => status'[p] = status[p]
                     /\ p = new => status'[p] # "FREE"
  BY <1>1, <1>2 DEF Ppa
<1>6. \A p \in Ppa : rank(p) \in 0 .. pgs_per_line - 1
  BY RankBound
<1>7. \A p \in Ppa : p.blk = b /\ p # new => rank(p) # rank(new)
  BY <1>1, RankInjective
<1>8. \A p \in Ppa : p.blk = b => (status[p] = "FREE" <=> rank(p) >= rank(new))
  BY <1>1 DEF PageStates
<1>9. \A p \in Ppa : p.blk = wp[u].blk => (status[p] = "FREE" <=> rank(p) >= rank(wp[u]))
  BY <1>1 DEF PageStates
<1>10. \A p \in Ppa : in_gc' /\ p.blk = gc'.blk /\ ~passed(p)' => status'[p] # "FREE"
  BY <1>3, <1>5 DEF PageStates
<1>11. CASE ~last_pg_in_line(new)
  <2>1. /\ wp' = [wp EXCEPT ![t] = next_pg_in_line(new)]
        /\ UNCHANGED <<free_line_list, full_line_list, victim_line_pq>>
    BY <1>2, <1>11 DEF advance_write_pointer, lines
  <2>2. /\ next_pg_in_line(new).blk = b
        /\ rank(next_pg_in_line(new)) = rank(new) + 1
    BY <1>1, <1>11, NextPgPpa, RankStep
  <2>3. wp'[t] = next_pg_in_line(new) /\ wp'[u] = wp[u]
    BY <1>1, <2>1 DEF TypeOK
  <2>4. \A l \in Line : on_free(l)' <=> on_free(l)
    BY <2>1 DEF on_free
  <2>5. \A p \in Ppa : p.blk = b => (status'[p] = "FREE" <=> rank(p) >= rank(wp'[t]))
    BY <1>1, <1>5, <1>6, <1>7, <1>8, <2>2, <2>3
  <2>6. \A p \in Ppa : p.blk = wp[u].blk => (status'[p] = "FREE" <=> rank(p) >= rank(wp'[u]))
    BY <1>1, <1>5, <1>9, <2>3
  <2>7. ASSUME NEW p \in Ppa
        PROVE  /\ on_free(p.blk)' => status'[p] = "FREE"
               /\ p.blk \in full_line_list' \union victim_line_pq' => status'[p] # "FREE"
    BY <1>3, <1>5, <2>1, <2>4 DEF PageStates
  <2>8. ASSUME NEW p \in Ppa, NEW s \in IoType, p.blk = wp'[s].blk
        PROVE  status'[p] = "FREE" <=> rank(p) >= rank(wp'[s])
    BY <1>1, <2>2, <2>3, <2>5, <2>6, <2>8
  <2>9. PageStates'
    BY <1>10, <2>7, <2>8 DEF PageStates, rank
  <2> QED
    BY <1>4, <2>9
<1>12. CASE last_pg_in_line(new)
  <2> DEFINE h == Head(free_line_list)
             n == Len(free_line_list)
  <2>1. /\ wp' = [wp EXCEPT ![t] = line_start(h)]
        /\ free_line_list' = Tail(free_line_list)
        /\ close_line(b, vpc[b] + 1)
        /\ free_line_list # <<>>
    BY <1>2, <1>12 DEF advance_write_pointer, program_asserts
  <2>2. /\ n \in Nat /\ n >= 1 /\ h = free_line_list[1] /\ h \in Line
        /\ Len(free_line_list') = n - 1
        /\ \A i \in 1 .. n - 1 : free_line_list'[i] = free_line_list[i + 1]
    BY <2>1 DEF TypeOK
  <2>3. line_start(h).blk = h /\ rank(line_start(h)) = 0
    BY <2>2, LineStartPpa, RankStep
  <2>4. wp'[t] = line_start(h) /\ wp'[u] = wp[u]
    BY <1>1, <2>1 DEF TypeOK
  <2>5. on_free(h)
    BY <2>2 DEF on_free
  <2>6. h # b /\ h # wp[u].blk
    BY <1>3, <2>2, <2>5, <1>1 DEF LinePartition
  <2>7. \A l \in Line : on_free(l)' => on_free(l)
    <3> TAKE l \in Line
    <3> HAVE on_free(l)'
    <3>1. PICK i \in 1 .. n - 1 : free_line_list[i + 1] = l
      BY <2>2 DEF on_free
    <3>2. i + 1 \in 1 .. n
      BY <2>2
    <3> QED
      BY <3>1, <3>2 DEF on_free
  <2>8. full_line_list' \union victim_line_pq' = full_line_list \union victim_line_pq \union {b}
    BY <2>1 DEF close_line
  <2>9. rank(new) = pgs_per_line - 1
    BY <1>1, <1>12, RankStep
  <2>10. \A p \in Ppa : p.blk = b => status'[p] # "FREE"
    BY <1>1, <1>5, <1>6, <1>7, <1>8, <2>9, LineSize
  <2>11. \A p \in Ppa : p.blk = h => status'[p] = "FREE" /\ rank(p) >= 0
    BY <1>5, <1>6, <2>5, <2>6 DEF PageStates
  <2>12. \A p \in Ppa : p.blk = wp[u].blk => (status'[p] = "FREE" <=> rank(p) >= rank(wp'[u]))
    BY <1>1, <1>5, <1>9, <2>4
  <2> HIDE DEF h, n, b, new
  <2>13. ASSUME NEW p \in Ppa
        PROVE  /\ on_free(p.blk)' => status'[p] = "FREE"
               /\ p.blk \in full_line_list' \union victim_line_pq' => status'[p] # "FREE"
    BY <1>3, <1>5, <2>7, <2>8, <2>10 DEF PageStates
  <2>14. ASSUME NEW p \in Ppa, NEW s \in IoType, p.blk = wp'[s].blk
        PROVE  status'[p] = "FREE" <=> rank(p) >= rank(wp'[s])
    BY <1>1, <2>3, <2>4, <2>11, <2>12, <2>14
  <2>15. PageStates'
    BY <1>10, <2>13, <2>14 DEF PageStates, rank
  <2> QED
    BY <1>4, <2>15
<1> QED
  BY <1>11, <1>12

\* conv_write programs the new copy of its page.
LEMMA ProgramUserPages ==
  ASSUME TypeOK, Consistent, LineCounts, PageStates, ProgramUser, NoPanic'
  PROVE  LineCounts' /\ PageStates'
<1>1. /\ program_asserts("USER_IO") /\ program_page(req.lpn, "USER_IO")
      /\ pc = "program" /\ pc' = "credit"
  BY DEF ProgramUser, Panic, NoPanic
<1>2. ~in_gc /\ ~in_gc' /\ req.lpn \in Lpn /\ "USER_IO" \in IoType
  BY <1>1 DEF in_gc, TypeOK, IoType
<1> QED
  BY <1>1, <1>2, ProgramPages DEF Consistent

\* select_victim_line: the victim was closed, so it has no blank page.
LEMMA SelectPages ==
  ASSUME TypeOK, Consistent, LineCounts, PageStates, SelectVictim
  PROVE  LineCounts' /\ PageStates'
<1>1. PICK v \in Line :
        /\ v \in victim_line_pq
        /\ victim_line_pq' = victim_line_pq \ {v}
        /\ gc' = line_start(v)
  BY DEF SelectVictim, is_min_victim
<1>2. /\ pc = "credit" /\ pc' = "clean"
      /\ UNCHANGED <<status, vpc, ipc, free_line_list, full_line_list, wp>>
  BY DEF SelectVictim
<1>3. ~in_gc /\ in_gc' /\ gc'.blk = v
  BY <1>1, <1>2, LineStartPpa DEF in_gc
<1>4. LineCounts'
  BY <1>2, <1>3 DEF LineCounts
<1>5. PageStates'
  BY <1>1, <1>2, <1>3 DEF PageStates, on_free, rank
<1> QED
  BY <1>4, <1>5

\* clean_one_flashpg: the victim's counts are left alone, and a copied page goes
\* to the GC line.
LEMMA CleanPages ==
  ASSUME TypeOK, Consistent, LineCounts, PageStates, CleanPage, NoPanic'
  PROVE  LineCounts' /\ PageStates'
<1>1. /\ pc = "clean" /\ in_gc /\ gc \in Ppa /\ "GC_IO" \in IoType
  BY DEF CleanPage, in_gc, TypeOK, IoType
<1>2. gc_next_page
  <2>1. status[gc] \in {"FREE", "VALID", "INVALID"}
    BY <1>1 DEF TypeOK
  <2> QED
    BY <2>1 DEF CleanPage, Panic, NoPanic
<1>3. /\ gc'.blk = gc.blk /\ in_gc'
      /\ \A p \in Ppa : p.blk = gc.blk => (passed(p)' <=> passed(p) \/ p = gc)
  BY <1>1, <1>2, GcCursor DEF in_gc
<1>4. CASE status[gc] = "INVALID"
  <2>1. UNCHANGED <<status, vpc, ipc, free_line_list, full_line_list, victim_line_pq, wp>>
    BY <1>4 DEF CleanPage, lines
  <2>2. LineCounts'
    BY <1>1, <1>3, <2>1 DEF LineCounts
  <2>3. PageStates'
    BY <1>1, <1>3, <2>1 DEF PageStates, on_free, rank
  <2> QED
    BY <2>2, <2>3
<1>5. CASE status[gc] = "VALID"
  <2>1. /\ program_asserts("GC_IO") /\ program_page(rmap[gc], "GC_IO")
        /\ rmap[gc] \in Lpn
    BY <1>5 DEF CleanPage, Panic, NoPanic
  <2> QED
    BY <1>1, <1>3, <2>1, ProgramPages DEF Consistent
<1> QED
  BY <1>1, <1>4, <1>5 DEF CleanPage, Panic, NoPanic, TypeOK

\* Erasing a block passes no page: all of its pages were passed before.
LEMMA EraseCursor ==
  ASSUME TypeOK, GcErased, EraseBlock
  PROVE  /\ in_gc /\ in_gc' /\ gc \in Ppa /\ gc' \in Ppa /\ gc'.blk = gc.blk
         /\ \A p \in Ppa : same_block(p, gc) => p.blk = gc.blk /\ passed(p)
         /\ \A p \in Ppa : p.blk = gc.blk => (passed(p)' <=> passed(p))
<1>1. pc = "erase"
  BY DEF EraseBlock
<1>2. /\ in_gc /\ in_gc' /\ gc \in Ppa
      /\ gc.wl = WLS - 1 /\ gc.pg = ONESHOT - 1
  BY <1>1 DEF EraseBlock, in_gc, TypeOK, GcErased
<1>3. \/ last_flashpg(gc) /\ pc' = "free_line" /\ gc' = gc
      \/ /\ ~last_flashpg(gc) /\ pc' = "clean" /\ gc' = next_flashpg(gc)
         /\ gc'.wl = gc.wl /\ gc'.pg = 0
         /\ \/ gc'.ch = gc.ch /\ gc'.lun = gc.lun + 1
            \/ gc.lun = LUNS - 1 /\ gc'.ch = gc.ch + 1 /\ gc'.lun = 0
  BY <1>1, <1>2 DEF EraseBlock, last_flashpg, next_flashpg, page
<1>4. gc' \in Ppa /\ gc'.blk = gc.blk
  BY <1>2, <1>3, NextFlashpgPpa
<1>5. ASSUME NEW p \in Ppa
      PROVE  /\ same_block(p, gc) => p.blk = gc.blk /\ passed(p)
             /\ passed(p)' <=> passed(p)
  <2>1. /\ p.wl \in 0 .. WLS - 1 /\ p.ch \in 0 .. NCHS - 1 /\ p.lun \in 0 .. LUNS - 1
        /\ p.pg \in 0 .. ONESHOT - 1
        /\ gc.ch \in 0 .. NCHS - 1 /\ gc.lun \in 0 .. LUNS - 1
    BY <1>2 DEF Ppa
  <2>2. same_block(p, gc) => p.blk = gc.blk /\ passed(p)
    BY <1>1, <1>2, <2>1, GeometryAssumption DEF same_block, passed
  <2>3. passed(p)' <=> passed(p)
    BY <1>1, <1>2, <1>3, <2>1, GeometryAssumption DEF passed, last_flashpg
  <2> QED
    BY <2>2, <2>3
<1> QED
  BY <1>2, <1>4, <1>5

\* mark_block_free touches the victim line only, and only pages GC is done with.
LEMMA ErasePages ==
  ASSUME TypeOK, Consistent, LineCounts, PageStates, EraseBlock
  PROVE  LineCounts' /\ PageStates'
<1>1. /\ status' = [p \in Ppa |-> IF same_block(p, gc) THEN "FREE" ELSE status[p]]
      /\ UNCHANGED <<vpc, ipc, free_line_list, full_line_list, victim_line_pq, wp>>
  BY DEF EraseBlock, lines
<1>2. /\ in_gc /\ in_gc' /\ gc \in Ppa /\ gc'.blk = gc.blk
      /\ \A p \in Ppa : same_block(p, gc) => p.blk = gc.blk /\ passed(p)
      /\ \A p \in Ppa : p.blk = gc.blk => (passed(p)' <=> passed(p))
  BY EraseCursor DEF Consistent
<1>3. \A p \in Ppa : /\ p.blk # gc.blk => status'[p] = status[p]
                     /\ ~passed(p) => status'[p] = status[p]
  BY <1>1, <1>2
<1>4. LineCounts'
  <2>1. ASSUME NEW l \in Line, l # gc.blk
        PROVE  /\ counted(status', l, "VALID") = counted(status, l, "VALID")
               /\ counted(status', l, "INVALID") = counted(status, l, "INVALID")
    <3>1. \A p \in pages_of(l) : status'[p] = status[p]
      BY <1>3, <2>1 DEF pages_of
    <3>2. /\ marked(status', l, "VALID") = marked(status, l, "VALID")
          /\ marked(status', l, "INVALID") = marked(status, l, "INVALID")
      BY <3>1 DEF marked
    <3> QED
      BY <3>2 DEF counted
  <2>2. \A l \in Line : l # gc.blk =>
           vpc[l] = counted(status, l, "VALID") /\ ipc[l] = counted(status, l, "INVALID")
    BY CountsAre
  <2>3. \A l \in Line : l # gc.blk =>
           vpc'[l] = counted(status', l, "VALID") /\ ipc'[l] = counted(status', l, "INVALID")
    BY <1>1, <2>1, <2>2
  <2> QED
    BY <1>2, <2>3 DEF LineCounts, counted, marked
<1>5. PageStates'
  <2>1. /\ ~on_free(gc.blk) /\ gc.blk \notin full_line_list \union victim_line_pq
        /\ \A t \in IoType : wp[t].blk # gc.blk
    <3>1. collected(gc.blk) /\ gc.blk \in Line
      BY <1>2 DEF collected, Ppa
    <3> QED
      BY <3>1 DEF Consistent, LinePartition, open
  <2>2. \A p \in Ppa : p.blk \in Line
    BY DEF Ppa
  <2>3. \A l \in Line : on_free(l)' <=> on_free(l)
    BY <1>1 DEF on_free
  <2> QED
    BY <1>1, <1>2, <1>3, <2>1, <2>2, <2>3 DEF PageStates, rank
<1> QED
  BY <1>4, <1>5

\* mark_line_free: the line that joins the free list is blank.
LEMMA FreePages ==
  ASSUME TypeOK, Consistent, LineCounts, PageStates, FreeLine
  PROVE  LineCounts' /\ PageStates'
<1> DEFINE v == gc.blk
<1>1. /\ pc = "free_line" /\ pc' \in {"idle", "invalidate"}
      /\ vpc' = [vpc EXCEPT ![v] = 0]
      /\ ipc' = [ipc EXCEPT ![v] = 0]
      /\ free_line_list' = Append(free_line_list, v)
      /\ UNCHANGED <<status, full_line_list, victim_line_pq, wp>>
  BY NextLpnType DEF FreeLine
<1>2. in_gc /\ ~in_gc' /\ gc \in Ppa /\ v \in Line
  BY <1>1 DEF in_gc, TypeOK, Ppa
<1>3. \A p \in Ppa : p.blk = v => status[p] = "FREE"
  BY <1>1, <1>2 DEF Consistent, GcErased, block_erased
<1>4. LineCounts'
  <2>1. counted(status, v, "VALID") = 0 /\ counted(status, v, "INVALID") = 0
    <3>1. \A p \in pages_of(v) : status[p] # "VALID" /\ status[p] # "INVALID"
      BY <1>3 DEF pages_of
    <3> HIDE DEF v
    <3> QED
      BY <1>2, <3>1, CountNone
  <2>2. \A l \in Line : l # v =>
           vpc[l] = counted(status, l, "VALID") /\ ipc[l] = counted(status, l, "INVALID")
    BY CountsAre
  <2> HIDE DEF v
  <2>3. \A l \in Line :
           vpc'[l] = counted(status', l, "VALID") /\ ipc'[l] = counted(status', l, "INVALID")
    BY <1>1, <1>2, <2>1, <2>2 DEF TypeOK
  <2> QED
    BY <2>3 DEF LineCounts, counted, marked
<1>5. PageStates'
  <2>1. \A l \in Line : on_free(l)' => on_free(l) \/ l = v
    <3>1. free_line_list \in Seq(Line)
      BY DEF TypeOK
    <3> HIDE DEF v
    <3> QED
      BY <1>1, <1>2, <3>1 DEF on_free
  <2>2. \A p \in Ppa : p.blk \in Line
    BY DEF Ppa
  <2> QED
    BY <1>1, <1>2, <1>3, <2>1, <2>2 DEF PageStates, rank
<1> QED
  BY <1>4, <1>5

\* Every step keeps them, as long as no assertion fails.
LEMMA StepPages ==
  ASSUME TypeOK, Consistent, LineCounts, PageStates, Next, NoPanic'
  PROVE  LineCounts' /\ PageStates'
<1>1. CASE WriteBegin
  BY <1>1, QuietPages DEF WriteBegin, in_gc, lines
<1>2. CASE CreditLeft
  <2>1. pc' \in {"idle", "invalidate"}
    BY <1>2, NextLpnType DEF CreditLeft
  <2> QED
    BY <1>2, <2>1, QuietPages DEF CreditLeft, in_gc, lines
<1>3. CASE RefillNoGc
  <2>1. pc' \in {"idle", "invalidate"}
    BY <1>3, NextLpnType DEF RefillNoGc
  <2> QED
    BY <1>3, <2>1, QuietPages DEF RefillNoGc, in_gc, lines
<1> QED
  BY <1>1, <1>2, <1>3, InvalidatePages, ProgramUserPages, SelectPages, CleanPages,
     ErasePages, FreePages DEF Next, Gc

\* As long as no assertion has failed, line.vpc and line.ipc are the numbers of
\* valid and invalid pages of every line but the one being collected, for every
\* geometry: the counts by which do_gc chooses its victim and refills the credits
\* are true.
THEOREM CountsCorrect == Spec => [](NoPanic => LineCounts)
<1> DEFINE J == NoPanic => LineCounts /\ PageStates
<1>1. Init => J
  BY InitPages
<1>2. IInv /\ J /\ [Next]_vars => J'
  <2> SUFFICES ASSUME IInv, J, [Next]_vars, NoPanic'
               PROVE  (LineCounts /\ PageStates)'
    BY DEF NoPanic
  <2>1. CASE UNCHANGED vars
    BY <2>1 DEF vars, lines, credits, NoPanic, LineCounts, PageStates, in_gc, on_free,
                passed, rank
  <2>2. CASE Next
    <3>1. NoPanic
      BY <2>2, PanicFinal DEF NoPanic
    <3> QED
      BY <2>2, <3>1, StepPages DEF IInv
  <2> QED
    BY <2>1, <2>2
<1>3. J => (NoPanic => LineCounts)
  OBVIOUS
<1> QED
  BY <1>1, <1>2, <1>3, Invariance, PTL DEF Spec

-----------------------------------------------------------------------------
(* A provisioned device never panics.                                      *)

\* Multiplying by the size of a line keeps the order.
LEMMA LinesOrder ==
  ASSUME NEW a \in Int, NEW b \in Int, a <= b
  PROVE  a * pgs_per_line <= b * pgs_per_line
<1>1. PICK d \in Nat : b = a + d
  <2>1. b - a \in Nat /\ b = a + (b - a)
    OBVIOUS
  <2> QED
    BY <2>1
<1>2. PICK m \in Nat : m = pgs_per_line
  BY LineSize
<1>3. (a + d) * m = a * m + d * m /\ d * m \in Nat /\ a * m \in Int
  OBVIOUS
<1> QED
  BY <1>1, <1>2, <1>3

\* The rest of the open lines: between one page and a whole line each.
LEMMA OpenRest ==
  ASSUME TypeOK, NEW t \in IoType
  PROVE  pgs_per_line - rank(wp[t]) \in 1 .. pgs_per_line /\ rank(wp[t]) \in Nat
<1>1. rank(wp[t]) \in 0 .. pgs_per_line - 1
  BY RankBound DEF TypeOK
<1> QED
  BY <1>1, LineSize

\* unwritten is the free lines and the rests of the open ones.
LEMMA UnwrittenIs ==
  ASSUME TypeOK
  PROVE  /\ unwritten \in Nat /\ Len(free_line_list) \in Nat
         /\ Len(free_line_list) * pgs_per_line \in Nat
<1>1. Len(free_line_list) \in Nat
  BY DEF TypeOK
<1>2. Len(free_line_list) * pgs_per_line \in Nat
  BY <1>1, LineSize
<1>3. "USER_IO" \in IoType /\ "GC_IO" \in IoType
  BY DEF IoType
<1>4. /\ pgs_per_line - rank(wp["USER_IO"]) \in Nat
      /\ pgs_per_line - rank(wp["GC_IO"]) \in Nat
  BY <1>3, OpenRest, LineSize
<1> QED
  BY <1>1, <1>2, <1>4 DEF unwritten

\* Every programmed page is one of the unwritten ones, also when a line closes.
LEMMA UnwrittenStep ==
  ASSUME TypeOK, NEW lpn \in Lpn, NEW t \in IoType,
         program_asserts(t), program_page(lpn, t)
  PROVE  unwritten' = unwritten - 1
<1> DEFINE new == wp[t]
           u == IF t = "USER_IO" THEN "GC_IO" ELSE "USER_IO"
           n == Len(free_line_list)
<1>1. /\ new \in Ppa /\ u \in IoType /\ u # t /\ IoType = {t, u}
      /\ wp \in [IoType -> Ppa]
  BY DEF TypeOK, IoType
<1>2. advance_write_pointer(t, vpc[new.blk] + 1)
  BY DEF program_page
<1>3. PICK m \in Nat : m = pgs_per_line
  BY LineSize
<1>4. PICK r \in Nat : r = rank(wp[t])
  BY OpenRest
<1>5. PICK s \in Nat : s = rank(wp[u])
  BY <1>1, OpenRest
<1>6. n \in Nat
  BY UnwrittenIs
<1>7. unwritten = n * m + (m - r) + (m - s)
  <2>1. CASE t = "USER_IO"
    BY <1>3, <1>4, <1>5, <2>1 DEF unwritten
  <2>2. CASE t = "GC_IO"
    <3>1. unwritten = n * m + (m - s) + (m - r)
      BY <1>3, <1>4, <1>5, <2>2 DEF unwritten
    <3>2. n * m \in Int
      BY <1>6
    <3> QED
      BY <3>1, <3>2
  <2> QED
    BY <2>1, <2>2 DEF IoType
<1>8. ASSUME NEW k \in Nat, NEW r2 \in Nat, Len(free_line_list') = k,
             rank(wp'[t]) = r2, rank(wp'[u]) = s
      PROVE  unwritten' = k * m + (m - r2) + (m - s)
  <2>1. k * m \in Int
    OBVIOUS
  <2>2. rank(wp["USER_IO"])' = rank(wp'["USER_IO"]) /\ rank(wp["GC_IO"])' = rank(wp'["GC_IO"])
    BY DEF rank
  <2>3. unwritten' = k * m + (m - rank(wp'["USER_IO"])) + (m - rank(wp'["GC_IO"]))
    BY <1>3, <1>8, <2>2 DEF unwritten
  <2>4. CASE t = "USER_IO"
    BY <1>8, <2>3, <2>4
  <2>5. CASE t = "GC_IO"
    BY <1>8, <2>1, <2>3, <2>5
  <2> QED
    BY <2>4, <2>5 DEF IoType
<1>9. CASE ~last_pg_in_line(new)
  <2>1. /\ wp' = [wp EXCEPT ![t] = next_pg_in_line(new)]
        /\ free_line_list' = free_line_list
    BY <1>2, <1>9 DEF advance_write_pointer, lines
  <2>2. wp'[t] = next_pg_in_line(new) /\ wp'[u] = wp[u]
    BY <1>1, <2>1
  <2>3. rank(wp'[t]) = r + 1 /\ rank(wp'[u]) = s
    BY <1>1, <1>4, <1>5, <1>9, <2>2, RankStep
  <2>4. unwritten' = n * m + (m - (r + 1)) + (m - s)
    BY <1>6, <1>8, <2>1, <2>3
  <2>5. n * m \in Int
    BY <1>6
  <2> QED
    BY <1>7, <2>4, <2>5
<1>10. CASE last_pg_in_line(new)
  <2>1. /\ wp' = [wp EXCEPT ![t] = line_start(Head(free_line_list))]
        /\ free_line_list' = Tail(free_line_list)
        /\ free_line_list # <<>>
    BY <1>2, <1>10 DEF advance_write_pointer, program_asserts
  <2>2. /\ n - 1 \in Nat /\ Len(free_line_list') = n - 1 /\ Head(free_line_list) \in Line
    BY <2>1 DEF TypeOK
  <2>3. wp'[t] = line_start(Head(free_line_list)) /\ wp'[u] = wp[u]
    BY <1>1, <2>1
  <2>4. rank(wp'[t]) = 0 /\ rank(wp'[u]) = s /\ r = m - 1
    BY <1>1, <1>3, <1>4, <1>5, <1>10, <2>2, <2>3, RankStep
  <2>5. unwritten' = (n - 1) * m + (m - 0) + (m - s)
    BY <1>8, <2>2, <2>4
  <2> HIDE DEF n
  <2>6. n * m \in Int /\ (n - 1) * m = n * m - m
    BY <1>6
  <2> QED
    BY <1>7, <2>4, <2>5, <2>6
<1> QED
  BY <1>9, <1>10

\* The assertions of mark_page_invalid: the old copy is valid, so its line has a
\* valid page and room for another invalid one.
LEMMA InvalidateHolds ==
  ASSUME TypeOK, Consistent, LineCounts, pc = "invalidate",
         mapped_ppa(maptbl[req.lpn])
  PROVE  invalidate_asserts(maptbl[req.lpn])
<1> DEFINE old == maptbl[req.lpn]
           b == old.blk
<1>1. ~in_gc /\ req.lpn \in Lpn /\ ~being_replaced(req.lpn)
  BY DEF in_gc, TypeOK, being_replaced
<1>2. old \in Ppa /\ b \in Line
  BY <1>1 DEF TypeOK, mapped_ppa, Ppa
<1>3. status[old] = "VALID"
  BY <1>1 DEF Consistent, MapInverse
<1>4. /\ vpc[b] \in Nat /\ ipc[b] \in Nat /\ vpc[b] + ipc[b] <= pgs_per_line
  BY <1>1, <1>2, Occupied DEF Consistent, collected
<1>5. vpc[b] # 0
  <2>1. vpc[b] = counted(status, b, "VALID")
    BY <1>1, <1>2, CountsAre
  <2>2. old \in marked(status, b, "VALID")
    BY <1>2, <1>3 DEF marked, pages_of
  <2>3. IsFiniteSet(marked(status, b, "VALID"))
    <3>1. marked(status, b, "VALID") \subseteq pages_of(b)
      BY DEF marked
    <3> HIDE DEF b
    <3> QED
      BY <1>2, <3>1, LinePages, FS_Subset
  <2> QED
    BY <2>1, <2>2, <2>3, FS_EmptySet DEF counted
<1> QED
  BY <1>3, <1>4, <1>5, LineSize DEF invalidate_asserts

\* The assertions of mark_page_valid and advance_write_pointer, but for the free
\* line it may need: the page at the pointer is blank, and when it is the last of
\* its line the others are all accounted for.
LEMMA ProgramHolds ==
  ASSUME TypeOK, Consistent, PageStates, NEW t \in IoType,
         last_pg_in_line(wp[t]) => free_line_list # <<>>
  PROVE  program_asserts(t)
<1> DEFINE new == wp[t]
           b == new.blk
<1>1. new \in Ppa /\ b \in Line
  BY DEF TypeOK, Ppa
<1>2. rank(new) \in 0 .. pgs_per_line - 1
  BY <1>1, RankBound
<1>3. status[new] = "FREE"
  BY <1>1, <1>2 DEF PageStates
<1>4. vpc[b] \in Nat /\ ipc[b] \in Nat /\ vpc[b] + ipc[b] = rank(new)
  BY <1>1 DEF Consistent, LineOccupancy, TypeOK
<1>5. last_pg_in_line(new) => rank(new) = pgs_per_line - 1
  BY <1>1, RankStep
<1> QED
  BY <1>2, <1>3, <1>4, <1>5, LineSize DEF program_asserts

\* The lines that are neither free nor open nor in the victim queue are full.
LEMMA FullLines ==
  ASSUME TypeOK, LinePartition, ~in_gc, victim_line_pq = {}
  PROVE  /\ Cardinality(full_line_list) \in Nat
         /\ tt_lines <= Len(free_line_list) + 2 + Cardinality(full_line_list)
<1> DEFINE n == Len(free_line_list)
           F == {l \in Line : on_free(l)}
           O == {wp["USER_IO"].blk, wp["GC_IO"].blk}
<1>1. n \in Nat /\ free_line_list \in [1 .. n -> Line]
  BY DEF TypeOK
<1>2. IsFiniteSet(F) /\ Cardinality(F) <= n
  <2>1. free_line_list \in [1 .. n -> F]
    BY <1>1 DEF on_free
  <2>2. \A l \in F : \E i \in 1 .. n : free_line_list[i] = l
    BY DEF on_free
  <2> HIDE DEF F, n
  <2>3. IsFiniteSet(1 .. n) /\ Cardinality(1 .. n) = n
    <3>1. 1 \in Int /\ n \in Int
      BY <1>1
    <3>2. IsFiniteSet(1 .. n) /\ Cardinality(1 .. n) = IF 1 > n THEN 0 ELSE n - 1 + 1
      BY <3>1, FS_Interval, Zenon
    <3> QED BY <1>1, <3>2
  <2>4. free_line_list \in Surjection(1 .. n, F)
    BY <2>1, <2>2 DEF Surjection
  <2> QED
    BY <2>3, <2>4, FS_Surjection
<1>3. IsFiniteSet(full_line_list) /\ Cardinality(full_line_list) \in Nat
  BY GeometryAssumption, FS_Subset, FS_CardinalityType DEF TypeOK
<1>4. IsFiniteSet(O) /\ Cardinality(O) = 2
  <2>1. PICK a : a = wp["USER_IO"].blk
    OBVIOUS
  <2>2. PICK b : b = wp["GC_IO"].blk
    OBVIOUS
  <2>3. a # b /\ O = {a} \union {b}
    BY <2>1, <2>2 DEF LinePartition
  <2>4. IsFiniteSet({a}) /\ Cardinality({a}) = 1 /\ b \notin {a}
    BY <2>3, FS_Singleton
  <2>5. IsFiniteSet({a} \union {b}) /\ Cardinality({a} \union {b}) = 2
    BY <2>4, FS_AddElement
  <2> QED
    BY <2>3, <2>5
<1>5. /\ Line = (F \union O) \union full_line_list
      /\ F \intersect O = {} /\ (F \union O) \intersect full_line_list = {}
  <2>1. "USER_IO" \in IoType /\ "GC_IO" \in IoType /\ IoType = {"USER_IO", "GC_IO"}
    BY DEF IoType
  <2>2. wp["USER_IO"].blk \in Line /\ wp["GC_IO"].blk \in Line
    BY <2>1 DEF TypeOK, Ppa
  <2>3. full_line_list \subseteq Line
    BY DEF TypeOK
  <2>4. \A l \in Line : open(l) <=> l \in O
    BY <2>1 DEF open
  <2>5. \A l \in Line : ~collected(l)
    BY DEF collected
  <2> QED
    BY <2>2, <2>3, <2>4, <2>5 DEF LinePartition
<1> HIDE DEF F, O, n
<1>6. /\ IsFiniteSet(F \union O) /\ Cardinality(F) \in Nat
      /\ Cardinality(F \union O) = Cardinality(F) + Cardinality(O)
  BY <1>2, <1>4, <1>5, CardAdd
<1>7. Cardinality(Line) = Cardinality(F \union O) + Cardinality(full_line_list)
  BY <1>3, <1>5, <1>6, CardAdd
<1> QED
  BY <1>1, <1>2, <1>3, <1>4, <1>6, <1>7 DEF tt_lines, n

\* The pages of the full lines are the current copies of different logical pages.
LEMMA FullFits ==
  ASSUME TypeOK, Consistent, LineCounts, PageStates, pc = "credit",
         NEW T \in SUBSET Lpn,
         \A l \in Lpn : maptbl[l] \in Ppa /\ maptbl[l].blk \in full_line_list => l \in T
  PROVE  Cardinality(full_line_list) * pgs_per_line <= Cardinality(T)
<1> DEFINE R == 0 .. pgs_per_line - 1
           S == full_line_list \X R
           at(x) == CHOOSE p \in Ppa : p.blk = x[1] /\ rank(p) = x[2]
           f == [x \in S |-> rmap[at(x)]]
<1>0. ~in_gc
  BY DEF in_gc
<1>1. \A p \in Ppa : p.blk \in full_line_list => status[p] = "VALID"
  <2> SUFFICES ASSUME NEW p \in Ppa, p.blk \in full_line_list
               PROVE  status[p] = "VALID"
    OBVIOUS
  <2>1. p.blk \in Line /\ status[p] \in {"FREE", "VALID", "INVALID"}
    BY DEF TypeOK, Ppa
  <2>2. status[p] # "FREE"
    BY DEF PageStates
  <2>3. counted(status, p.blk, "INVALID") = 0
    BY <1>0, <2>1, CountsAre DEF Consistent, LineOccupancy
  <2>4. IsFiniteSet(marked(status, p.blk, "INVALID"))
    <3>1. marked(status, p.blk, "INVALID") \subseteq pages_of(p.blk)
      BY DEF marked
    <3> QED
      BY <2>1, <3>1, LinePages, FS_Subset
  <2>5. marked(status, p.blk, "INVALID") = {}
    BY <2>3, <2>4, FS_EmptySet DEF counted
  <2> QED
    BY <2>1, <2>2, <2>5 DEF marked, pages_of
<1>2. \A p \in Ppa : p.blk \in full_line_list => rmap[p] \in Lpn /\ maptbl[rmap[p]] = p
  BY <1>0, <1>1 DEF Consistent, MapInverse, superseded
<1>3. \A x \in S : at(x) \in Ppa /\ at(x).blk = x[1] /\ rank(at(x)) = x[2]
                   /\ at(x).blk \in full_line_list
  <2> TAKE x \in S
  <2>1. x[1] \in Line /\ x[1] \in full_line_list /\ x[2] \in R
    BY DEF TypeOK
  <2>2. \E p \in Ppa : p.blk = x[1] /\ rank(p) = x[2]
    BY <2>1, RankOnto
  <2> QED
    BY <2>1, <2>2
<1>4. f \in [S -> T]
  <2>1. ASSUME NEW x \in S PROVE rmap[at(x)] \in T
    <3> HIDE DEF at, S
    <3>1. /\ rmap[at(x)] \in Lpn /\ maptbl[rmap[at(x)]] = at(x)
          /\ at(x) \in Ppa /\ at(x).blk \in full_line_list
      BY <1>2, <1>3
    <3> QED
      BY <3>1
  <2> QED
    BY <2>1
<1>5. \A x, y \in S : f[x] = f[y] => x = y
  <2> SUFFICES ASSUME NEW x \in S, NEW y \in S, rmap[at(x)] = rmap[at(y)]
               PROVE  x = y
    OBVIOUS
  <2>1. at(x) = at(y)
    <3> HIDE DEF at, S
    <3> QED
      BY <1>2, <1>3
  <2>2. x[1] = y[1] /\ x[2] = y[2]
    <3> HIDE DEF at, S
    <3> QED
      BY <1>3, <2>1
  <2> QED
    BY <2>2
<1>6. IsFiniteSet(S) /\ Cardinality(S) = Cardinality(full_line_list) * pgs_per_line
  <2>1. IsFiniteSet(full_line_list)
    BY GeometryAssumption, FS_Subset DEF TypeOK
  <2>2. IsFiniteSet(R) /\ Cardinality(R) = pgs_per_line
    BY LineSize, FS_Interval
  <2> HIDE DEF R
  <2> QED
    BY <2>1, <2>2, FS_Product
<1>7. IsFiniteSet(T)
  <2>1. IsFiniteSet(Lpn)
    BY GeometryAssumption, FS_Interval DEF Lpn
  <2> QED
    BY <2>1, FS_Subset
<1> HIDE DEF S, f
<1>8. f \in Injection(S, T)
  BY <1>4, <1>5 DEF Injection, IsInjective
<1>9. Cardinality(S) <= Cardinality(T)
  BY <1>7, <1>8, FS_Injection
<1> QED
  BY <1>6, <1>9

\* When GC would be due and finds no victim, every closed line is full of current
\* pages.  The namespace is too small for that to leave less than the threshold
\* and one line more: at the limit all of it is in full lines, the page written
\* last too, so the user line has just been opened.
LEMMA NoVictimRoom ==
  ASSUME TypeOK, Consistent, LineCounts, PageStates, JustWritten, Provisioned,
         pc = "credit", should_gc_high => victim_line_pq = {}
  PROVE  unwritten >= (GC_THRES + 1) * pgs_per_line
<1> DEFINE n == Len(free_line_list)
           K == Cardinality(full_line_list)
<1>0. ~in_gc /\ "USER_IO" \in IoType /\ "GC_IO" \in IoType
  BY DEF in_gc, IoType
<1>1. PICK m \in Nat : m = pgs_per_line /\ m >= 1
  BY LineSize
<1>2. PICK r \in 1 .. m : r = pgs_per_line - rank(wp["USER_IO"])
  BY <1>0, <1>1, OpenRest
<1>3. PICK s \in 1 .. m : s = pgs_per_line - rank(wp["GC_IO"])
  BY <1>0, <1>1, OpenRest
<1>4. n \in Nat /\ n * m \in Nat /\ unwritten = n * m + r + s
  BY <1>1, <1>2, <1>3, UnwrittenIs DEF unwritten
<1>5. GC_THRES \in Nat /\ tt_lines \in Nat /\ NLPN \in Nat /\ (GC_THRES + 1) * m \in Nat
  BY GeometryAssumption, FS_CardinalityType DEF tt_lines
<1>6. CASE n >= GC_THRES + 1
  <2>1. (GC_THRES + 1) * m <= n * m
    BY <1>1, <1>4, <1>5, <1>6, LinesOrder
  <2> QED
    BY <1>1, <1>4, <1>5, <2>1
<1>7. CASE n <= GC_THRES
  <2>1. victim_line_pq = {}
    BY <1>7 DEF should_gc_high
  <2>2. K \in Nat /\ tt_lines <= n + 2 + K
    BY <1>0, <2>1, FullLines DEF Consistent
  <2>3. Lpn \in SUBSET Lpn /\ Cardinality(Lpn) = NLPN /\ IsFiniteSet(Lpn)
    BY GeometryAssumption, FS_Interval DEF Lpn
  <2>4. K * pgs_per_line <= NLPN
    <3>1. K * pgs_per_line <= Cardinality(Lpn)
      BY <2>3, FullFits
    <3> QED
      BY <2>3, <3>1
  <2>5. NLPN <= (tt_lines - 2 - GC_THRES) * pgs_per_line
    BY DEF Provisioned
  <2> DEFINE k == tt_lines - 2 - GC_THRES
  <2>6. k \in Int /\ k * m \in Int /\ K * m \in Int
    BY <1>5, <2>2
  <2>7. K <= k
    <3> SUFFICES ASSUME K >= k + 1 PROVE FALSE
      BY <2>2, <2>6
    <3> HIDE DEF K, k
    <3>1. (k + 1) * pgs_per_line <= K * pgs_per_line
      BY <2>2, <2>6, LinesOrder
    <3>2. (k + 1) * m = k * m + m
      BY <2>6
    <3> QED
      BY <1>1, <1>5, <2>4, <2>5, <2>6, <3>1, <3>2 DEF k
  <2>8. K = k /\ n = GC_THRES
    BY <1>4, <1>5, <1>7, <2>2, <2>6, <2>7
  <2>9. K * pgs_per_line = NLPN
    BY <1>1, <1>5, <2>4, <2>5, <2>6, <2>8
  <2>10. req.lpn \in Lpn /\ maptbl[req.lpn] \in Ppa
    BY DEF JustWritten, mapped_ppa, TypeOK
  <2>11. maptbl[req.lpn].blk \in full_line_list
    <3> SUFFICES ASSUME maptbl[req.lpn].blk \notin full_line_list PROVE FALSE
      OBVIOUS
    <3> DEFINE T == Lpn \ {req.lpn}
    <3>1. T \in SUBSET Lpn /\ \A l \in Lpn : maptbl[l].blk \in full_line_list => l \in T
      OBVIOUS
    <3>2. Cardinality(T) = NLPN - 1
      BY <2>3, <2>10, FS_RemoveElement
    <3> HIDE DEF T
    <3>3. K * pgs_per_line <= Cardinality(T)
      BY <3>1, FullFits
    <3> QED
      BY <1>5, <2>9, <3>2, <3>3
  <2>12. rank(wp["USER_IO"]) = 0
    <3>1. wp["USER_IO"].blk \notin full_line_list
      <4>1. wp["USER_IO"].blk \in Line /\ open(wp["USER_IO"].blk)
        BY <1>0 DEF TypeOK, Ppa, open
      <4> QED
        BY <4>1 DEF Consistent, LinePartition
    <3> QED
      BY <2>11, <3>1 DEF JustWritten
  <2>13. r = m
    BY <1>1, <1>2, <2>12
  <2>14. (GC_THRES + 1) * m = GC_THRES * m + m
    BY <1>5
  <2>15. GC_THRES * m \in Int /\ n * m = GC_THRES * m
    BY <1>5, <2>8
  <2> QED
    BY <1>1, <1>3, <1>4, <2>13, <2>14, <2>15
<1> QED
  BY <1>4, <1>5, <1>6, <1>7

\* conv_init_ftl: all the flash is unwritten.
LEMMA InitReserve ==
  ASSUME Init, Provisioned
  PROVE  NoPanic /\ Reserve /\ JustWritten
<1>1. pc = "idle" /\ ~in_gc /\ write_credits = pgs_per_line
  BY DEF Init, in_gc
<1>2. TypeOK
  BY InitIInv DEF IInv
<1>3. PICK m \in Nat : m = pgs_per_line /\ m >= 1
  BY LineSize
<1>4. PICK k \in Nat : k = tt_lines /\ k >= 2
  BY GeometryAssumption, FS_CardinalityType DEF tt_lines
<1>5. GC_THRES \in Nat /\ NLPN \in Nat /\ NLPN >= 1 /\ NLPN <= (k - 2 - GC_THRES) * m
  BY <1>3, <1>4, GeometryAssumption DEF Provisioned
<1>6. k - 2 >= GC_THRES
  <2> SUFFICES ASSUME k - 2 - GC_THRES <= 0 PROVE FALSE
    BY <1>5
  <2>1. (k - 2 - GC_THRES) * pgs_per_line <= 0 * pgs_per_line
    BY <1>5, LinesOrder
  <2> QED
    BY <1>3, <1>5, <2>1
<1>7. unwritten >= (k - 2) * m + m
  <2>1. PICK o \in line_orders : free_line_list = [i \in 1 .. tt_lines - 2 |-> o[i + 2]]
    BY DEF Init
  <2>2. Len(free_line_list) = k - 2
    BY <1>4, <2>1
  <2>3. rank(wp["USER_IO"]) = 0 /\ pgs_per_line - rank(wp["GC_IO"]) \in Nat
    <3>1. PICK q \in line_orders :
             wp = [t \in IoType |-> line_start(IF t = "USER_IO" THEN q[1] ELSE q[2])]
      BY DEF Init
    <3>2. q[1] \in Line
      BY <1>4 DEF line_orders
    <3>3. wp["USER_IO"] = line_start(q[1]) /\ "GC_IO" \in IoType
      BY <3>1 DEF IoType
    <3> QED
      BY <1>2, <1>3, <3>2, <3>3, RankStep, OpenRest
  <2>4. (k - 2) * m \in Int
    BY <1>4
  <2> QED
    BY <1>3, <2>2, <2>3, <2>4 DEF unwritten
<1>8. GC_THRES * pgs_per_line <= (k - 2) * pgs_per_line
  BY <1>5, <1>6, LinesOrder
<1>9. GC_THRES * m \in Int /\ (k - 2) * m \in Int
  BY <1>5
<1>10. unwritten >= GC_THRES * pgs_per_line + write_credits
  <2>1. unwritten \in Nat
    BY <1>2, UnwrittenIs
  <2> QED
    BY <1>1, <1>3, <1>7, <1>8, <1>9, <2>1
<1> QED
  BY <1>1, <1>10 DEF NoPanic, Reserve, JustWritten

\* The steps that touch neither the pages nor the credits.
LEMMA QuietReserve ==
  ASSUME Reserve, ~in_gc, ~in_gc', pc' # "credit",
         UNCHANGED <<free_line_list, wp, write_credits>>
  PROVE  Reserve' /\ JustWritten'
<1>1. unwritten' = unwritten
  BY DEF unwritten, rank
<1> QED
  BY <1>1 DEF Reserve, JustWritten

\* mark_page_invalid changes no free page.
LEMMA InvalidateReserve ==
  ASSUME TypeOK, Consistent, LineCounts, Reserve, InvalidateOld
  PROVE  NoPanic' /\ Reserve' /\ JustWritten'
<1>1. pc = "invalidate"
  BY DEF InvalidateOld
<1>2. mapped_ppa(maptbl[req.lpn]) => invalidate_asserts(maptbl[req.lpn])
  BY <1>1, InvalidateHolds
<1>3. pc' = "program" /\ UNCHANGED <<free_line_list, wp, write_credits>>
  BY <1>2 DEF InvalidateOld, mark_page_invalid, lines, credits
<1> QED
  BY <1>1, <1>3, QuietReserve DEF in_gc, NoPanic

\* A user page is programmed against a credit, so the reserve is untouched and,
\* being two lines at least, holds the line the pointer may have to move to.
LEMMA ProgramUserReserve ==
  ASSUME TypeOK, Consistent, PageStates, Reserve, Provisioned, ProgramUser
  PROVE  NoPanic' /\ Reserve' /\ JustWritten'
<1>1. /\ pc = "program" /\ ~in_gc /\ req.lpn \in Lpn
      /\ "USER_IO" \in IoType /\ "GC_IO" \in IoType
  BY DEF ProgramUser, in_gc, TypeOK, IoType
<1>2. PICK m \in Nat : m = pgs_per_line /\ m >= 1
  BY LineSize
<1>3. GC_THRES \in Nat /\ GC_THRES * m \in Nat /\ 2 * m <= GC_THRES * m
  <2>1. GC_THRES \in Nat /\ 2 <= GC_THRES
    BY GeometryAssumption DEF Provisioned
  <2> QED
    BY <1>2, <2>1, LinesOrder
<1>4. write_credits \in 1 .. m
  BY <1>1, <1>2 DEF Consistent, CreditRange
<1>5. unwritten \in Nat /\ unwritten >= GC_THRES * m + write_credits
  BY <1>1, <1>2, UnwrittenIs DEF Reserve
<1>6. last_pg_in_line(wp["USER_IO"]) => free_line_list # <<>>
  <2> SUFFICES ASSUME last_pg_in_line(wp["USER_IO"]), free_line_list = <<>>
               PROVE  FALSE
    OBVIOUS
  <2>1. rank(wp["USER_IO"]) = m - 1
    BY <1>1, <1>2, RankStep DEF TypeOK
  <2>2. PICK s \in 1 .. m : s = pgs_per_line - rank(wp["GC_IO"])
    BY <1>1, <1>2, OpenRest
  <2>3. Len(free_line_list) = 0
    OBVIOUS
  <2>4. unwritten = 0 * m + (m - (m - 1)) + s
    BY <1>2, <2>1, <2>2, <2>3 DEF unwritten
  <2> QED
    BY <1>2, <1>3, <1>4, <1>5, <2>2, <2>4
<1>7. program_asserts("USER_IO")
  BY <1>1, <1>6, ProgramHolds
<1>8. /\ program_page(req.lpn, "USER_IO") /\ consume_write_credit
      /\ pc' = "credit" /\ req' = req
  BY <1>7 DEF ProgramUser
<1>9. ~in_gc'
  BY <1>8 DEF in_gc
<1>10. write_credits' = write_credits - 1
  <2>1. write_credits - 1 \in 0 .. 2 * pgs_per_line
    BY <1>2, <1>4
  <2> QED
    BY <1>8, <2>1, NoWrap DEF consume_write_credit
<1>11. unwritten' = unwritten - 1
  BY <1>1, <1>7, <1>8, UnwrittenStep
<1>12. Reserve'
  BY <1>2, <1>3, <1>4, <1>5, <1>9, <1>10, <1>11 DEF Reserve
<1>13. JustWritten'
  <2> DEFINE new == wp["USER_IO"]
  <2>1. /\ maptbl' = [maptbl EXCEPT ![req.lpn] = new] /\ new \in Ppa
        /\ advance_write_pointer("USER_IO", vpc[new.blk] + 1)
    BY <1>1, <1>8 DEF program_page, TypeOK
  <2>2. maptbl'[req'.lpn] = new /\ new # UNMAPPED_PPA
    BY <1>1, <1>8, <2>1, GeometryAssumption DEF TypeOK
  <2>3. CASE ~last_pg_in_line(new)
    <3>1. wp'["USER_IO"] = next_pg_in_line(new)
      BY <1>1, <2>1, <2>3 DEF advance_write_pointer, TypeOK
    <3>2. wp'["USER_IO"].blk = new.blk
      BY <2>1, <2>3, <3>1, NextPgPpa
    <3> QED
      BY <2>2, <3>2 DEF JustWritten, mapped_ppa
  <2>4. CASE last_pg_in_line(new)
    <3>1. wp'["USER_IO"] = line_start(Head(free_line_list))
      BY <1>1, <2>1, <2>4 DEF advance_write_pointer, TypeOK
    <3>2. Head(free_line_list) \in Line
      BY <1>6, <2>4 DEF TypeOK
    <3>3. rank(wp'["USER_IO"]) = 0
      BY <3>1, <3>2, RankStep
    <3> QED
      BY <2>2, <3>3 DEF JustWritten, mapped_ppa, rank
  <2> QED
    BY <2>3, <2>4
<1> QED
  BY <1>8, <1>12, <1>13 DEF NoPanic

\* A refill without a collection leaves the reserve whole.
LEMMA RefillReserve ==
  ASSUME TypeOK, Consistent, LineCounts, PageStates, JustWritten, Provisioned, RefillNoGc
  PROVE  NoPanic' /\ Reserve' /\ JustWritten'
<1>1. /\ pc = "credit" /\ write_credits = 0 /\ (should_gc_high => victim_line_pq = {})
      /\ refill /\ UNCHANGED <<free_line_list, wp>>
      /\ pc' \in {"idle", "invalidate"}
  BY NextLpnType DEF RefillNoGc, lines
<1>2. ~in_gc'
  BY <1>1 DEF in_gc
<1>3. PICK m \in Nat : m = pgs_per_line /\ m >= 1
  BY LineSize
<1>4. credits_to_refill \in 1 .. m
  BY <1>3 DEF Consistent, CreditRange
<1>5. write_credits' = credits_to_refill
  <2>1. 0 + credits_to_refill \in 0 .. 2 * pgs_per_line
    BY <1>3, <1>4
  <2> QED
    BY <1>1, <1>4, <2>1, NoWrap DEF refill
<1>6. unwritten' = unwritten /\ unwritten \in Nat
  BY <1>1, UnwrittenIs DEF unwritten, rank
<1>7. unwritten >= (GC_THRES + 1) * m
  BY <1>1, <1>3, NoVictimRoom
<1>8. GC_THRES \in Nat /\ (GC_THRES + 1) * m = GC_THRES * m + m /\ GC_THRES * m \in Int
  BY GeometryAssumption
<1>9. unwritten' >= GC_THRES * pgs_per_line + write_credits'
  BY <1>3, <1>4, <1>5, <1>6, <1>7, <1>8
<1> QED
  BY <1>1, <1>2, <1>9 DEF NoPanic, Reserve, JustWritten

\* The pages still to copy are finitely many.
LEMMA ToCopyFinite ==
  ASSUME gc \in Ppa
  PROVE  /\ IsFiniteSet(to_copy) /\ Cardinality(to_copy) \in Nat
         /\ to_copy \subseteq pages_of(gc.blk)
<1>1. to_copy \subseteq pages_of(gc.blk) /\ gc.blk \in Line
  BY DEF to_copy, Ppa
<1> QED
  BY <1>1, LinePages, FS_Subset, FS_CardinalityType

\* select_victim_line: what there is to copy and what is gained make up a line.
LEMMA SelectReserve ==
  ASSUME TypeOK, Consistent, LineCounts, Reserve, SelectVictim
  PROVE  NoPanic' /\ Reserve' /\ JustWritten'
<1>1. PICK v \in Line :
        v \in victim_line_pq /\ gc' = line_start(v) /\ credits_to_refill' = ipc[v]
  BY DEF SelectVictim, credits_from, is_min_victim
<1>2. /\ pc = "credit" /\ pc' = "clean" /\ write_credits = 0
      /\ UNCHANGED <<status, free_line_list, wp>>
  BY DEF SelectVictim
<1>3. ~in_gc /\ in_gc' /\ gc'.blk = v
  BY <1>1, <1>2, LineStartPpa DEF in_gc
<1>4. vpc[v] \in Nat /\ ipc[v] \in Nat /\ vpc[v] + ipc[v] = pgs_per_line
  BY <1>1, LineSize DEF Consistent, LineOccupancy, TypeOK
<1>5. Cardinality(to_copy)' \in Nat /\ Cardinality(to_copy)' <= vpc[v]
  <2> DEFINE A == marked(status, v, "VALID")
             B == {p \in pages_of(v) : status[p] = "VALID" /\ ~passed(p)'}
  <2>1. to_copy' = B
    BY <1>2, <1>3 DEF to_copy, pages_of
  <2>2. B \subseteq A /\ A \subseteq pages_of(v)
    BY DEF marked
  <2>3. vpc[v] = Cardinality(A)
    BY <1>3, CountsAre DEF counted
  <2> HIDE DEF A, B
  <2>4. IsFiniteSet(A)
    BY <2>2, LinePages, FS_Subset
  <2>5. IsFiniteSet(B) /\ Cardinality(B) \in Nat /\ Cardinality(B) <= Cardinality(A)
    BY <2>2, <2>4, FS_Subset, FS_CardinalityType
  <2> QED
    BY <2>1, <2>3, <2>5
<1>6. unwritten' = unwritten /\ unwritten \in Nat
  BY <1>2, UnwrittenIs DEF unwritten, rank
<1>7. GC_THRES * pgs_per_line \in Nat /\ unwritten >= GC_THRES * pgs_per_line + 0
  <2>1. GC_THRES \in Nat /\ pgs_per_line \in Nat
    BY GeometryAssumption, LineSize
  <2> QED
    BY <1>2, <1>3, <2>1 DEF Reserve
<1>8. unwritten' + (pgs_per_line - credits_to_refill')
        >= GC_THRES * pgs_per_line + Cardinality(to_copy)'
  BY <1>1, <1>4, <1>5, <1>6, <1>7, LineSize
<1> QED
  BY <1>2, <1>3, <1>8 DEF NoPanic, Reserve, JustWritten

\* clean_one_flashpg: nothing it visits is blank, and the copies it still has to
\* make are covered by what it borrowed, the line it may have to open included.
LEMMA CleanReserve ==
  ASSUME TypeOK, Consistent, PageStates, Reserve, Provisioned, CleanPage
  PROVE  NoPanic' /\ Reserve' /\ JustWritten'
<1>1. /\ pc = "clean" /\ in_gc /\ gc \in Ppa
      /\ "USER_IO" \in IoType /\ "GC_IO" \in IoType
  BY DEF CleanPage, in_gc, TypeOK, IoType
<1>2. ~passed(gc) /\ ~superseded(gc)
  BY <1>1 DEF passed, superseded, Ppa
<1>3. status[gc] \in {"VALID", "INVALID"}
  BY <1>1, <1>2 DEF PageStates, TypeOK
<1>4. PICK m \in Nat : m = pgs_per_line /\ m >= 1
  BY LineSize
<1>5. GC_THRES \in Nat /\ GC_THRES * m \in Nat /\ 2 * m <= GC_THRES * m
  <2>1. GC_THRES \in Nat /\ 2 <= GC_THRES
    BY GeometryAssumption DEF Provisioned
  <2> QED
    BY <1>4, <2>1, LinesOrder
<1>6. credits_to_refill \in 1 .. m
  BY <1>4 DEF Consistent, CreditRange
<1>7. PICK c \in Nat : c = Cardinality(to_copy)
  BY <1>1, ToCopyFinite
<1>8. unwritten \in Nat /\ unwritten + (m - credits_to_refill) >= GC_THRES * m + c
  BY <1>1, <1>4, <1>7, UnwrittenIs DEF Reserve
<1>9. CASE status[gc] = "INVALID"
  <2>1. gc_next_page /\ UNCHANGED <<status, free_line_list, wp, credits_to_refill>>
    BY <1>9 DEF CleanPage, lines, credits
  <2>2. /\ gc'.blk = gc.blk /\ in_gc' /\ pc' \in {"clean", "erase"}
        /\ \A p \in Ppa : p.blk = gc.blk => (passed(p)' <=> passed(p) \/ p = gc)
    BY <1>1, <2>1, GcCursor DEF in_gc
  <2>3. to_copy' = to_copy
    BY <1>9, <2>1, <2>2 DEF to_copy, pages_of
  <2>4. unwritten' = unwritten
    BY <2>1 DEF unwritten, rank
  <2>5. Reserve'
    BY <1>1, <2>1, <2>2, <2>3, <2>4 DEF Reserve
  <2> QED
    BY <2>2, <2>5 DEF NoPanic, JustWritten
<1>10. CASE status[gc] = "VALID"
  <2>1. gc \in to_copy /\ c >= 1
    <3>1. gc \in to_copy
      BY <1>1, <1>2, <1>10 DEF to_copy, pages_of
    <3> QED
      BY <1>1, <1>7, <3>1, ToCopyFinite, FS_EmptySet
  <2>2. rmap[gc] \in Lpn
    BY <1>1, <1>2, <1>10 DEF Consistent, MapInverse
  <2>3. last_pg_in_line(wp["GC_IO"]) => free_line_list # <<>>
    <3> SUFFICES ASSUME last_pg_in_line(wp["GC_IO"]), free_line_list = <<>>
                 PROVE  FALSE
      OBVIOUS
    <3>1. rank(wp["GC_IO"]) = m - 1
      BY <1>1, <1>4, RankStep DEF TypeOK
    <3>2. PICK s \in 1 .. m : s = pgs_per_line - rank(wp["USER_IO"])
      BY <1>1, <1>4, OpenRest
    <3>3. Len(free_line_list) = 0
      OBVIOUS
    <3>4. unwritten = 0 * m + s + (m - (m - 1))
      BY <1>4, <3>1, <3>2, <3>3 DEF unwritten
    <3> QED
      BY <1>4, <1>5, <1>6, <1>8, <2>1, <3>2, <3>4
  <2>4. program_asserts("GC_IO")
    BY <1>1, <2>3, ProgramHolds
  <2>5. program_page(rmap[gc], "GC_IO") /\ gc_next_page /\ UNCHANGED credits_to_refill
    BY <1>10, <2>2, <2>4 DEF CleanPage, credits
  <2>6. /\ gc'.blk = gc.blk /\ in_gc' /\ pc' \in {"clean", "erase"}
        /\ \A p \in Ppa : p.blk = gc.blk => (passed(p)' <=> passed(p) \/ p = gc)
    BY <1>1, <2>5, GcCursor DEF in_gc
  <2>7. \A p \in Ppa : p.blk = gc.blk => status'[p] = status[p]
    <3>1. wp["GC_IO"].blk # gc.blk
      <4>1. open(wp["GC_IO"].blk) /\ collected(gc.blk) /\ wp["GC_IO"].blk \in Line
        BY <1>1 DEF open, collected, TypeOK, Ppa
      <4> QED
        BY <4>1 DEF Consistent, LinePartition
    <3> QED
      BY <1>1, <2>5, <3>1 DEF program_page, TypeOK
  <2>8. to_copy' = to_copy \ {gc}
    BY <2>6, <2>7 DEF to_copy, pages_of
  <2>9. Cardinality(to_copy') = c - 1
    <3>1. PICK T : T = to_copy
      OBVIOUS
    <3>2. IsFiniteSet(T) /\ gc \in T /\ Cardinality(T) = c
      BY <1>1, <1>7, <2>1, <3>1, ToCopyFinite
    <3>3. Cardinality(T \ {gc}) = c - 1
      BY <3>2, FS_RemoveElement
    <3> QED
      BY <2>8, <3>1, <3>3
  <2>10. unwritten' = unwritten - 1
    BY <1>1, <2>2, <2>4, <2>5, UnwrittenStep
  <2>11. Reserve'
    <3>1. unwritten' + (m - credits_to_refill') >= GC_THRES * m + (c - 1)
      BY <1>5, <1>6, <1>8, <2>5, <2>10
    <3> QED
      BY <1>4, <2>6, <2>9, <3>1 DEF Reserve
  <2> QED
    BY <2>6, <2>11 DEF NoPanic, JustWritten
<1> QED
  BY <1>3, <1>9, <1>10

\* mark_block_free erases pages that were passed.
LEMMA EraseReserve ==
  ASSUME TypeOK, Consistent, Reserve, EraseBlock
  PROVE  NoPanic' /\ Reserve' /\ JustWritten'
<1>1. /\ status' = [p \in Ppa |-> IF same_block(p, gc) THEN "FREE" ELSE status[p]]
      /\ UNCHANGED <<free_line_list, wp, credits_to_refill>>
      /\ pc' \in {"clean", "free_line"}
  BY DEF EraseBlock, lines, credits
<1>2. /\ in_gc /\ in_gc' /\ gc'.blk = gc.blk
      /\ \A p \in Ppa : same_block(p, gc) => passed(p)
      /\ \A p \in Ppa : p.blk = gc.blk => (passed(p)' <=> passed(p))
  BY EraseCursor DEF Consistent
<1>3. to_copy' = to_copy
  BY <1>1, <1>2 DEF to_copy, pages_of
<1>4. unwritten' = unwritten
  BY <1>1 DEF unwritten, rank
<1> QED
  BY <1>1, <1>2, <1>3, <1>4 DEF NoPanic, Reserve, JustWritten

\* mark_line_free: the line gained restores the reserve and covers the refill.
LEMMA FreeReserve ==
  ASSUME TypeOK, Consistent, Reserve, FreeLine
  PROVE  NoPanic' /\ Reserve' /\ JustWritten'
<1>1. /\ pc = "free_line" /\ pc' \in {"idle", "invalidate"} /\ refill
      /\ free_line_list' = Append(free_line_list, gc.blk)
      /\ UNCHANGED wp
  BY NextLpnType DEF FreeLine
<1>2. in_gc /\ ~in_gc' /\ gc \in Ppa
  BY <1>1 DEF in_gc, TypeOK
<1>3. PICK m \in Nat : m = pgs_per_line /\ m >= 1
  BY LineSize
<1>4. credits_to_refill \in 1 .. m /\ write_credits = 0
  BY <1>2, <1>3 DEF Consistent, CreditRange
<1>5. write_credits' = credits_to_refill
  <2>1. 0 + credits_to_refill \in 0 .. 2 * pgs_per_line
    BY <1>3, <1>4
  <2> QED
    BY <1>1, <1>4, <2>1, NoWrap DEF refill
<1>6. unwritten' = unwritten + m
  <2>1. PICK n \in Nat : n = Len(free_line_list)
    BY UnwrittenIs
  <2>2. Len(free_line_list') = n + 1
    BY <1>1, <1>2, <2>1 DEF TypeOK, Ppa
  <2>3. (n + 1) * m = n * m + m /\ n * m \in Int
    OBVIOUS
  <2>4. PICK r \in Int : r = pgs_per_line - rank(wp["USER_IO"])
    BY <1>3, OpenRest DEF IoType
  <2>5. PICK s \in Int : s = pgs_per_line - rank(wp["GC_IO"])
    BY <1>3, OpenRest DEF IoType
  <2>6. unwritten = n * m + r + s
    BY <1>3, <2>1, <2>4, <2>5 DEF unwritten
  <2>7. unwritten' = (n + 1) * m + r + s
    BY <1>1, <1>3, <2>2, <2>4, <2>5 DEF unwritten, rank
  <2> QED
    BY <2>3, <2>6, <2>7
<1>7. Cardinality(to_copy) \in Nat
  BY <1>2, ToCopyFinite
<1>8. unwritten \in Nat /\ GC_THRES * m \in Nat
      /\ unwritten + (m - credits_to_refill) >= GC_THRES * m + Cardinality(to_copy)
  BY <1>2, <1>3, UnwrittenIs, GeometryAssumption DEF Reserve
<1>9. unwritten' >= GC_THRES * pgs_per_line + write_credits'
  BY <1>3, <1>4, <1>5, <1>6, <1>7, <1>8
<1> QED
  BY <1>1, <1>2, <1>9 DEF NoPanic, Reserve, JustWritten

\* A step of a provisioned device keeps the reserve and fails no assertion.
LEMMA StepReserve ==
  ASSUME PInv, Provisioned, Next
  PROVE  NoPanic' /\ Reserve' /\ JustWritten'
<1>1. TypeOK /\ Consistent /\ LineCounts /\ PageStates /\ Reserve /\ JustWritten
  BY DEF PInv, IInv
<1>2. CASE WriteBegin
  BY <1>1, <1>2, QuietReserve DEF WriteBegin, in_gc, lines, credits, NoPanic
<1>3. CASE CreditLeft
  <2>1. pc' \in {"idle", "invalidate"}
    BY <1>1, <1>3, NextLpnType DEF CreditLeft
  <2> QED
    BY <1>1, <1>3, <2>1, QuietReserve DEF CreditLeft, in_gc, lines, credits, NoPanic
<1> QED
  BY <1>1, <1>2, <1>3, InvalidateReserve, ProgramUserReserve, RefillReserve,
     SelectReserve, CleanReserve, EraseReserve, FreeReserve DEF Next, Gc

\* On a provisioned device the reserve, the counts, the write order of the pages
\* and IInv hold in every state: together they are inductive.
THEOREM ProvisionedInvariance == Provisioned => (Spec => []PInv)
<1> SUFFICES ASSUME Provisioned PROVE Spec => []PInv
  OBVIOUS
<1>1. Init => PInv
  BY InitIInv, InitPages, InitReserve DEF PInv
<1>2. PInv /\ [Next]_vars => PInv'
  <2> SUFFICES ASSUME PInv, [Next]_vars
               PROVE  PInv'
    OBVIOUS
  <2>1. IInv /\ NoPanic /\ LineCounts /\ PageStates /\ Reserve /\ JustWritten
    BY DEF PInv
  <2>2. IInv'
    BY <2>1, InductiveStep
  <2>3. CASE UNCHANGED vars
    <3>1. LineCounts' /\ PageStates' /\ NoPanic' /\ JustWritten'
      BY <2>1, <2>3 DEF vars, lines, credits, NoPanic, LineCounts, PageStates, in_gc,
                  on_free, passed, rank, JustWritten, mapped_ppa
    <3>2. Reserve'
      BY <2>1, <2>3 DEF vars, lines, credits, Reserve, unwritten, to_copy, pages_of,
                        in_gc, passed, rank
    <3> QED
      BY <2>2, <3>1, <3>2 DEF PInv
  <2>4. CASE Next
    <3>1. NoPanic' /\ Reserve' /\ JustWritten'
      BY <2>4, StepReserve
    <3>2. LineCounts' /\ PageStates'
      BY <2>1, <2>4, <3>1, StepPages DEF IInv
    <3> QED
      BY <2>2, <3>1, <3>2 DEF PInv
  <2> QED
    BY <2>3, <2>4
<1> QED
  BY <1>1, <1>2, PTL DEF Spec

\* On a provisioned device (a threshold of two lines, and a namespace that leaves
\* the threshold and the two open lines to spare) no NVMEV_ASSERT of the write and
\* GC paths ever fails and advance_write_pointer always finds a free line,
\* whatever the geometry and whatever the host writes.
THEOREM NeverPanics == Provisioned => (Spec => []NoPanic)
<1>1. PInv => NoPanic
  BY DEF PInv
<1> QED
  BY <1>1, ProvisionedInvariance, PTL

\* On a provisioned device the mapping, the places of the lines and their counts
\* are right in every state, not only until the first failing assertion.
THEOREM ProvisionedCorrect ==
  Provisioned => (Spec => [](MapInverse /\ LinePartition /\ LineCounts))
<1> SUFFICES ASSUME Provisioned PROVE Spec => [](MapInverse /\ LinePartition /\ LineCounts)
  OBVIOUS
<1>1. Spec => []NoPanic
  BY NeverPanics
<1> QED
  BY <1>1, MappingCorrect, LinesCorrect, CountsCorrect, PTL

-----------------------------------------------------------------------------
(* The pages and their contents.                                           *)

\* Adding the contents of the pages does not change what the FTL may do.
LEMMA StoreIsFtl == StoreSpec => Spec
<1>1. StoreInit => Init
  BY DEF StoreInit
<1>2. [StoreNext]_storeVars => [Next]_vars
  BY DEF StoreNext, Untouched, StoreProgram, StoreClean, StoreErase, Next, Gc, storeVars
<1> QED
  BY <1>1, <1>2, PTL DEF StoreSpec, Spec

\* Every step keeps the type of the page contents.
LEMMA MediaStep ==
  ASSUME TypeOK, MediaOK, StoreNext
  PROVE  MediaOK'
<1>1. CASE Untouched
  BY <1>1 DEF Untouched, MediaOK
<1>2. CASE StoreProgram
  BY <1>2 DEF StoreProgram, MediaOK
<1>3. CASE StoreClean
  <2>1. gc \in Ppa
    BY <1>3 DEF StoreClean, CleanPage, TypeOK, in_gc
  <2> QED
    BY <1>3, <2>1 DEF StoreClean, MediaOK
<1>4. CASE StoreErase
  BY <1>4 DEF StoreErase, MediaOK
<1> QED
  BY <1>1, <1>2, <1>3, <1>4 DEF StoreNext

\* A step that maps every logical page to the same contents does not show.
LEMMA Hidden ==
  ASSUME \A l \in Lpn : contents(l)' = contents(l)
  PROVE  [l \in Lpn |-> contents(l)]' = [l \in Lpn |-> contents(l)]
OBVIOUS

\* Every step is a write of one logical page or does not show.  An erase only
\* hits superseded pages, and a copy lands on the page maptbl is pointed to.
LEMMA StoreStep ==
  ASSUME TypeOK, Consistent, MediaOK, StoreNext
  PROVE  \/ [l \in Lpn |-> contents(l)]' = [l \in Lpn |-> contents(l)]
         \/ \E k \in Lpn : \E v \in Val :
              [l \in Lpn |-> contents(l)]' = [[l \in Lpn |-> contents(l)] EXCEPT ![k] = v]
<1>0. \A l \in Lpn : mapped_ppa(maptbl[l]) => maptbl[l] \in Ppa
  BY DEF TypeOK, mapped_ppa
<1>1. CASE Untouched
  <2>1. maptbl' = maptbl /\ media' = media
    BY <1>1 DEF Untouched, WriteBegin, InvalidateOld, CreditLeft, RefillNoGc, SelectVictim,
                FreeLine, Panic
  <2> QED
    BY <2>1, Hidden DEF contents, mapped_ppa
<1>2. CASE StoreProgram
  <2> DEFINE new == wp["USER_IO"]
  <2>1. CASE ~program_asserts("USER_IO")
    <3>1. maptbl' = maptbl /\ media' = media
      BY <1>2, <2>1 DEF StoreProgram, ProgramUser, Panic
    <3> QED
      BY <3>1, Hidden DEF contents, mapped_ppa
  <2>2. CASE program_asserts("USER_IO")
    <3>1. PICK v \in Val : media' = [media EXCEPT ![new] = v]
      BY <1>2, <2>2 DEF StoreProgram
    <3>2. /\ pc = "program" /\ maptbl' = [maptbl EXCEPT ![req.lpn] = new]
          /\ req.lpn \in Lpn /\ new \in Ppa /\ status[new] = "FREE" /\ new # UNMAPPED_PPA
      BY <1>2, <2>2, GeometryAssumption
      DEF StoreProgram, ProgramUser, program_page, program_asserts, TypeOK, IoType
    <3>3. \A l \in Lpn : contents(l)' = IF l = req.lpn THEN v ELSE contents(l)
      <4> TAKE l \in Lpn
      <4>1. CASE l = req.lpn
        BY <3>1, <3>2, <4>1 DEF contents, mapped_ppa, MediaOK, TypeOK
      <4>2. CASE l # req.lpn
        <5>1. maptbl'[l] = maptbl[l]
          BY <3>2, <4>2 DEF TypeOK
        <5>2. ~being_replaced(l)
          BY <4>2 DEF being_replaced
        <5>3. mapped_ppa(maptbl[l]) => maptbl[l] # new
          BY <3>2, <5>2 DEF Consistent, MapInverse
        <5> QED
          BY <1>0, <3>1, <4>2, <5>1, <5>3 DEF contents, mapped_ppa, MediaOK
      <4> QED
        BY <4>1, <4>2
    <3>4. [l \in Lpn |-> contents(l)]' = [[l \in Lpn |-> contents(l)] EXCEPT ![req.lpn] = v]
      BY <3>2, <3>3
    <3> QED
      BY <3>2, <3>4
  <2> QED
    BY <2>1, <2>2
<1>3. CASE StoreClean
  <2> DEFINE new == wp["GC_IO"]
             lpn == rmap[gc]
  <2>1. /\ pc = "clean" /\ in_gc /\ gc \in Ppa /\ new \in Ppa
    BY <1>3 DEF StoreClean, CleanPage, in_gc, TypeOK, IoType
  <2>2. CASE ~(status[gc] = "VALID" /\ lpn \in Lpn /\ program_asserts("GC_IO"))
    <3>1. media' = media
      BY <1>3, <2>2 DEF StoreClean
    <3>2. maptbl' = maptbl
      BY <1>3, <2>1, <2>2 DEF StoreClean, CleanPage, Panic, TypeOK
    <3> QED
      BY <3>1, <3>2, Hidden DEF contents, mapped_ppa
  <2>3. CASE status[gc] = "VALID" /\ lpn \in Lpn /\ program_asserts("GC_IO")
    <3>1. /\ media' = [media EXCEPT ![new] = media[gc]]
          /\ maptbl' = [maptbl EXCEPT ![lpn] = new]
          /\ status[new] = "FREE" /\ new # UNMAPPED_PPA /\ gc # UNMAPPED_PPA
      BY <1>3, <2>1, <2>3, GeometryAssumption
      DEF StoreClean, CleanPage, program_page, program_asserts
    <3>2. maptbl[lpn] = gc
      <4>1. ~superseded(gc)
        BY <2>1 DEF superseded, passed, Ppa
      <4> QED
        BY <2>1, <2>3, <4>1 DEF Consistent, MapInverse
    <3>3. \A l \in Lpn : contents(l)' = contents(l)
      <4> TAKE l \in Lpn
      <4>1. CASE l = lpn
        BY <2>1, <2>3, <3>1, <3>2, <4>1 DEF contents, mapped_ppa, MediaOK, TypeOK
      <4>2. CASE l # lpn
        <5>1. maptbl'[l] = maptbl[l]
          BY <2>3, <3>1, <4>2 DEF TypeOK
        <5>2. ~being_replaced(l)
          BY <2>1 DEF being_replaced
        <5>3. mapped_ppa(maptbl[l]) => maptbl[l] # new
          BY <3>1, <5>2 DEF Consistent, MapInverse
        <5> QED
          BY <1>0, <3>1, <4>2, <5>1, <5>3 DEF contents, mapped_ppa, MediaOK
      <4> QED
        BY <4>1, <4>2
    <3> QED
      BY <3>3, Hidden
  <2> QED
    BY <2>2, <2>3
<1>4. CASE StoreErase
  <2>1. /\ pc = "erase" /\ gc \in Ppa /\ gc.wl = WLS - 1
        /\ maptbl' = maptbl
        /\ media' = [p \in Ppa |-> IF same_block(p, gc) THEN NoData ELSE media[p]]
    BY <1>4 DEF StoreErase, EraseBlock, TypeOK, in_gc, Consistent, GcErased
  <2>2. \A p \in Ppa : same_block(p, gc) => superseded(p)
    <3> TAKE p \in Ppa
    <3>1. p.wl \in Int /\ p.wl <= WLS - 1 /\ WLS \in Int
      BY GeometryAssumption DEF Ppa
    <3> QED
      BY <2>1, <3>1 DEF same_block, superseded, passed, in_gc
  <2>3. \A l \in Lpn : contents(l)' = contents(l)
    <3> TAKE l \in Lpn
    <3>1. ~being_replaced(l)
      BY <2>1 DEF being_replaced
    <3>2. mapped_ppa(maptbl[l]) => ~same_block(maptbl[l], gc)
      BY <1>0, <2>2, <3>1 DEF Consistent, MapInverse
    <3> QED
      BY <1>0, <2>1, <3>2 DEF contents, mapped_ppa
  <2> QED
    BY <2>3, Hidden
<1> QED
  BY <1>1, <1>2, <1>3, <1>4 DEF StoreNext

\* The FTL and its garbage collector implement an array of logical pages: a read
\* through maptbl finds the data last written, whatever was collected since.
THEOREM Refinement == StoreSpec => ImplementsLogicalStore
<1>1. StoreInit => LS!Init
  BY DEF StoreInit, Init, LS!Init, contents, mapped_ppa
<1>2. StoreSpec => []MediaOK
  <2>1. StoreInit => MediaOK
    BY DEF StoreInit, MediaOK
  <2>2. TypeOK /\ MediaOK /\ [StoreNext]_storeVars => MediaOK'
    BY MediaStep DEF storeVars, MediaOK
  <2> QED
    BY <2>1, <2>2, StoreIsFtl, TypeCorrect, PTL DEF StoreSpec
<1>3. IInv /\ MediaOK /\ [StoreNext]_storeVars
        => [LS!Next]_([l \in Lpn |-> contents(l)])
  <2> SUFFICES ASSUME IInv, MediaOK, [StoreNext]_storeVars
               PROVE  [LS!Next]_([l \in Lpn |-> contents(l)])
    OBVIOUS
  <2>1. CASE UNCHANGED storeVars
    BY <2>1, Hidden DEF storeVars, vars, contents, mapped_ppa
  <2>2. CASE StoreNext
    <3>1. Next
      BY <2>2 DEF StoreNext, Untouched, StoreProgram, StoreClean, StoreErase, Next, Gc
    <3>2. TypeOK /\ Consistent
      BY <3>1, PanicFinal DEF IInv, NoPanic
    <3> QED
      BY <2>2, <3>2, StoreStep DEF LS!Next, LS!Write
  <2> QED
    BY <2>1, <2>2
<1> QED
  BY <1>1, <1>2, <1>3, StoreIsFtl, Invariance, PTL
  DEF StoreSpec, ImplementsLogicalStore, LS!Spec
=============================================================================
