--------------------------- MODULE SsdTimingProofs ---------------------------
(***************************************************************************)
(* The ring of credits of a channel and the times of its LUNs, for any     *)
(* number of entries, credits and LUNs, any latencies and any bounds.      *)
(***************************************************************************)
EXTENDS SsdTiming, WellFoundedInduction, TLAPS

\* The remainder of a number below twice the modulus.
LEMMA ModOnce ==
  ASSUME NEW n \in Nat \ {0}, NEW x \in 0 .. 2 * n - 1
  PROVE  x % n = IF x < n THEN x ELSE x - n
OBVIOUS

\* A set that holds 0 and, with a number below n, its successor, is all of 0 .. n.
LEMMA BoundedInduction ==
  ASSUME NEW n \in Nat, NEW G \in SUBSET (0 .. n), 0 \in G,
         \A i \in 0 .. n - 1 : i \in G => i + 1 \in G
  PROVE  G = 0 .. n
<1> DEFINE F == (0 .. n) \ G
<1>1. SUFFICES ASSUME F # {} PROVE FALSE
  OBVIOUS
<1>2. F \subseteq Nat
  OBVIOUS
<1>3. PICK c \in F : \A d \in F : ~ (<<d, c>> \in OpToRel(<, Nat))
  BY <1>1, <1>2, WFMin, NatLessThanWellFounded
<1>4. c \in 1 .. n /\ c - 1 \in 0 .. n - 1 /\ (c - 1) + 1 = c
  OBVIOUS
<1>5. c - 1 \notin G
  BY <1>4
<1>6. c - 1 \in F /\ c - 1 \in Nat /\ c \in Nat /\ c - 1 < c
  BY <1>4, <1>5
<1>7. <<c - 1, c>> \in OpToRel(<, Nat)
  BY <1>6 DEF OpToRel
<1> QED
  BY <1>3, <1>6, <1>7

\* A number is its quotient and its remainder.
LEMMA DivMod ==
  ASSUME NEW a \in Nat, NEW m \in Nat \ {0}
  PROVE  /\ a \div m \in Nat /\ a % m \in 0 .. m - 1
         /\ a = m * (a \div m) + (a % m)
OBVIOUS

\* A set of natural numbers that is not empty has a smallest element.
LEMMA Smallest ==
  ASSUME NEW S \in SUBSET Nat, S # {}
  PROVE  \E x \in S : \A y \in S : x <= y
<1>1. PICK c \in S : \A d \in S : ~ (<<d, c>> \in OpToRel(<, Nat))
  BY WFMin, NatLessThanWellFounded
<1>2. ASSUME NEW y \in S PROVE c <= y
  <2>1. y \in Nat /\ c \in Nat
    OBVIOUS
  <2>2. ~ (y < c)
    BY <1>1, <2>1 DEF OpToRel
  <2> QED BY <2>1, <2>2
<1> QED
  BY <1>2

Channel == [head : Entry, valid_len : 0 .. NR_CREDIT_ENTRIES, cur_time : 0 .. MAX_CLOCK,
            avail_credits : [Entry -> 0 .. MAX_CREDITS]]

\* the entries of a ring that were not used are full
Full(c) == \A k \in Entry : k >= c.valid_len => c.avail_credits[entry(c, k)] = MAX_CREDITS

\* The ring is in order and was last turned in the past, and the command the
\* channel is working on waits until its LUN is free.
IInv ==
  /\ TypeOK /\ Full(ch) /\ ch.cur_time <= clock
  /\ op # NoOp => op.lun \in Lun /\ next_lun_avail_time[op.lun] <= op.at

-----------------------------------------------------------------------------
(* Positions in the ring.                                                  *)

LEMMA Sizes ==
  /\ NR_CREDIT_ENTRIES \in Nat \ {0} /\ MAX_CREDITS \in Nat \ {0}
  /\ UNIT_TIME_INTERVAL \in Nat \ {0} /\ XFER_LAT \in Nat
  /\ MAX_CLOCK \in Nat \ {0} /\ 0 \in Entry
  /\ Entry = 0 .. NR_CREDIT_ENTRIES - 1
BY TimingAssumption DEF Entry

\* The distance from the head, without the remainder of a negative number.
LEMMA Behind ==
  ASSUME NEW i \in Entry, NEW h \in Entry
  PROVE  /\ behind(i, h) \in Entry
         /\ behind(i, h) = IF i >= h THEN i - h ELSE (i - h) + NR_CREDIT_ENTRIES
<1>1. PICK n, x : n = NR_CREDIT_ENTRIES /\ x = i - h
  OBVIOUS
<1>2. n \in Nat \ {0} /\ x \in Int /\ -n < x /\ x < n
  BY <1>1, Sizes
<1>3. x % n = IF x >= 0 THEN x ELSE x + n
  BY <1>2
<1> QED
  BY <1>1, <1>2, <1>3, Sizes DEF behind

LEMMA EntryAt ==
  ASSUME NEW h \in Entry, NEW k \in 0 .. NR_CREDIT_ENTRIES
  PROVE  /\ (h + k) % NR_CREDIT_ENTRIES \in Entry
         /\ (h + k) % NR_CREDIT_ENTRIES
              = IF h + k < NR_CREDIT_ENTRIES THEN h + k ELSE (h + k) - NR_CREDIT_ENTRIES
<1>1. PICK n, x : n = NR_CREDIT_ENTRIES /\ x = h + k
  OBVIOUS
<1>2. n \in Nat \ {0} /\ x \in 0 .. 2 * n - 1
  BY <1>1, Sizes
<1>3. x % n = IF x < n THEN x ELSE x - n
  BY <1>2, ModOnce
<1> QED
  BY <1>1, <1>2, <1>3, Sizes

\* An entry is found again by its distance from the head.
LEMMA BehindEntry ==
  ASSUME NEW c, c.head \in Entry, NEW k \in Entry
  PROVE  entry(c, k) \in Entry /\ behind(entry(c, k), c.head) = k
<1>1. PICK h \in Entry : h = c.head
  OBVIOUS
<1>2. PICK i : i = entry(c, k)
  OBVIOUS
<1>3. i \in Entry /\ i = IF h + k < NR_CREDIT_ENTRIES THEN h + k ELSE (h + k) - NR_CREDIT_ENTRIES
  <2>1. k \in 0 .. NR_CREDIT_ENTRIES
    BY Sizes
  <2> QED BY <2>1, <1>1, <1>2, EntryAt DEF entry
<1>4. behind(i, h) = IF i >= h THEN i - h ELSE (i - h) + NR_CREDIT_ENTRIES
  BY <1>3, Behind
<1> QED
  BY <1>1, <1>2, <1>3, <1>4, Sizes

LEMMA EntryBehind ==
  ASSUME NEW c, c.head \in Entry, NEW i \in Entry
  PROVE  behind(i, c.head) \in Entry /\ entry(c, behind(i, c.head)) = i
<1>1. PICK h \in Entry : h = c.head
  OBVIOUS
<1>2. PICK k : k = behind(i, h)
  OBVIOUS
<1>3. k \in Entry /\ k = IF i >= h THEN i - h ELSE (i - h) + NR_CREDIT_ENTRIES
  BY <1>2, Behind
<1>4. (h + k) % NR_CREDIT_ENTRIES
        = IF h + k < NR_CREDIT_ENTRIES THEN h + k ELSE (h + k) - NR_CREDIT_ENTRIES
  <2>1. k \in 0 .. NR_CREDIT_ENTRIES
    BY <1>3, Sizes
  <2> QED BY <2>1, EntryAt
<1> QED
  BY <1>1, <1>2, <1>3, <1>4, Sizes DEF entry

-----------------------------------------------------------------------------
(* Turning the ring.                                                       *)

LEMMA SlotsGrowWithTime ==
  ASSUME NEW s \in Nat, NEW t \in Nat, s <= t
  PROVE  slot_of(s) \in Nat /\ slot_of(t) \in Nat /\ slot_of(s) <= slot_of(t)
<1>1. PICK m \in Nat \ {0} : m = UNIT_TIME_INTERVAL
  BY Sizes
<1>2. PICK q1, r1, q2, r2 : q1 = s \div m /\ r1 = s % m /\ q2 = t \div m /\ r2 = t % m
  OBVIOUS
<1>3. q1 \in Nat /\ r1 \in 0 .. m - 1 /\ s = m * q1 + r1
  BY <1>2, DivMod
<1>4. q2 \in Nat /\ r2 \in 0 .. m - 1 /\ t = m * q2 + r2
  BY <1>2, DivMod
<1>5. q1 <= q2
  <2>1. SUFFICES ASSUME q2 + 1 <= q1 PROVE FALSE
    BY <1>3, <1>4
  <2>2. m * (q2 + 1) <= m * q1 /\ m * (q2 + 1) = m * q2 + m
    BY <2>1, <1>3, <1>4
  <2>3. m * q1 \in Nat /\ m * q2 \in Nat
    BY <1>3, <1>4
  <2> QED
    BY <2>2, <2>3, <1>3, <1>4
<1> QED
  BY <1>1, <1>2, <1>3, <1>4, <1>5 DEF slot_of

\* The head stops where nothing was used, and still no entry that holds charges
\* is taken for a free one.
LEMMA TurnedRing ==
  ASSUME NEW c \in Channel, Full(c), NEW now \in 0 .. MAX_CLOCK, c.cur_time <= now
  PROVE  turned(c, now) \in Channel /\ Full(turned(c, now)) /\ turned(c, now).cur_time = now
<1>1. PICK n : n = entries_passed(c, now)
  OBVIOUS
<1>2. c.head \in Entry /\ c.valid_len \in 0 .. NR_CREDIT_ENTRIES
      /\ c.cur_time \in Nat /\ now \in Nat /\ c.avail_credits \in [Entry -> 0 .. MAX_CREDITS]
  BY Sizes DEF Channel
<1>3. n \in 0 .. c.valid_len
  <2>1. slot_of(c.cur_time) \in Nat /\ slot_of(now) \in Nat /\ slot_of(c.cur_time) <= slot_of(now)
    BY <1>2, SlotsGrowWithTime
  <2> QED
    BY <2>1, <1>1, <1>2, Sizes, SMTT(30) DEF entries_passed, at_most
<1>4. PICK t : t = turned(c, now)
  OBVIOUS
<1>5. /\ t = [head |-> (c.head + n) % NR_CREDIT_ENTRIES, cur_time |-> now,
              valid_len |-> c.valid_len - n, avail_credits |-> refilled(c, n)]
  BY <1>1, <1>4 DEF turned
<1>6. n \in 0 .. NR_CREDIT_ENTRIES /\ c.valid_len - n \in 0 .. NR_CREDIT_ENTRIES
  BY <1>2, <1>3, Sizes, SMTT(30)
<1>7. /\ (c.head + n) % NR_CREDIT_ENTRIES \in Entry
      /\ (c.head + n) % NR_CREDIT_ENTRIES
           = IF c.head + n < NR_CREDIT_ENTRIES THEN c.head + n ELSE (c.head + n) - NR_CREDIT_ENTRIES
  BY <1>2, <1>6, EntryAt
<1>8. refilled(c, n) \in [Entry -> 0 .. MAX_CREDITS]
  BY <1>2, Sizes DEF refilled
<1>9. t \in Channel
  BY <1>5, <1>6, <1>7, <1>8 DEF Channel
<1>10. ASSUME NEW k \in Entry, k >= t.valid_len
       PROVE  t.avail_credits[entry(t, k)] = MAX_CREDITS
  <2>1. PICK h, h2 \in Entry : h = c.head /\ h2 = (c.head + n) % NR_CREDIT_ENTRIES
    BY <1>2, <1>7
  <2>2. PICK i \in Entry : i = entry(t, k)
    BY <1>5, <1>7, BehindEntry
  <2>3. i = (h2 + k) % NR_CREDIT_ENTRIES
    BY <2>1, <2>2, <1>5 DEF entry
  <2>4. i = IF h2 + k < NR_CREDIT_ENTRIES THEN h2 + k ELSE (h2 + k) - NR_CREDIT_ENTRIES
    <3>1. k \in 0 .. NR_CREDIT_ENTRIES
      BY Sizes
    <3> QED BY <3>1, <2>1, <2>3, EntryAt
  <2>5. PICK b : b = behind(i, h)
    OBVIOUS
  <2>6. b \in Entry /\ b = IF i >= h THEN i - h ELSE (i - h) + NR_CREDIT_ENTRIES
    BY <2>1, <2>2, <2>5, <1>2, Behind
  <2>7. h \in Entry /\ h2 = IF h + n < NR_CREDIT_ENTRIES THEN h + n ELSE (h + n) - NR_CREDIT_ENTRIES
    BY <2>1, <1>2, <1>7
  <2>8. b = IF n + k < NR_CREDIT_ENTRIES THEN n + k ELSE (n + k) - NR_CREDIT_ENTRIES
    BY <2>4, <2>6, <2>7, <1>6, Sizes
  <2>9. t.avail_credits[i] = IF b < n THEN MAX_CREDITS ELSE c.avail_credits[i]
    BY <2>1, <2>2, <2>5, <1>5 DEF refilled
  <2>10. CASE b < n
    BY <2>10, <2>9, <2>2
  <2>11. CASE ~(b < n)
    <3>1. b >= c.valid_len
      <4>1. k >= c.valid_len - n /\ c.valid_len \in Nat /\ n \in Nat /\ k \in Nat /\ k < NR_CREDIT_ENTRIES
        BY <1>5, <1>10, <1>2, <1>3, Sizes
      <4> QED BY <4>1, <2>8, <2>11, Sizes
    <3>2. entry(c, b) = i
      BY <2>1, <2>5, <1>2, EntryBehind
    <3> QED
      BY <3>1, <3>2, <2>2, <2>6, <2>9, <2>11 DEF Full
  <2> QED
    BY <2>10, <2>11
<1>11. Full(t)
  BY <1>10 DEF Full
<1> QED
  BY <1>4, <1>5, <1>9, <1>11

-----------------------------------------------------------------------------
(* Taking credits.                                                         *)

\* The function that describes the loop over the entries satisfies its definition.
LEMMA MissingLoop ==
  ASSUME NEW c \in Channel, NEW first \in Entry, NEW units \in Nat,
         NEW m, m = missing(c, first, units)
  PROVE  /\ m[first - 1] = units
         /\ \A k \in first .. NR_CREDIT_ENTRIES - 1 :
              m[k] = m[k - 1] - at_most(m[k - 1], c.avail_credits[entry(c, k)])
<1> DEFINE Dom(n) == first - 1 .. (first - 1) + n
           body(g, k) == IF k < first THEN units
                         ELSE g[k - 1] - at_most(g[k - 1], c.avail_credits[entry(c, k)])
           N == NR_CREDIT_ENTRIES - first
           Good == {n \in 0 .. N : \E g : g = [k \in Dom(n) |-> body(g, k)]}
<1>1. first \in Nat /\ N \in Nat /\ NR_CREDIT_ENTRIES \in Nat
      /\ (first - 1) + N = NR_CREDIT_ENTRIES - 1
  BY Sizes
<1>2. 0 \in Good
  <2> DEFINE g == [k \in Dom(0) |-> units]
  <2>1. \A k \in Dom(0) : body(g, k) = units
    BY <1>1
  <2>2. g = [k \in Dom(0) |-> body(g, k)]
    <3> HIDE DEF body
    <3> QED BY <2>1
  <2>3. 0 \in 0 .. N
    BY <1>1
  <2> HIDE DEF body, g, Dom, N
  <2> QED
    BY <2>2, <2>3
<1>3. ASSUME NEW n \in 0 .. N - 1, n \in Good
      PROVE  n + 1 \in Good
  <2>1. PICK g : g = [k \in Dom(n) |-> body(g, k)]
    BY <1>3
  <2>2. /\ \A k \in Dom(n) : k \in Dom(n + 1)
        /\ \A k \in Dom(n + 1) : k < first \/ k - 1 \in Dom(n)
        /\ n + 1 \in 0 .. N
    BY <1>1
  <2> DEFINE h == [k \in Dom(n + 1) |-> body(g, k)]
  <2> HIDE DEF Dom, N
  <2>3. ASSUME NEW k \in Dom(n) PROVE h[k] = g[k]
    <3> HIDE DEF body
    <3>1. h[k] = body(g, k) /\ g[k] = body(g, k)
      BY <2>1, <2>2
    <3> QED BY <3>1
  <2>4. ASSUME NEW k \in Dom(n + 1) PROVE body(h, k) = body(g, k)
    <3>1. CASE k < first
      BY <3>1
    <3>2. CASE ~(k < first)
      <4>1. h[k - 1] = g[k - 1]
        BY <3>2, <2>2, <2>3
      <4> HIDE DEF h
      <4> QED BY <3>2, <4>1
    <3> QED BY <3>1, <3>2
  <2>5. h = [k \in Dom(n + 1) |-> body(h, k)]
    <3> HIDE DEF body
    <3> QED BY <2>4
  <2> HIDE DEF h, body
  <2> QED
    BY <2>2, <2>5
<1>4. Good = 0 .. N
  <2>1. Good \in SUBSET (0 .. N)
    OBVIOUS
  <2> HIDE DEF Good, N
  <2> QED
    BY <1>1, <1>2, <1>3, <2>1, BoundedInduction
<1>5. \E g : g = [k \in first - 1 .. NR_CREDIT_ENTRIES - 1 |-> body(g, k)]
  <2>1. N \in Good
    <3> HIDE DEF Good, N
    <3> QED BY <1>1, <1>4
  <2>2. Dom(N) = first - 1 .. NR_CREDIT_ENTRIES - 1
    BY <1>1
  <2> HIDE DEF body, Dom, N
  <2> QED BY <2>1, <2>2
<1>6. m = CHOOSE g : g = [k \in first - 1 .. NR_CREDIT_ENTRIES - 1 |-> body(g, k)]
  BY DEF missing
<1>7. m = [k \in first - 1 .. NR_CREDIT_ENTRIES - 1 |-> body(m, k)]
  <2> HIDE DEF body
  <2> QED BY <1>5, <1>6
<1>8. \A k \in first - 1 .. NR_CREDIT_ENTRIES - 1 : m[k] = body(m, k)
  <2> HIDE DEF body
  <2> QED BY <1>7
<1>9. m[first - 1] = units
  <2>1. first - 1 \in first - 1 .. NR_CREDIT_ENTRIES - 1 /\ first - 1 < first
    BY <1>1, Sizes
  <2> QED BY <2>1, <1>8
<1>10. ASSUME NEW k \in first .. NR_CREDIT_ENTRIES - 1
       PROVE  m[k] = m[k - 1] - at_most(m[k - 1], c.avail_credits[entry(c, k)])
  <2>1. k \in first - 1 .. NR_CREDIT_ENTRIES - 1 /\ ~(k < first)
    BY <1>1
  <2> QED BY <2>1, <1>8
<1> QED
  BY <1>9, <1>10

\* Each entry gives at most what it has.
LEMMA MissingCredits ==
  ASSUME NEW c \in Channel, NEW first \in Entry, NEW units \in Nat
  PROVE  LET m == missing(c, first, units) IN
         /\ \A k \in first - 1 .. NR_CREDIT_ENTRIES - 1 : m[k] \in Nat
         /\ \A k \in first .. NR_CREDIT_ENTRIES - 1 :
              m[k - 1] - m[k] \in 0 .. c.avail_credits[entry(c, k)]
<1>1. PICK m : m = missing(c, first, units)
  OBVIOUS
<1>2. /\ m[first - 1] = units
      /\ \A k \in first .. NR_CREDIT_ENTRIES - 1 :
           m[k] = m[k - 1] - at_most(m[k - 1], c.avail_credits[entry(c, k)])
  <2>1. m[first - 1] = units
    BY <1>1, MissingLoop
  <2>2. ASSUME NEW k \in first .. NR_CREDIT_ENTRIES - 1
        PROVE  m[k] = m[k - 1] - at_most(m[k - 1], c.avail_credits[entry(c, k)])
    BY <1>1, MissingLoop
  <2> QED BY <2>1, <2>2
<1>3. ASSUME NEW k \in first .. NR_CREDIT_ENTRIES - 1
      PROVE  c.avail_credits[entry(c, k)] \in Nat
  <2>1. k \in Entry /\ c.head \in Entry /\ c.avail_credits \in [Entry -> 0 .. MAX_CREDITS]
    BY Sizes DEF Channel
  <2>2. entry(c, k) \in Entry
    BY <2>1, BehindEntry
  <2> QED BY <2>1, <2>2, Sizes
<1> DEFINE N == NR_CREDIT_ENTRIES - first
           Good == {n \in 0 .. N : m[(first - 1) + n] \in Nat}
<1>4. first \in Nat /\ N \in Nat /\ NR_CREDIT_ENTRIES \in Nat
  BY Sizes
<1>5. 0 \in Good
  BY <1>2, <1>4
<1>6. ASSUME NEW n \in 0 .. N - 1, n \in Good
      PROVE  n + 1 \in Good
  <2>1. PICK k : k = first + n
    OBVIOUS
  <2>2. /\ k \in first .. NR_CREDIT_ENTRIES - 1 /\ k - 1 = (first - 1) + n
        /\ k = (first - 1) + (n + 1) /\ n + 1 \in 0 .. N
    BY <2>1, <1>4
  <2>3. m[k - 1] \in Nat /\ c.avail_credits[entry(c, k)] \in Nat
    BY <1>6, <2>2, <1>3
  <2>4. m[k] = m[k - 1] - at_most(m[k - 1], c.avail_credits[entry(c, k)])
    BY <1>2, <2>2
  <2>5. m[k] \in Nat
    BY <2>3, <2>4 DEF at_most
  <2> HIDE DEF N
  <2> QED
    BY <2>2, <2>5
<1>7. Good = 0 .. N
  <2>1. Good \in SUBSET (0 .. N)
    OBVIOUS
  <2> HIDE DEF Good, N
  <2> QED BY <1>4, <1>5, <1>6, <2>1, BoundedInduction
<1>8. ASSUME NEW k \in first - 1 .. NR_CREDIT_ENTRIES - 1
      PROVE  m[k] \in Nat
  <2>1. PICK n : n = k - (first - 1)
    OBVIOUS
  <2>2. n \in 0 .. N /\ (first - 1) + n = k
    BY <2>1, <1>4
  <2>3. n \in Good
    <3> HIDE DEF Good, N
    <3> QED BY <2>2, <1>7
  <2> QED BY <2>2, <2>3
<1>9. ASSUME NEW k \in first .. NR_CREDIT_ENTRIES - 1
      PROVE  m[k - 1] - m[k] \in 0 .. c.avail_credits[entry(c, k)]
  <2>1. k \in first - 1 .. NR_CREDIT_ENTRIES - 1 /\ k - 1 \in first - 1 .. NR_CREDIT_ENTRIES - 1
    BY <1>4
  <2>2. m[k] \in Nat /\ m[k - 1] \in Nat /\ c.avail_credits[entry(c, k)] \in Nat
    BY <2>1, <1>3, <1>8
  <2>3. m[k] = m[k - 1] - at_most(m[k - 1], c.avail_credits[entry(c, k)])
    BY <1>2
  <2> QED
    BY <2>2, <2>3 DEF at_most
<1> QED
  BY <1>1, <1>8, <1>9

\* A request overbooks no entry, and marks every entry it charges as used.
LEMMA ConsumedRing ==
  ASSUME NEW c \in Channel, Full(c), NEW first \in Entry, NEW units \in Nat
  PROVE  LET r == consume(c, first, units) IN
         /\ r.ch \in Channel /\ Full(r.ch) /\ r.ch.cur_time = c.cur_time
         /\ r.delay \in Nat
<1>1. PICK m : m = missing(c, first, units)
  OBVIOUS
<1>2. PICK served : served = {k \in first .. NR_CREDIT_ENTRIES - 1 : m[k] = 0}
  OBVIOUS
<1>3. PICK end : end = IF served = {} THEN NR_CREDIT_ENTRIES - 1 ELSE Min(served)
  OBVIOUS
<1>4. /\ c.head \in Entry /\ c.valid_len \in 0 .. NR_CREDIT_ENTRIES
      /\ c.avail_credits \in [Entry -> 0 .. MAX_CREDITS]
      /\ first \in Nat /\ first <= NR_CREDIT_ENTRIES - 1
  BY Sizes DEF Channel
<1>5. end \in first .. NR_CREDIT_ENTRIES - 1
  <2>1. CASE served = {}
    BY <2>1, <1>3, <1>4, Sizes
  <2>2. CASE served # {}
    <3>1. served \in SUBSET Nat
      BY <1>2, <1>4, Sizes
    <3>2. \E x \in served : \A y \in served : x <= y
      BY <3>1, <2>2, Smallest
    <3>3. Min(served) \in served
      BY <3>2 DEF Min
    <3> QED
      BY <3>3, <2>2, <1>2, <1>3
  <2> QED
    BY <2>1, <2>2
<1> DEFINE tk(k) == IF k \in first .. end THEN m[k - 1] - m[k] ELSE 0
           av == [i \in Entry |-> c.avail_credits[i] - tk(behind(i, c.head))]
           vl == later(end + 1, c.valid_len)
           c2 == [c EXCEPT !.valid_len = vl, !.avail_credits = av]
<1>6. consume(c, first, units) = [delay |-> end - first, ch |-> c2]
  BY <1>1, <1>2, <1>3, <1>4 DEF consume, valid_length
<1>7. ASSUME NEW k \in Entry
      PROVE  tk(k) \in 0 .. c.avail_credits[entry(c, k)] /\ (k > end => tk(k) = 0)
  <2>1. entry(c, k) \in Entry /\ c.avail_credits[entry(c, k)] \in Nat
    <3>1. entry(c, k) \in Entry
      BY <1>4, BehindEntry
    <3>2. \A i \in Entry : c.avail_credits[i] \in Nat
      BY <1>4, Sizes
    <3> QED BY <3>1, <3>2
  <2>2. CASE k \in first .. end
    <3>1. k \in first .. NR_CREDIT_ENTRIES - 1
      BY <2>2, <1>4, <1>5, Sizes
    <3>2. m[k - 1] - m[k] \in 0 .. c.avail_credits[entry(c, k)]
      BY <3>1, <1>1, MissingCredits
    <3> QED
      BY <3>2, <2>2, <1>4, <1>5, Sizes
  <2>3. CASE k \notin first .. end
    BY <2>1, <2>3
  <2> QED BY <2>2, <2>3
<1>8. ASSUME NEW i \in Entry
      PROVE  /\ av[i] \in 0 .. MAX_CREDITS
             /\ behind(i, c.head) > end => av[i] = c.avail_credits[i]
  <2>1. PICK k \in Entry : k = behind(i, c.head) /\ entry(c, k) = i
    BY <1>4, EntryBehind
  <2>2. PICK x : x = tk(k)
    OBVIOUS
  <2>3. x \in 0 .. c.avail_credits[i] /\ (k > end => x = 0)
    BY <2>1, <2>2, <1>7
  <2>4. av[i] = c.avail_credits[i] - x
    BY <2>1, <2>2
  <2>5. c.avail_credits[i] \in 0 .. MAX_CREDITS
    BY <1>4
  <2> HIDE DEF av
  <2> QED
    BY <2>1, <2>3, <2>4, <2>5, Sizes
<1> HIDE DEF tk
<1>9. av \in [Entry -> 0 .. MAX_CREDITS]
  BY <1>8
<1>10. vl \in 0 .. NR_CREDIT_ENTRIES /\ end < vl /\ c.valid_len <= vl
  <2>1. PICK n \in Nat : n = NR_CREDIT_ENTRIES
    BY Sizes
  <2>2. c.valid_len \in 0 .. n /\ end \in first .. n - 1 /\ first \in Nat
    BY <2>1, <1>4, <1>5
  <2> QED
    BY <2>1, <2>2 DEF later
<1> HIDE DEF av, vl
<1>11. /\ c2 \in Channel /\ c2.head = c.head /\ c2.valid_len = vl
       /\ c2.avail_credits = av /\ c2.cur_time = c.cur_time
  BY <1>9, <1>10 DEF Channel
<1> HIDE DEF c2
<1>12. Full(c2)
  <2> SUFFICES ASSUME NEW k \in Entry, k >= c2.valid_len
               PROVE  c2.avail_credits[entry(c2, k)] = MAX_CREDITS
    BY DEF Full
  <2>1. entry(c2, k) = entry(c, k)
    BY <1>11 DEF entry
  <2>2. entry(c, k) \in Entry /\ behind(entry(c, k), c.head) = k
    BY <1>4, BehindEntry
  <2>3. k > end /\ k >= c.valid_len
    BY <1>4, <1>5, <1>10, <1>11, Sizes
  <2>4. c.avail_credits[entry(c, k)] = MAX_CREDITS
    BY <2>3 DEF Full
  <2> QED
    BY <2>1, <2>2, <2>3, <2>4, <1>8, <1>11
<1>13. end - first \in Nat
  BY <1>4, <1>5, Sizes
<1> QED
  BY <1>6, <1>11, <1>12, <1>13

\* A call of chmodel_request keeps the ring in order, and never answers with a time
\* before the one it was given.
LEMMA RequestServed ==
  ASSUME NEW c \in Channel, Full(c), NEW now \in 0 .. MAX_CLOCK, c.cur_time <= now,
         NEW at \in Nat, NEW units \in Nat
  PROVE  LET r == chmodel_request(c, now, at, units) IN
         /\ r.ch \in Channel /\ Full(r.ch) /\ r.ch.cur_time = now
         /\ r.ret \in Nat /\ r.ret >= at
<1>1. PICK t : t = turned(c, now)
  OBVIOUS
<1>2. PICK first : first = slots_ahead(at, now)
  OBVIOUS
<1>3. PICK d : d = consume(t, first, units)
  OBVIOUS
<1>4. PICK usual : usual = units \div MAX_CREDITS
  OBVIOUS
<1>5. PICK delay : delay = IF d.delay > usual THEN d.delay - usual ELSE 0
  OBVIOUS
<1>6. t \in Channel /\ Full(t) /\ t.cur_time = now
  BY <1>1, TurnedRing
<1>7. chmodel_request(c, now, at, units)
        = IF at < now \/ first >= NR_CREDIT_ENTRIES THEN [ch |-> t, ret |-> at]
          ELSE [ch |-> d.ch, ret |-> at + XFER_LAT * units + delay * UNIT_TIME_INTERVAL]
  BY <1>1, <1>2, <1>3, <1>4, <1>5 DEF chmodel_request
<1>8. CASE at < now \/ first >= NR_CREDIT_ENTRIES
  BY <1>6, <1>7, <1>8
<1>9. CASE ~(at < now \/ first >= NR_CREDIT_ENTRIES)
  <2>1. now \in Nat /\ now <= at
    BY <1>9, Sizes
  <2>2. slot_of(now) \in Nat /\ slot_of(at) \in Nat /\ slot_of(now) <= slot_of(at)
    BY <2>1, SlotsGrowWithTime
  <2>3. first \in Entry
    BY <2>2, <1>2, <1>9, Sizes DEF slots_ahead
  <2>4. d.ch \in Channel /\ Full(d.ch) /\ d.ch.cur_time = now /\ d.delay \in Nat
    BY <2>3, <1>3, <1>6, ConsumedRing
  <2>5. usual \in Nat
    BY <1>4, DivMod, Sizes
  <2>6. delay \in Nat
    BY <2>4, <2>5, <1>5
  <2>7. XFER_LAT * units \in Nat /\ delay * UNIT_TIME_INTERVAL \in Nat
    BY <2>6, Sizes
  <2>8. PICK x : x = at + XFER_LAT * units + delay * UNIT_TIME_INTERVAL
    OBVIOUS
  <2>9. x \in Nat /\ x >= at
    BY <2>7, <2>8
  <2> QED
    BY <2>4, <2>8, <2>9, <1>7, <1>9
<1> QED
  BY <1>8, <1>9

-----------------------------------------------------------------------------
(* Commands.                                                               *)

LEMMA Types ==
  ASSUME TypeOK
  PROVE  /\ clock \in 1 .. MAX_CLOCK /\ clock \in Nat /\ clock \in 0 .. MAX_CLOCK
         /\ ch \in Channel
         /\ next_lun_avail_time \in [Lun -> Nat]
         /\ op.at \in Nat /\ op.left \in Nat
<1>1. ch \in Channel
  BY DEF TypeOK, Channel
<1>2. clock \in 1 .. MAX_CLOCK /\ next_lun_avail_time \in [Lun -> Nat]
  BY DEF TypeOK
<1>3. op \in [lun : Lun \union {"none"}, at : Nat, left : Nat]
  BY DEF TypeOK
<1>4. op.at \in Nat /\ op.left \in Nat
  BY <1>3
<1>5. clock \in Nat /\ clock \in 0 .. MAX_CLOCK
  BY <1>2, Sizes
<1> QED
  BY <1>1, <1>2, <1>4, <1>5

\* A command starts when its LUN is free.
LEMMA StartsLater ==
  ASSUME TypeOK, NEW n \in Lun, NEW stime \in stimes
  PROVE  starts(n, stime) \in Nat /\ next_lun_avail_time[n] <= starts(n, stime)
<1>1. stime \in Nat /\ clock \in Nat
  BY Types, TimingAssumption DEF stimes
<1>2. next_lun_avail_time[n] \in Nat
  BY Types
<1> QED
  BY <1>1, <1>2 DEF starts, later

LEMMA NoRequestType == NoRequest \in [now : 0 .. MAX_CLOCK, at : Nat, units : Nat, ret : Nat]
BY Sizes DEF NoRequest

\* What a call made by the dispatcher does to the ring and to the record of it.
LEMMA Requested ==
  ASSUME IInv, NEW at \in Nat, NEW units \in Nat, NEW r,
         r = chmodel_request(ch, clock, at, units), request(at, units, r)
  PROVE  /\ ch' \in Channel /\ Full(ch') /\ ch'.cur_time = clock
         /\ r.ret \in Nat /\ at <= r.ret
         /\ last' \in [now : 0 .. MAX_CLOCK, at : Nat, units : Nat, ret : Nat]
         /\ last'.at = at /\ last'.ret = r.ret
<1>1. ch \in Channel /\ Full(ch) /\ clock \in 0 .. MAX_CLOCK /\ ch.cur_time <= clock
  BY Types DEF IInv
<1>2. /\ r.ch \in Channel /\ Full(r.ch) /\ r.ch.cur_time = clock
      /\ r.ret \in Nat /\ r.ret >= at
  BY <1>1, RequestServed
<1>3. ch' = r.ch /\ last' = [now |-> clock, at |-> at, units |-> units, ret |-> r.ret]
  BY DEF request
<1> QED
  BY <1>1, <1>2, <1>3

\* no LUN is given two things to do at a time
Exclusive ==
  \A n \in Lun :
    LET before == next_lun_avail_time[n]
        next == next_lun_avail_time'[n]
    IN  /\ next >= before
        /\ next # before /\ last' # NoRequest => before <= last'.at /\ last'.ret <= next

LEMMA InitInv == Init => IInv
<1> SUFFICES ASSUME Init PROVE IInv
  OBVIOUS
<1>1. empty_channel \in Channel /\ empty_channel.cur_time = 0
  BY Sizes DEF empty_channel, Channel
<1>2. Full(empty_channel)
  <2>1. \A k \in Entry : entry(empty_channel, k) \in Entry
    BY <1>1, BehindEntry DEF Channel
  <2> QED
    BY <2>1 DEF Full, empty_channel
<1>3. TypeOK
  BY <1>1, NoRequestType, Sizes DEF Init, TypeOK, NoOp, Channel
<1> QED
  BY <1>1, <1>2, <1>3, Sizes DEF Init, IInv

LEMMA TickStep ==
  ASSUME IInv, Tick
  PROVE  IInv' /\ Exclusive
<1>1. /\ clock' = clock + 1 /\ clock < MAX_CLOCK /\ last' = NoRequest
      /\ UNCHANGED <<ch, next_lun_avail_time, op>>
  BY DEF Tick, quiet
<1>2. clock \in 1 .. MAX_CLOCK /\ ch \in Channel /\ next_lun_avail_time \in [Lun -> Nat]
  BY Types DEF IInv
<1>3. clock' \in 1 .. MAX_CLOCK
  BY <1>1, <1>2, Sizes
<1>4. TypeOK'
  BY <1>1, <1>3, NoRequestType DEF IInv, TypeOK
<1>5. ch'.cur_time <= clock'
  <2>1. ch.cur_time \in Nat /\ ch.cur_time <= clock
    BY <1>2, Sizes DEF IInv, Channel
  <2> QED BY <2>1, <1>1, <1>2
<1>6. Exclusive
  BY <1>1, <1>2 DEF Exclusive
<1> QED
  BY <1>1, <1>4, <1>5, <1>6 DEF IInv

LEMMA ReadBeginStep ==
  ASSUME IInv, NEW n \in Lun, NEW stime \in stimes, NEW size \in Size, NEW lat \in RD_LATS,
         ReadBegin(n, stime, size, lat)
  PROVE  IInv' /\ Exclusive
<1>1. PICK s : s = starts(n, stime)
  OBVIOUS
<1>2. s \in Nat /\ next_lun_avail_time[n] <= s /\ next_lun_avail_time \in [Lun -> Nat]
  BY <1>1, StartsLater, Types DEF IInv
<1>3. lat \in Nat /\ size \in Nat
  BY TimingAssumption
<1>4. /\ op' = [lun |-> n, at |-> s + lat, left |-> size] /\ last' = NoRequest
      /\ UNCHANGED <<clock, ch, next_lun_avail_time>>
  BY <1>1 DEF ReadBegin, quiet
<1>5. TypeOK'
  BY <1>2, <1>3, <1>4, NoRequestType DEF IInv, TypeOK
<1>6. op'.lun = n /\ op'.at = s + lat /\ next_lun_avail_time[n] \in Nat
  BY <1>2, <1>4
<1>7. next_lun_avail_time'[op'.lun] <= op'.at
  BY <1>2, <1>3, <1>4, <1>6
<1>8. Exclusive
  BY <1>2, <1>4 DEF Exclusive
<1> QED
  BY <1>4, <1>5, <1>6, <1>7, <1>8 DEF IInv

LEMMA ProgramStep ==
  ASSUME IInv, NEW n \in Lun, NEW stime \in stimes, NEW size \in Size, Program(n, stime, size)
  PROVE  IInv' /\ Exclusive
<1>1. PICK at : at = starts(n, stime)
  OBVIOUS
<1>2. at \in Nat /\ next_lun_avail_time[n] <= at /\ next_lun_avail_time \in [Lun -> Nat]
      /\ clock \in Nat
  BY <1>1, StartsLater, Types DEF IInv
<1>3. size \in Nat /\ PG_WR_LAT \in Nat
  BY TimingAssumption
<1>4. PICK r : r = chmodel_request(ch, clock, at, size)
  OBVIOUS
<1>5. /\ request(at, size, r) /\ op = NoOp
      /\ next_lun_avail_time' = [next_lun_avail_time EXCEPT ![n] = r.ret + PG_WR_LAT]
      /\ UNCHANGED <<clock, op>>
  BY <1>1, <1>4 DEF Program
<1>6. /\ ch' \in Channel /\ Full(ch') /\ ch'.cur_time = clock
      /\ r.ret \in Nat /\ at <= r.ret
      /\ last' \in [now : 0 .. MAX_CLOCK, at : Nat, units : Nat, ret : Nat]
      /\ last'.at = at /\ last'.ret = r.ret
  BY <1>2, <1>3, <1>4, <1>5, Requested
<1>7. next_lun_avail_time' \in [Lun -> Nat]
  BY <1>2, <1>3, <1>5, <1>6
<1>8. TypeOK'
  BY <1>5, <1>6, <1>7 DEF IInv, TypeOK, Channel
<1>9. Exclusive
  <2> SUFFICES ASSUME NEW l \in Lun
               PROVE  /\ next_lun_avail_time'[l] >= next_lun_avail_time[l]
                      /\ next_lun_avail_time'[l] # next_lun_avail_time[l]
                           => /\ next_lun_avail_time[l] <= last'.at
                              /\ last'.ret <= next_lun_avail_time'[l]
    BY DEF Exclusive
  <2>1. next_lun_avail_time'[l] = IF l = n THEN r.ret + PG_WR_LAT ELSE next_lun_avail_time[l]
    BY <1>2, <1>5
  <2>2. next_lun_avail_time[l] \in Nat
    BY <1>2
  <2> QED
    BY <2>1, <2>2, <1>2, <1>3, <1>6
<1>10. ch'.cur_time <= clock'
  BY <1>2, <1>5, <1>6
<1> QED
  BY <1>5, <1>6, <1>8, <1>9, <1>10 DEF IInv

LEMMA OccupyStep ==
  ASSUME IInv, NEW n \in Lun, NEW stime \in stimes, NEW lat \in Nat, Occupy(n, stime, lat)
  PROVE  IInv' /\ Exclusive
<1>1. PICK s : s = starts(n, stime)
  OBVIOUS
<1>2. s \in Nat /\ next_lun_avail_time[n] <= s /\ next_lun_avail_time \in [Lun -> Nat]
  BY <1>1, StartsLater, Types DEF IInv
<1>3. /\ next_lun_avail_time' = [next_lun_avail_time EXCEPT ![n] = s + lat]
      /\ op = NoOp /\ last' = NoRequest /\ UNCHANGED <<clock, ch, op>>
  BY <1>1 DEF Occupy, quiet
<1>4. next_lun_avail_time' \in [Lun -> Nat]
  BY <1>2, <1>3
<1>5. TypeOK'
  BY <1>3, <1>4, NoRequestType DEF IInv, TypeOK
<1>6. Exclusive
  <2> SUFFICES ASSUME NEW l \in Lun
               PROVE  next_lun_avail_time'[l] >= next_lun_avail_time[l]
    BY <1>3 DEF Exclusive
  <2>1. next_lun_avail_time'[l] = IF l = n THEN s + lat ELSE next_lun_avail_time[l]
    BY <1>2, <1>3
  <2>2. next_lun_avail_time[l] \in Nat
    BY <1>2
  <2> QED
    BY <2>1, <2>2, <1>2
<1> QED
  BY <1>3, <1>5, <1>6 DEF IInv

LEMMA ReadTransferStep ==
  ASSUME IInv, ReadTransfer
  PROVE  IInv' /\ Exclusive
<1>1. PICK x : x = at_most(op.left, MAX_CH_XFER_SIZE)
  OBVIOUS
<1>2. /\ op # NoOp /\ op.lun \in Lun /\ next_lun_avail_time[op.lun] <= op.at
      /\ op.at \in Nat /\ op.left \in Nat /\ next_lun_avail_time \in [Lun -> Nat] /\ clock \in Nat
      /\ op \in [lun : Lun \union {"none"}, at : Nat, left : Nat]
  BY Types DEF IInv, ReadTransfer, TypeOK
<1>3. x \in Nat /\ x <= op.left
  BY <1>1, <1>2, TimingAssumption DEF at_most
<1>4. PICK r : r = chmodel_request(ch, clock, op.at, x)
  OBVIOUS
<1>5. /\ request(op.at, x, r) /\ UNCHANGED clock
      /\ IF x < op.left
         THEN /\ op' = [op EXCEPT !.at = r.ret, !.left = @ - x]
              /\ UNCHANGED next_lun_avail_time
         ELSE /\ op' = NoOp
              /\ next_lun_avail_time' = [next_lun_avail_time EXCEPT ![op.lun] = r.ret]
  BY <1>1, <1>4 DEF ReadTransfer
<1>6. /\ ch' \in Channel /\ Full(ch') /\ ch'.cur_time = clock
      /\ r.ret \in Nat /\ op.at <= r.ret
      /\ last' \in [now : 0 .. MAX_CLOCK, at : Nat, units : Nat, ret : Nat]
      /\ last'.at = op.at /\ last'.ret = r.ret
  BY <1>2, <1>3, <1>4, <1>5, Requested
<1>7. ch'.cur_time <= clock' /\ clock' \in 1 .. MAX_CLOCK
  BY <1>2, <1>5, <1>6 DEF IInv, TypeOK
<1>8. CASE x < op.left
  <2>1. op' = [op EXCEPT !.at = r.ret, !.left = @ - x] /\ UNCHANGED next_lun_avail_time
    BY <1>5, <1>8
  <2>2. /\ op' \in [lun : Lun \union {"none"}, at : Nat, left : Nat]
        /\ op'.lun = op.lun /\ op'.at = r.ret
    <3>1. op.left - x \in Nat
      BY <1>2, <1>3
    <3>2. op' = [op EXCEPT !.at = r.ret, !.left = op.left - x]
      BY <2>1
    <3> QED
      BY <3>1, <3>2, <1>2, <1>6
  <2>3. TypeOK'
    BY <2>1, <2>2, <1>2, <1>6, <1>7 DEF TypeOK, Channel
  <2>4. next_lun_avail_time'[op'.lun] <= op'.at
    <3>1. next_lun_avail_time[op.lun] \in Nat
      BY <1>2
    <3> QED BY <3>1, <2>1, <2>2, <1>2, <1>6
  <2>5. Exclusive
    BY <2>1, <1>2 DEF Exclusive
  <2> QED
    BY <2>2, <2>3, <2>4, <2>5, <1>2, <1>6, <1>7 DEF IInv
<1>9. CASE ~(x < op.left)
  <2>1. op' = NoOp /\ next_lun_avail_time' = [next_lun_avail_time EXCEPT ![op.lun] = r.ret]
    BY <1>5, <1>9
  <2>2. next_lun_avail_time' \in [Lun -> Nat] /\ NoOp \in [lun : Lun \union {"none"}, at : Nat, left : Nat]
    BY <2>1, <1>2, <1>6 DEF NoOp
  <2>3. TypeOK'
    BY <2>1, <2>2, <1>6, <1>7 DEF TypeOK, Channel
  <2>4. Exclusive
    <3> SUFFICES ASSUME NEW l \in Lun
                 PROVE  /\ next_lun_avail_time'[l] >= next_lun_avail_time[l]
                        /\ next_lun_avail_time'[l] # next_lun_avail_time[l]
                             => /\ next_lun_avail_time[l] <= last'.at
                                /\ last'.ret <= next_lun_avail_time'[l]
      BY DEF Exclusive
    <3>1. next_lun_avail_time'[l] = IF l = op.lun THEN r.ret ELSE next_lun_avail_time[l]
      BY <2>1, <1>2
    <3>2. next_lun_avail_time[l] \in Nat
      BY <1>2
    <3> QED
      BY <3>1, <3>2, <1>2, <1>6
  <2> QED
    BY <2>1, <2>3, <2>4, <1>6, <1>7 DEF IInv
<1> QED
  BY <1>8, <1>9

LEMMA NextStep ==
  ASSUME IInv, [Next]_vars
  PROVE  IInv' /\ [Exclusive]_vars
<1>1. CASE Tick
  BY <1>1, TickStep
<1>2. CASE ReadTransfer
  BY <1>2, ReadTransferStep
<1>3. ASSUME NEW n \in free_luns, NEW stime \in stimes,
             \/ \E size \in Size, lat \in RD_LATS : ReadBegin(n, stime, size, lat)
             \/ \E size \in Size : Program(n, stime, size)
             \/ Erase(n, stime)
             \/ Nop(n, stime)
      PROVE  IInv' /\ Exclusive
  <2>1. n \in Lun
    BY DEF free_luns
  <2>2. BLK_ER_LAT \in Nat /\ 0 \in Nat
    BY TimingAssumption
  <2>3. ASSUME NEW size \in Size, NEW lat \in RD_LATS, ReadBegin(n, stime, size, lat)
        PROVE  IInv' /\ Exclusive
    BY <2>1, <2>3, ReadBeginStep
  <2>4. ASSUME NEW size \in Size, Program(n, stime, size)
        PROVE  IInv' /\ Exclusive
    BY <2>1, <2>4, ProgramStep
  <2>5. CASE Erase(n, stime)
    BY <2>1, <2>2, <2>5, OccupyStep DEF Erase
  <2>6. CASE Nop(n, stime)
    BY <2>1, <2>2, <2>6, OccupyStep DEF Nop
  <2> QED
    BY <1>3, <2>3, <2>4, <2>5, <2>6
<1>4. CASE UNCHANGED vars
  BY <1>4 DEF vars, IInv, TypeOK, Full, entry
<1> QED
  BY <1>1, <1>2, <1>3, <1>4 DEF Next, Nand, End

LEMMA Invariance == Spec => []IInv
<1>1. IInv /\ [Next]_vars => IInv'
  BY NextStep
<1> QED
  BY InitInv, <1>1, PTL DEF Spec

\* The ring of credits is never overbooked, and an entry beyond valid_len is full:
\* the head may stop there although more time has passed, whatever the size of the
\* ring and however long the channel was idle.
THEOREM RingIsSound == Spec => []UntouchedIsFull
<1>1. IInv => UntouchedIsFull
  BY DEF IInv, UntouchedIsFull, Full
<1> QED
  BY Invariance, <1>1, PTL

\* A LUN does one thing at a time: the time at which it is free again never moves
\* back, and a transfer lies between the command before it and its own end.
THEOREM LunsAreExclusive == Spec => LunExclusive
<1>1. IInv /\ [Next]_vars => [Exclusive]_vars
  BY NextStep
<1>2. Spec => [][Exclusive]_vars
  BY Invariance, <1>1, PTL DEF Spec
<1> QED
  BY <1>2 DEF LunExclusive, Exclusive

-----------------------------------------------------------------------------
(* The ring as a schedule of time slots.                                   *)

\* the credits taken from slot s of a channel
charged(c, s) ==
  LET k == s - slot_of(c.cur_time) IN
  IF k \in Entry THEN MAX_CREDITS - c.avail_credits[entry(c, k)] ELSE 0

LEMMA ChargedRange ==
  ASSUME NEW c \in Channel, NEW s
  PROVE  charged(c, s) \in 0 .. MAX_CREDITS
<1>1. PICK k : k = s - slot_of(c.cur_time)
  OBVIOUS
<1>2. CASE k \in Entry
  <2>1. c.head \in Entry /\ c.avail_credits \in [Entry -> 0 .. MAX_CREDITS]
    BY DEF Channel
  <2>2. entry(c, k) \in Entry
    BY <1>2, <2>1, BehindEntry
  <2>3. PICK a \in 0 .. MAX_CREDITS : a = c.avail_credits[entry(c, k)]
    BY <2>1, <2>2
  <2>4. charged(c, s) = MAX_CREDITS - a
    BY <1>1, <1>2, <2>3 DEF charged
  <2> QED BY <2>3, <2>4, Sizes
<1>3. CASE k \notin Entry
  BY <1>1, <1>3, Sizes DEF charged
<1> QED
  BY <1>2, <1>3

\* Turning the ring forgets the past and nothing else.
LEMMA TurnedCharges ==
  ASSUME NEW c \in Channel, Full(c), NEW now \in 0 .. MAX_CLOCK, c.cur_time <= now, NEW s \in Nat
  PROVE  charged(turned(c, now), s) = IF s < slot_of(now) THEN 0 ELSE charged(c, s)
<1>1. PICK n, t, N, M : n = entries_passed(c, now) /\ t = turned(c, now)
                        /\ N = NR_CREDIT_ENTRIES /\ M = MAX_CREDITS
  OBVIOUS
<1>2. PICK h, v, a, x : h = c.head /\ v = c.valid_len /\ a = slot_of(c.cur_time) /\ x = slot_of(now)
  OBVIOUS
<1>3. /\ N \in Nat \ {0} /\ Entry = 0 .. N - 1 /\ h \in Entry /\ v \in 0 .. N
      /\ a \in Nat /\ x \in Nat /\ a <= x
  <2>1. c.cur_time \in Nat /\ now \in Nat
    BY Sizes DEF Channel
  <2>2. a \in Nat /\ x \in Nat /\ a <= x
    BY <1>2, <2>1, SlotsGrowWithTime
  <2> QED BY <1>1, <1>2, <2>2, Sizes DEF Channel
<1>4. n \in 0 .. v /\ n <= x - a /\ (n = x - a \/ n = v)
  <2>1. n = IF x - a < v THEN x - a ELSE v
    BY <1>1, <1>2 DEF entries_passed, at_most
  <2> QED BY <1>3, <2>1
<1>5. t \in Channel /\ Full(t) /\ t.cur_time = now
  BY <1>1, TurnedRing
<1>6. t = [head |-> (h + n) % N, cur_time |-> now, valid_len |-> v - n, avail_credits |-> refilled(c, n)]
  BY <1>1, <1>2 DEF turned
<1>7. t.head = (h + n) % N /\ t.valid_len = v - n /\ t.avail_credits = refilled(c, n)
  BY <1>6
<1>8. PICK k, k2 : k = s - x /\ k2 = s - a
  OBVIOUS
<1>9. charged(t, s) = IF k \in Entry THEN M - t.avail_credits[entry(t, k)] ELSE 0
  BY <1>1, <1>2, <1>5, <1>8 DEF charged
<1>10. charged(c, s) = IF k2 \in Entry THEN M - c.avail_credits[entry(c, k2)] ELSE 0
  BY <1>1, <1>2, <1>8 DEF charged
<1>11. CASE s < x
  <2>1. k \notin Entry
    BY <1>3, <1>8, <1>11
  <2> QED BY <1>1, <1>2, <1>9, <1>11, <2>1
<1>12. CASE ~(s < x) /\ k \notin Entry
  <2>1. k2 \notin Entry
    BY <1>3, <1>8, <1>12
  <2> QED BY <1>1, <1>2, <1>9, <1>10, <1>12, <2>1
<1>13. CASE ~(s < x) /\ k \in Entry /\ k >= v - n
  <2>1. charged(t, s) = M - M
    BY <1>1, <1>5, <1>7, <1>9, <1>13 DEF Full
  <2>2. k2 >= v
    BY <1>3, <1>4, <1>8, <1>13
  <2>3. k2 \in Entry => charged(c, s) = M - M
    BY <1>1, <1>2, <1>10, <2>2 DEF Full
  <2>4. M - M = 0
    BY <1>1, Sizes
  <2> QED BY <1>1, <1>2, <1>10, <1>13, <2>1, <2>3, <2>4
<1>14. CASE ~(s < x) /\ k \in Entry /\ ~(k >= v - n)
  <2>1. n = x - a /\ k2 = k + n /\ k2 \in Entry /\ k2 >= n
    BY <1>3, <1>4, <1>8, <1>14
  <2>2. PICK i : i = entry(c, k2)
    OBVIOUS
  <2>3. i \in Entry /\ behind(i, h) = k2
    BY <1>2, <1>3, <2>1, <2>2, BehindEntry
  <2>4. entry(t, k) = i
    <3>1. k \in 0 .. N /\ k2 \in 0 .. N /\ n \in 0 .. N
      BY <1>3, <1>4, <1>14, <2>1
    <3>2. PICK h2 : h2 = t.head
      OBVIOUS
    <3>3. h2 \in Entry /\ h2 = IF h + n < N THEN h + n ELSE (h + n) - N
      BY <1>1, <1>3, <1>7, <3>1, <3>2, EntryAt
    <3>4. entry(t, k) = IF h2 + k < N THEN h2 + k ELSE (h2 + k) - N
      BY <1>1, <3>1, <3>2, <3>3, EntryAt DEF entry
    <3>5. i = IF h + k2 < N THEN h + k2 ELSE (h + k2) - N
      BY <1>1, <1>2, <1>3, <2>2, <3>1, EntryAt DEF entry
    <3> QED BY <1>3, <1>4, <1>14, <2>1, <3>3, <3>4, <3>5
  <2>5. t.avail_credits[i] = c.avail_credits[i]
    <3>1. ~(behind(i, c.head) < n)
      BY <1>2, <1>3, <1>4, <2>1, <2>3
    <3> QED BY <1>7, <2>3, <3>1 DEF refilled
  <2> QED BY <1>1, <1>2, <1>9, <1>10, <1>14, <2>1, <2>2, <2>4, <2>5
<1> QED
  BY <1>11, <1>12, <1>13, <1>14

\* m[k] is what is missing after entry k, e the last entry the request looked at
Serves(c, first, units, m, e) ==
  /\ e \in first .. NR_CREDIT_ENTRIES - 1
  /\ m[first - 1] = units
  /\ \A k \in first - 1 .. NR_CREDIT_ENTRIES - 1 : m[k] \in Nat
  /\ \A k \in first .. NR_CREDIT_ENTRIES - 1 :
       /\ m[k - 1] - m[k] \in 0 .. c.avail_credits[entry(c, k)]
       /\ m[k] # 0 => m[k - 1] - m[k] = c.avail_credits[entry(c, k)]
  /\ \A k \in first .. e - 1 : m[k] # 0
  /\ m[e] # 0 => e = NR_CREDIT_ENTRIES - 1

gives(first, m, e, k) == IF k \in first .. e THEN m[k - 1] - m[k] ELSE 0

LEMMA Served ==
  ASSUME NEW c \in Channel, NEW first \in Entry, NEW units \in Nat
  PROVE  \E m, e :
           /\ Serves(c, first, units, m, e)
           /\ consume(c, first, units).delay = e - first
           /\ LET d == consume(c, first, units).ch IN
              /\ d.head = c.head /\ d.cur_time = c.cur_time
              /\ \A i \in Entry :
                   d.avail_credits[i] = c.avail_credits[i] - gives(first, m, e, behind(i, c.head))
<1>1. PICK m : m = missing(c, first, units)
  OBVIOUS
<1>2. PICK served : served = {k \in first .. NR_CREDIT_ENTRIES - 1 : m[k] = 0}
  OBVIOUS
<1>3. PICK e : e = IF served = {} THEN NR_CREDIT_ENTRIES - 1 ELSE Min(served)
  OBVIOUS
<1>4. first \in Nat /\ first <= NR_CREDIT_ENTRIES - 1 /\ NR_CREDIT_ENTRIES \in Nat
  BY Sizes
<1>5. /\ m[first - 1] = units
      /\ \A k \in first - 1 .. NR_CREDIT_ENTRIES - 1 : m[k] \in Nat
  <2>1. \A k \in first - 1 .. NR_CREDIT_ENTRIES - 1 : m[k] \in Nat
    BY <1>1, MissingCredits
  <2> QED BY <1>1, <2>1, MissingLoop
<1>6. ASSUME NEW k \in first .. NR_CREDIT_ENTRIES - 1
      PROVE  /\ m[k - 1] - m[k] \in 0 .. c.avail_credits[entry(c, k)]
             /\ m[k] # 0 => m[k - 1] - m[k] = c.avail_credits[entry(c, k)]
  <2>1. PICK a, y, z : a = c.avail_credits[entry(c, k)] /\ y = m[k - 1] /\ z = m[k]
    OBVIOUS
  <2>2. z = y - at_most(y, a)
    BY <1>1, <2>1, MissingLoop
  <2>3. y - z \in 0 .. a
    BY <1>1, <2>1, MissingCredits
  <2>4. k \in first - 1 .. NR_CREDIT_ENTRIES - 1 /\ k - 1 \in first - 1 .. NR_CREDIT_ENTRIES - 1
    BY <1>4
  <2>5. y \in Nat /\ z \in Nat
    BY <1>5, <2>1, <2>4
  <2>6. a \in Nat
    <3>1. k \in Entry /\ c.head \in Entry /\ c.avail_credits \in [Entry -> 0 .. MAX_CREDITS]
      BY <1>4, Sizes DEF Channel
    <3>2. entry(c, k) \in Entry
      BY <3>1, BehindEntry
    <3> QED BY <2>1, <3>1, <3>2, Sizes
  <2>7. z # 0 => y - z = a
    BY <2>2, <2>5, <2>6 DEF at_most
  <2> QED BY <2>1, <2>3, <2>7
<1>7. /\ e \in first .. NR_CREDIT_ENTRIES - 1
      /\ \A k \in first .. e - 1 : m[k] # 0
      /\ m[e] # 0 => e = NR_CREDIT_ENTRIES - 1
  <2>1. CASE served = {}
    <3>1. e = NR_CREDIT_ENTRIES - 1
      BY <1>3, <2>1
    <3>2. \A k \in first .. NR_CREDIT_ENTRIES - 1 : m[k] # 0
      BY <1>2, <2>1
    <3> QED BY <1>4, <3>1, <3>2
  <2>2. CASE served # {}
    <3>1. served \in SUBSET Nat
      BY <1>2, <1>4
    <3>2. \E x \in served : \A y \in served : x <= y
      BY <3>1, <2>2, Smallest
    <3>3. e \in served /\ \A y \in served : e <= y
      BY <1>3, <2>2, <3>2 DEF Min
    <3>4. e \in first .. NR_CREDIT_ENTRIES - 1 /\ m[e] = 0
      BY <1>2, <3>3
    <3>5. ASSUME NEW k \in first .. e - 1 PROVE m[k] # 0
      <4>1. k \in first .. NR_CREDIT_ENTRIES - 1 /\ ~(e <= k)
        BY <1>4, <3>4
      <4> QED BY <1>2, <3>3, <4>1
    <3> QED BY <3>4, <3>5
  <2> QED
    BY <2>1, <2>2
<1>8. Serves(c, first, units, m, e)
  BY <1>5, <1>6, <1>7 DEF Serves
<1> DEFINE av == [i \in Entry |-> c.avail_credits[i] - gives(first, m, e, behind(i, c.head))]
           vl == later(e + 1, c.valid_len)
           d == [c EXCEPT !.valid_len = vl, !.avail_credits = av]
<1>9. consume(c, first, units) = [delay |-> e - first, ch |-> d]
  BY <1>1, <1>2, <1>3 DEF consume, valid_length, gives
<1>10. d.head = c.head /\ d.cur_time = c.cur_time /\ d.avail_credits = av
  <2> HIDE DEF av, vl
  <2> QED BY DEF Channel
<1>11. \A i \in Entry :
         d.avail_credits[i] = c.avail_credits[i] - gives(first, m, e, behind(i, c.head))
  <2>1. \A i \in Entry : av[i] = c.avail_credits[i] - gives(first, m, e, behind(i, c.head))
    OBVIOUS
  <2> HIDE DEF av, d
  <2> QED BY <1>10, <2>1
<1> HIDE DEF d
<1>12. consume(c, first, units).delay = e - first /\ consume(c, first, units).ch = d
  BY <1>9
<1> QED
  BY <1>8, <1>10, <1>11, <1>12

\* d is the ring c once the entries from first to e gave what m says
Drawn(c, d, first, m, e) ==
  /\ first \in Entry /\ e \in Entry
  /\ d.head = c.head /\ d.cur_time = c.cur_time
  /\ \A i \in Entry :
       d.avail_credits[i] = c.avail_credits[i] - gives(first, m, e, behind(i, c.head))
  /\ \A k \in first .. e : m[k - 1] - m[k] \in Nat

\* A request adds to the slots what the entries gave.
LEMMA ConsumedCharges ==
  ASSUME NEW c \in Channel, NEW d, NEW first, NEW m, NEW e, NEW s \in Nat,
         Drawn(c, d, first, m, e)
  PROVE  charged(d, s) = charged(c, s) + gives(first, m, e, s - slot_of(c.cur_time))
<1>0. /\ first \in Entry /\ e \in Entry
      /\ d.head = c.head /\ d.cur_time = c.cur_time
      /\ \A i \in Entry :
           d.avail_credits[i] = c.avail_credits[i] - gives(first, m, e, behind(i, c.head))
      /\ \A k \in first .. e : m[k - 1] - m[k] \in Nat
  BY DEF Drawn
<1>1. PICK k, M : k = s - slot_of(c.cur_time) /\ M = MAX_CREDITS
  OBVIOUS
<1>2. c.head \in Entry /\ c.avail_credits \in [Entry -> 0 .. MAX_CREDITS]
  BY DEF Channel
<1>3. CASE k \in Entry
  <2>1. PICK i : i = entry(c, k)
    OBVIOUS
  <2>2. i \in Entry /\ behind(i, c.head) = k /\ entry(d, k) = i
    BY <1>0, <1>2, <1>3, <2>1, BehindEntry DEF entry
  <2>3. PICK a, b, g : a = c.avail_credits[i] /\ b = d.avail_credits[i] /\ g = gives(first, m, e, k)
    OBVIOUS
  <2>4. b = a - g
    BY <1>0, <2>2, <2>3
  <2>5. a \in Nat /\ M \in Nat
    BY <1>1, <1>2, <2>2, <2>3, Sizes
  <2>6. g \in Nat
    BY <1>0, <2>3 DEF gives
  <2>7. charged(c, s) = M - a /\ charged(d, s) = M - b
    BY <1>0, <1>1, <1>3, <2>1, <2>2, <2>3 DEF charged
  <2>8. M - b = (M - a) + g
    BY <2>4, <2>5, <2>6
  <2> QED BY <1>1, <2>3, <2>7, <2>8
<1>4. CASE k \notin Entry
  <2>1. charged(c, s) = 0 /\ charged(d, s) = 0
    BY <1>0, <1>1, <1>4 DEF charged
  <2>2. k \notin first .. e
    BY <1>0, <1>4, Sizes
  <2>3. gives(first, m, e, k) = 0
    BY <2>2 DEF gives
  <2> QED BY <1>1, <2>1, <2>3
<1> QED
  BY <1>3, <1>4

LEMMA Horizon ==
  /\ HORIZON \in Nat /\ Schedule!Slot = 0 .. HORIZON /\ 0 \in Schedule!Slot
  /\ HORIZON \in Schedule!Slot
  /\ \A t \in 0 .. MAX_CLOCK : slot_of(t) \in Nat /\ slot_of(t) + NR_CREDIT_ENTRIES <= HORIZON
<1>1. ASSUME NEW t \in 0 .. MAX_CLOCK
      PROVE  slot_of(t) \in Nat /\ slot_of(MAX_CLOCK) \in Nat /\ slot_of(t) <= slot_of(MAX_CLOCK)
  <2>1. t \in Nat /\ MAX_CLOCK \in Nat /\ t <= MAX_CLOCK
    BY Sizes
  <2> QED BY <2>1, SlotsGrowWithTime
<1>2. MAX_CLOCK \in 0 .. MAX_CLOCK
  BY Sizes
<1>3. slot_of(MAX_CLOCK) \in Nat
  BY <1>1, <1>2
<1>4. HORIZON \in Nat
  BY <1>3, Sizes DEF HORIZON
<1>5. ASSUME NEW t \in 0 .. MAX_CLOCK
      PROVE  slot_of(t) \in Nat /\ slot_of(t) + NR_CREDIT_ENTRIES <= HORIZON
  BY <1>1, <1>3, Sizes DEF HORIZON
<1>6. Schedule!Slot = 0 .. HORIZON
  BY DEF Schedule!Slot
<1> QED
  BY <1>4, <1>5, <1>6

\* The running total satisfies its definition.
LEMMA TotalLoop ==
  ASSUME NEW f, NEW T, T = Schedule!total(f)
  PROVE  /\ T[0] = f[0]
         /\ \A s \in 1 .. HORIZON : T[s] = T[s - 1] + f[s]
<1> DEFINE body(g, s) == IF s = 0 THEN f[0] ELSE g[s - 1] + f[s]
           Good == {n \in 0 .. HORIZON : \E g : g = [s \in 0 .. n |-> body(g, s)]}
<1>1. HORIZON \in Nat
  BY Horizon
<1>2. 0 \in Good
  <2> DEFINE g == [s \in 0 .. 0 |-> f[0]]
  <2>1. \A s \in 0 .. 0 : body(g, s) = f[0]
    OBVIOUS
  <2>2. g = [s \in 0 .. 0 |-> body(g, s)]
    <3> HIDE DEF body
    <3> QED BY <2>1
  <2>3. 0 \in 0 .. HORIZON
    BY <1>1
  <2> HIDE DEF body, g
  <2> QED BY <2>2, <2>3
<1>3. ASSUME NEW n \in 0 .. HORIZON - 1, n \in Good
      PROVE  n + 1 \in Good
  <2>1. PICK g : g = [s \in 0 .. n |-> body(g, s)]
    BY <1>3
  <2>2. /\ \A s \in 0 .. n : s \in 0 .. n + 1
        /\ \A s \in 0 .. n + 1 : s = 0 \/ s - 1 \in 0 .. n
        /\ n + 1 \in 0 .. HORIZON
    BY <1>1
  <2> DEFINE h == [s \in 0 .. n + 1 |-> body(g, s)]
  <2>3. ASSUME NEW s \in 0 .. n PROVE h[s] = g[s]
    <3> HIDE DEF body
    <3>1. h[s] = body(g, s) /\ g[s] = body(g, s)
      BY <2>1, <2>2
    <3> QED BY <3>1
  <2>4. ASSUME NEW s \in 0 .. n + 1 PROVE body(h, s) = body(g, s)
    <3>1. CASE s = 0
      BY <3>1
    <3>2. CASE s # 0
      <4>1. h[s - 1] = g[s - 1]
        BY <3>2, <2>2, <2>3
      <4> HIDE DEF h
      <4> QED BY <3>2, <4>1
    <3> QED BY <3>1, <3>2
  <2>5. h = [s \in 0 .. n + 1 |-> body(h, s)]
    <3> HIDE DEF body
    <3> QED BY <2>4
  <2> HIDE DEF h, body
  <2> QED BY <2>2, <2>5
<1>4. HORIZON \in Good
  <2>1. Good \in SUBSET (0 .. HORIZON)
    OBVIOUS
  <2> HIDE DEF Good
  <2>2. Good = 0 .. HORIZON
    BY <1>1, <1>2, <1>3, <2>1, BoundedInduction
  <2> QED BY <1>1, <2>2
<1>5. \E g : g = [s \in 0 .. HORIZON |-> body(g, s)]
  <2> HIDE DEF body
  <2> QED BY <1>4
<1>6. T = CHOOSE g : g = [s \in Schedule!Slot |-> body(g, s)]
  BY DEF Schedule!total
<1>7. T = [s \in 0 .. HORIZON |-> body(T, s)]
  <2> HIDE DEF body
  <2> QED BY <1>5, <1>6, Horizon
<1>8. \A s \in 0 .. HORIZON : T[s] = body(T, s)
  <2> HIDE DEF body
  <2> QED BY <1>7
<1>9. T[0] = f[0]
  BY <1>1, <1>8
<1>10. ASSUME NEW s \in 1 .. HORIZON PROVE T[s] = T[s - 1] + f[s]
  <2>1. s \in 0 .. HORIZON /\ s # 0
    BY <1>1
  <2> QED BY <1>8, <2>1
<1> QED
  BY <1>9, <1>10

\* D is how far the total of f is ahead of the one of g.
LEMMA TotalsDiffer ==
  ASSUME NEW f, NEW g, NEW D,
         \A s \in 0 .. HORIZON : f[s] \in Int /\ g[s] \in Int /\ D[s] \in Int,
         D[0] = f[0] - g[0],
         \A s \in 1 .. HORIZON : D[s] = D[s - 1] + (f[s] - g[s])
  PROVE  Schedule!total(f)[HORIZON] - Schedule!total(g)[HORIZON] = D[HORIZON]
<1>1. PICK F, G : F = Schedule!total(f) /\ G = Schedule!total(g)
  OBVIOUS
<1>2. /\ F[0] = f[0] /\ G[0] = g[0]
      /\ \A s \in 1 .. HORIZON : F[s] = F[s - 1] + f[s]
      /\ \A s \in 1 .. HORIZON : G[s] = G[s - 1] + g[s]
  BY <1>1, TotalLoop
<1>3. HORIZON \in Nat
  BY Horizon
<1> DEFINE Good == {s \in 0 .. HORIZON : F[s] \in Int /\ G[s] \in Int /\ F[s] - G[s] = D[s]}
<1>4. 0 \in Good
  <2>1. 0 \in 0 .. HORIZON
    BY <1>3
  <2> QED BY <1>2, <2>1
<1>5. ASSUME NEW n \in 0 .. HORIZON - 1, n \in Good
      PROVE  n + 1 \in Good
  <2>1. PICK s : s = n + 1
    OBVIOUS
  <2>2. s \in 1 .. HORIZON /\ s \in 0 .. HORIZON /\ s - 1 = n /\ n \in 0 .. HORIZON
    BY <1>3, <2>1
  <2>3. F[s] = F[n] + f[s] /\ G[s] = G[n] + g[s] /\ D[s] = D[n] + (f[s] - g[s])
    BY <1>2, <2>2
  <2>4. F[n] \in Int /\ G[n] \in Int /\ F[n] - G[n] = D[n]
    BY <1>5
  <2>5. f[s] \in Int /\ g[s] \in Int
    BY <2>2
  <2>6. F[s] \in Int /\ G[s] \in Int /\ F[s] - G[s] = D[s]
    BY <2>3, <2>4, <2>5
  <2> QED BY <2>1, <2>2, <2>6
<1>6. HORIZON \in Good
  <2>1. Good \in SUBSET (0 .. HORIZON)
    OBVIOUS
  <2> HIDE DEF Good
  <2>2. Good = 0 .. HORIZON
    BY <1>3, <1>4, <1>5, <2>1, BoundedInduction
  <2> QED BY <1>3, <2>2
<1> QED
  BY <1>1, <1>6

\* Schedule!Transfer for the schedules f and g before and after the step
Transfers(f, g, q) ==
  LET first  == slot_of(q.at)
      end    == slot_of(q.now) + NR_CREDIT_ENTRIES - 1
      kept   == [s \in 0 .. HORIZON |-> IF s < slot_of(q.now) THEN 0 ELSE f[s]]
      new    == {s \in 0 .. HORIZON : g[s] # kept[s]}
      placed == Schedule!total(g)[HORIZON] - Schedule!total(kept)[HORIZON]
  IN  IF q.at < q.now \/ first > end
      THEN new = {} /\ q.ret = q.at
      ELSE /\ \A s \in new : /\ s \in first .. end
                             /\ g[s] \in kept[s] + 1 .. MAX_CREDITS
                             /\ \A u \in first .. s - 1 : g[u] = MAX_CREDITS
           /\ placed <= q.units
           /\ placed < q.units => \A s \in first .. end : g[s] = MAX_CREDITS
           /\ q.ret = q.at + Schedule!latency(q, IF placed < q.units THEN end ELSE Schedule!Max(new))

\* A request that is charged changes the slots from kept to g: it fills them from its
\* first one on, x being the slot of the present, and ends with a slot it took from,
\* or at the end of the ring.
Books(kept, g, x, first, units, m, e) ==
  /\ \A s \in 0 .. HORIZON : g[s] # kept[s] =>
       /\ s \in x + first .. x + e
       /\ g[s] \in kept[s] + 1 .. MAX_CREDITS
       /\ \A u \in x + first .. s - 1 : g[u] = MAX_CREDITS
  /\ Schedule!total(g)[HORIZON] - Schedule!total(kept)[HORIZON] = units - m[e]
  /\ m[e] \in Nat
  /\ m[e] # 0 => \A s \in x + first .. x + e : g[s] = MAX_CREDITS
  /\ m[e] # 0 => e = NR_CREDIT_ENTRIES - 1
  /\ m[e] = 0 => g[x + e] # kept[x + e]

\* k is the place in the ring of slot s, and not behind place e, where slot x
\* is at the head and first is the first place
Offset(x, first, e, s, k) ==
  /\ k \in first .. e /\ x + k = s
  /\ k \in first .. e - 1 \/ k = e
  /\ k # first => k - 1 \in first .. e /\ x + (k - 1) = s - 1

LEMMA Offsets ==
  ASSUME NEW x \in Nat, NEW first \in Nat, NEW e \in Nat, NEW s \in x + first .. x + e, NEW k,
         k = s - x
  PROVE  Offset(x, first, e, s, k)
BY DEF Offset

LEMMA EarlierOffsets ==
  ASSUME NEW x \in Nat, NEW first \in Nat, NEW e \in Nat, NEW s \in x + first .. x + e,
         NEW u \in x + first .. s - 1, NEW k, k = u - x
  PROVE  Offset(x, first, e - 1, u, k) /\ k \in first .. e
BY DEF Offset

LEMMA Places ==
  ASSUME NEW c \in Channel, NEW first \in Entry, NEW units \in Nat \ {0}, NEW m, NEW e,
         Serves(c, first, units, m, e),
         NEW x \in Nat, x = slot_of(c.cur_time), x + NR_CREDIT_ENTRIES <= HORIZON,
         NEW kept, NEW g,
         \A s \in 0 .. HORIZON : kept[s] = charged(c, s),
         \A s \in 0 .. HORIZON : g[s] = kept[s] + gives(first, m, e, s - x)
  PROVE  Books(kept, g, x, first, units, m, e)
<1>1. PICK N \in Nat \ {0} : N = NR_CREDIT_ENTRIES
  BY Sizes
<1>2. PICK M \in Nat \ {0} : M = MAX_CREDITS
  BY Sizes
<1>3. HORIZON \in Nat /\ x + N <= HORIZON
  BY <1>1, Horizon
<1>4. first \in Nat /\ e \in Nat /\ first <= e /\ e <= N - 1 /\ Entry = 0 .. N - 1
      /\ e \in first .. N - 1
  BY <1>1, Sizes DEF Serves
<1>5. /\ m[first - 1] = units
      /\ \A k \in first - 1 .. N - 1 : m[k] \in Nat
      /\ \A k \in first .. e - 1 : m[k] # 0
      /\ m[e] # 0 => e = N - 1
  BY <1>1 DEF Serves
<1>6. ASSUME NEW k \in first .. e
      PROVE  /\ k \in Entry /\ k \in first - 1 .. N - 1 /\ k - 1 \in first - 1 .. N - 1
             /\ x + k \in 0 .. HORIZON /\ (x + k) - x = k
             /\ m[k] \in Nat /\ m[k - 1] \in Nat
             /\ kept[x + k] \in 0 .. M
             /\ g[x + k] = kept[x + k] + (m[k - 1] - m[k])
             /\ m[k - 1] - m[k] \in 0 .. M - kept[x + k]
             /\ m[k] # 0 => g[x + k] = M
  <2>1. /\ k \in Entry /\ k \in first - 1 .. N - 1 /\ k - 1 \in first - 1 .. N - 1
        /\ x + k \in 0 .. HORIZON /\ (x + k) - x = k /\ k \in first .. N - 1
    <3>1. k \in Nat /\ first <= k /\ k <= N - 1
      BY <1>4
    <3>2. x + k \in 0 .. HORIZON /\ (x + k) - x = k
      BY <1>3, <3>1
    <3>3. k \in 0 .. N - 1 /\ k \in first - 1 .. N - 1 /\ k - 1 \in first - 1 .. N - 1
          /\ k \in first .. N - 1
      BY <1>4, <3>1
    <3> QED BY <1>4, <3>2, <3>3
  <2>2. m[k] \in Nat /\ m[k - 1] \in Nat
    BY <1>5, <2>1
  <2>3. PICK a : a = c.avail_credits[entry(c, k)]
    OBVIOUS
  <2>4. m[k - 1] - m[k] \in 0 .. a /\ (m[k] # 0 => m[k - 1] - m[k] = a)
    BY <1>1, <2>1, <2>3 DEF Serves
  <2>5. a \in 0 .. M
    <3>1. c.head \in Entry /\ c.avail_credits \in [Entry -> 0 .. MAX_CREDITS]
      BY DEF Channel
    <3>2. entry(c, k) \in Entry
      BY <2>1, <3>1, BehindEntry
    <3> QED BY <1>2, <2>3, <3>1, <3>2
  <2>6. kept[x + k] = M - a
    <3>1. charged(c, x + k) = M - a
      BY <1>2, <2>1, <2>3 DEF charged
    <3> QED BY <2>1, <3>1
  <2>7. g[x + k] = kept[x + k] + (m[k - 1] - m[k])
    <3>1. gives(first, m, e, k) = m[k - 1] - m[k]
      BY DEF gives
    <3> QED BY <2>1, <3>1
  <2>8. PICK y, z, p, r : y = m[k - 1] /\ z = m[k] /\ p = kept[x + k] /\ r = g[x + k]
    OBVIOUS
  <2>9. /\ y \in Nat /\ z \in Nat /\ p = M - a /\ r = p + (y - z)
        /\ y - z \in 0 .. a /\ (z # 0 => y - z = a)
    BY <2>2, <2>4, <2>6, <2>7, <2>8
  <2>10. p \in 0 .. M /\ y - z \in 0 .. M - p /\ (z # 0 => r = M)
    BY <2>5, <2>9
  <2> QED BY <2>1, <2>2, <2>7, <2>8, <2>10
<1>7. ASSUME NEW s \in 0 .. HORIZON
      PROVE  /\ kept[s] \in Int /\ g[s] \in Int
             /\ s - x \notin first .. e => g[s] = kept[s]
  <2>1. kept[s] \in Int
    BY <1>2, ChargedRange
  <2>2. CASE s - x \notin first .. e
    BY <2>1, <2>2 DEF gives
  <2>3. CASE s - x \in first .. e
    <3>1. PICK k \in first .. e : k = s - x
      BY <2>3
    <3>2. x + k = s
      BY <1>4, <3>1
    <3>3. g[s] = kept[s] + (m[k - 1] - m[k]) /\ m[k - 1] \in Nat /\ m[k] \in Nat
      BY <1>6, <3>2
    <3> QED BY <2>1, <2>3, <3>3
  <2> QED BY <2>1, <2>2, <2>3
<1>8. ASSUME NEW s \in 0 .. HORIZON, g[s] # kept[s]
      PROVE  /\ s \in x + first .. x + e
             /\ g[s] \in kept[s] + 1 .. MAX_CREDITS
             /\ \A u \in x + first .. s - 1 : g[u] = MAX_CREDITS
  <2>1. PICK k \in first .. e : k = s - x
    BY <1>7, <1>8
  <2>2. s = x + k /\ s \in x + first .. x + e
    BY <1>4, <2>1
  <2>3. PICK p, r, y : p = kept[s] /\ r = g[s] /\ y = m[k - 1] - m[k]
    OBVIOUS
  <2>4. p \in 0 .. M /\ r = p + y /\ y \in 0 .. M - p
    BY <1>6, <2>2, <2>3
  <2>5. r \in p + 1 .. M
    BY <1>8, <2>3, <2>4
  <2>6. ASSUME NEW u \in x + first .. s - 1 PROVE g[u] = MAX_CREDITS
    <3>1. PICK j : j = u - x
      OBVIOUS
    <3>2. j \in first .. e - 1 /\ j \in first .. e /\ x + j = u
      <4>1. Offset(x, first, e - 1, u, j) /\ j \in first .. e
        BY <1>4, <2>2, <3>1, EarlierOffsets
      <4> QED BY <4>1 DEF Offset
    <3>3. m[j] # 0
      BY <1>5, <3>2
    <3> QED BY <1>2, <1>6, <3>2, <3>3
  <2> QED BY <1>2, <2>2, <2>3, <2>5, <2>6
<1>9. e \in first .. e
  BY <1>4
<1>10. m[e] \in Nat
  BY <1>6, <1>9
<1>11. ASSUME m[e] # 0, NEW s \in x + first .. x + e PROVE g[s] = MAX_CREDITS
  <2>1. PICK k : k = s - x
    OBVIOUS
  <2>2. k \in first .. e /\ x + k = s /\ (k \in first .. e - 1 \/ k = e)
    <3>1. Offset(x, first, e, s, k)
      BY <1>4, <2>1, Offsets
    <3> QED BY <3>1 DEF Offset
  <2>3. m[k] # 0
    BY <1>5, <1>11, <2>2
  <2> QED BY <1>2, <1>6, <2>2, <2>3
<1>12. m[e] = 0 => g[x + e] # kept[x + e]
  <2> SUFFICES ASSUME m[e] = 0 PROVE g[x + e] # kept[x + e]
    OBVIOUS
  <2>1. m[e - 1] # 0 /\ m[e - 1] \in Nat
    <3>1. CASE e = first
      BY <1>5, <1>6, <1>9, <3>1
    <3>2. CASE e # first
      <4>1. e - 1 \in first .. e - 1
        BY <1>4, <3>2
      <4> QED BY <1>5, <1>6, <1>9, <4>1
    <3> QED BY <3>1, <3>2
  <2>2. PICK p, r, y : p = kept[x + e] /\ r = g[x + e] /\ y = m[e - 1]
    OBVIOUS
  <2>3. p \in 0 .. M /\ r = p + (y - 0) /\ y \in Nat /\ y # 0
    BY <1>6, <1>9, <2>1, <2>2
  <2>4. r # p
    BY <2>3
  <2> QED BY <2>2, <2>4
<1>13. Schedule!total(g)[HORIZON] - Schedule!total(kept)[HORIZON] = units - m[e]
  <2> DEFINE D == [s \in 0 .. HORIZON |->
                     IF s < x + first THEN 0 ELSE IF s <= x + e THEN units - m[s - x] ELSE units - m[e]]
  <2>1. ASSUME NEW s \in 0 .. HORIZON
        PROVE  /\ D[s] \in Int
               /\ s < x + first => D[s] = 0
               /\ s > x + e => D[s] = units - m[e]
    <3>1. CASE s < x + first
      BY <1>4, <3>1
    <3>2. CASE ~(s < x + first) /\ s <= x + e
      <4>1. PICK k : k = s - x
        OBVIOUS
      <4>2. k \in first .. e
        BY <1>4, <3>2, <4>1
      <4>3. m[k] \in Nat
        BY <1>6, <4>2
      <4>4. D[s] = units - m[k]
        BY <3>2, <4>1
      <4> HIDE DEF D
      <4> QED BY <1>4, <3>2, <4>3, <4>4
    <3>3. CASE s > x + e
      <4>1. D[s] = units - m[e] /\ ~(s < x + first)
        BY <1>4, <3>3
      <4> HIDE DEF D
      <4> QED BY <1>10, <3>3, <4>1
    <3> QED BY <1>4, <3>1, <3>2, <3>3
  <2>2. ASSUME NEW k \in first .. e
        PROVE  D[x + k] = units - m[k]
    <3>1. x + k \in 0 .. HORIZON /\ (x + k) - x = k
      BY <1>6
    <3>2. ~(x + k < x + first) /\ x + k <= x + e
      BY <1>4
    <3> QED BY <3>1, <3>2
  <2>3. HORIZON \in 0 .. HORIZON /\ HORIZON > x + e /\ 0 \in 0 .. HORIZON
    BY <1>3, <1>4
  <2> HIDE DEF D
  <2>4. ASSUME NEW s \in 1 .. HORIZON
        PROVE  D[s] = D[s - 1] + (g[s] - kept[s])
    <3>1. s \in 0 .. HORIZON /\ s - 1 \in 0 .. HORIZON
      BY <1>3
    <3>2. CASE s < x + first
      <4>1. D[s] = 0 /\ D[s - 1] = 0
        BY <1>4, <2>1, <3>1, <3>2
      <4>2. s - x \notin first .. e
        BY <1>4, <3>2
      <4>3. g[s] = kept[s] /\ kept[s] \in Int
        BY <1>7, <3>1, <4>2
      <4> QED BY <4>1, <4>3
    <3>3. CASE s > x + e
      <4>1. D[s] = units - m[e]
        BY <2>1, <3>1, <3>3
      <4>2. D[s - 1] = units - m[e]
        <5>1. CASE s - 1 = x + e
          BY <1>9, <2>2, <5>1
        <5>2. CASE s - 1 # x + e
          <6>1. s - 1 > x + e
            BY <1>4, <3>3, <5>2
          <6> QED BY <2>1, <3>1, <6>1
        <5> QED BY <5>1, <5>2
      <4>3. s - x \notin first .. e
        BY <1>4, <3>3
      <4>4. g[s] = kept[s] /\ kept[s] \in Int
        BY <1>7, <3>1, <4>3
      <4> QED BY <1>10, <4>1, <4>2, <4>4
    <3>4. CASE ~(s < x + first) /\ ~(s > x + e)
      <4>1. PICK k : k = s - x
        OBVIOUS
      <4>1a. s \in x + first .. x + e
        BY <1>4, <3>4
      <4>1b. Offset(x, first, e, s, k)
        BY <1>4, <4>1a, <4>1, Offsets
      <4>2. k \in first .. e /\ x + k = s
        BY <4>1b DEF Offset
      <4>3. /\ g[s] = kept[s] + (m[k - 1] - m[k]) /\ kept[s] \in 0 .. M
            /\ m[k] \in Nat /\ m[k - 1] \in Nat
        BY <1>6, <4>2
      <4>4. D[s] = units - m[k]
        BY <2>2, <4>2
      <4>5. D[s - 1] = units - m[k - 1]
        <5>1. CASE k = first
          <6>1. s - 1 < x + first
            BY <1>4, <4>2, <5>1
          <6>2. D[s - 1] = 0 /\ m[k - 1] = units
            BY <1>5, <2>1, <3>1, <5>1, <6>1
          <6> QED BY <6>2
        <5>2. CASE k # first
          <6>1. k - 1 \in first .. e /\ x + (k - 1) = s - 1
            BY <4>1b, <5>2 DEF Offset
          <6> QED BY <2>2, <6>1
        <5> QED BY <5>1, <5>2
      <4> QED BY <1>2, <4>3, <4>4, <4>5
    <3> QED BY <3>2, <3>3, <3>4
  <2>5. D[0] = g[0] - kept[0]
    <3>1. CASE x + first > 0
      <4>1. D[0] = 0
        BY <2>1, <2>3, <3>1
      <4>2. 0 - x \notin first .. e
        BY <1>4, <3>1
      <4>3. g[0] = kept[0] /\ kept[0] \in Int
        BY <1>7, <2>3, <4>2
      <4> QED BY <4>1, <4>3
    <3>2. CASE x + first = 0
      <4>1. x = 0 /\ first = 0 /\ 0 \in first .. e /\ x + 0 = 0
        BY <1>4, <3>2
      <4>2. D[0] = units - m[0]
        BY <2>2, <4>1
      <4>3. /\ g[0] = kept[0] + (m[0 - 1] - m[0]) /\ kept[0] \in 0 .. M
            /\ m[0] \in Nat
        BY <1>6, <4>1
      <4>4. m[0 - 1] = units
        BY <1>5, <4>1
      <4> QED BY <1>2, <4>2, <4>3, <4>4
    <3> QED BY <1>4, <3>1, <3>2
  <2>6. \A s \in 0 .. HORIZON : g[s] \in Int /\ kept[s] \in Int /\ D[s] \in Int
    BY <1>7, <2>1
  <2>7. Schedule!total(g)[HORIZON] - Schedule!total(kept)[HORIZON] = D[HORIZON]
    BY <2>4, <2>5, <2>6, TotalsDiffer
  <2> QED BY <2>1, <2>3, <2>7
<1> QED
  BY <1>1, <1>5, <1>8, <1>10, <1>11, <1>12, <1>13 DEF Books

\* the delay of a request whose last entry is delay entries after its first
extra(units, delay) ==
  LET usual == units \div MAX_CREDITS IN IF delay > usual THEN delay - usual ELSE 0

\* A request on the ring is a transfer on the schedule.
LEMMA RequestTransfers ==
  ASSUME NEW c \in Channel, Full(c), NEW now \in 0 .. MAX_CLOCK, c.cur_time <= now,
         NEW at \in Nat, NEW units \in Nat \ {0},
         NEW r, r = chmodel_request(c, now, at, units),
         NEW q, q = [now |-> now, at |-> at, units |-> units, ret |-> r.ret],
         NEW f, \A s \in 0 .. HORIZON : f[s] = charged(c, s),
         NEW g, \A s \in 0 .. HORIZON : g[s] = charged(r.ch, s)
  PROVE  Transfers(f, g, q)
<1>1. q.now = now /\ q.at = at /\ q.units = units /\ q.ret = r.ret
  OBVIOUS
<1>2. PICK x, y, N, t : x = slot_of(now) /\ y = slot_of(at) /\ N = NR_CREDIT_ENTRIES
                        /\ t = turned(c, now)
  OBVIOUS
<1>3. N \in Nat \ {0} /\ x \in Nat /\ y \in Nat /\ x + N <= HORIZON /\ HORIZON \in Nat
  <2>1. y \in Nat
    BY <1>2, SlotsGrowWithTime
  <2> QED BY <1>2, <2>1, Horizon, Sizes
<1>4. t \in Channel /\ Full(t) /\ t.cur_time = now
  BY <1>2, TurnedRing
<1>5. PICK kept : kept = [s \in 0 .. HORIZON |-> IF s < slot_of(q.now) THEN 0 ELSE f[s]]
  OBVIOUS
<1>6. ASSUME NEW s \in 0 .. HORIZON PROVE kept[s] = charged(t, s)
  <2>1. s \in Nat
    BY <1>3
  <2>2. charged(t, s) = IF s < x THEN 0 ELSE charged(c, s)
    BY <1>2, <2>1, TurnedCharges
  <2>3. kept[s] = IF s < x THEN 0 ELSE f[s]
    BY <1>1, <1>2, <1>5
  <2> QED BY <2>2, <2>3
<1>7. PICK new : new = {s \in 0 .. HORIZON : g[s] # kept[s]}
  OBVIOUS
<1>8. PICK placed : placed = Schedule!total(g)[HORIZON] - Schedule!total(kept)[HORIZON]
  OBVIOUS
<1>9. PICK end : end = x + N - 1
  OBVIOUS
<1>10. Transfers(f, g, q) <=>
         IF at < now \/ y > end
         THEN new = {} /\ r.ret = at
         ELSE /\ \A s \in new : /\ s \in y .. end
                                /\ g[s] \in kept[s] + 1 .. MAX_CREDITS
                                /\ \A u \in y .. s - 1 : g[u] = MAX_CREDITS
              /\ placed <= units
              /\ placed < units => \A s \in y .. end : g[s] = MAX_CREDITS
              /\ r.ret = at + Schedule!latency(q, IF placed < units THEN end ELSE Schedule!Max(new))
  BY <1>1, <1>2, <1>5, <1>7, <1>8, <1>9, Zenon DEF Transfers
<1>11. PICK first, d : first = slots_ahead(at, now) /\ d = consume(t, first, units)
  OBVIOUS
<1>12. r = IF at < now \/ first >= N THEN [ch |-> t, ret |-> at]
           ELSE [ch |-> d.ch, ret |-> at + XFER_LAT * units + extra(units, d.delay) * UNIT_TIME_INTERVAL]
  BY <1>2, <1>11 DEF chmodel_request, extra
<1>13. first = y - x /\ first \in Int /\ (first >= N <=> y > end)
  <2>1. first = y - x
    BY <1>2, <1>11 DEF slots_ahead
  <2> QED BY <1>3, <1>9, <2>1
<1>14. CASE at < now \/ first >= N
  <2>1. r.ch = t /\ r.ret = at
    BY <1>12, <1>14
  <2>2. \A s \in 0 .. HORIZON : g[s] = kept[s]
    BY <1>6, <2>1
  <2>3. new = {}
    BY <1>7, <2>2
  <2> QED BY <1>10, <1>13, <1>14, <2>1, <2>3
<1>15. CASE ~(at < now \/ first >= N)
  <2>1. r.ch = d.ch /\ r.ret = at + XFER_LAT * units + extra(units, d.delay) * UNIT_TIME_INTERVAL
    BY <1>12, <1>15
  <2>2. first \in Entry /\ x <= y
    <3>1. now \in Nat /\ now <= at
      BY <1>15, Sizes
    <3>2. x <= y
      BY <1>2, <3>1, SlotsGrowWithTime
    <3>3. first \in 0 .. N - 1
      BY <1>3, <1>13, <1>15, <3>2
    <3> QED BY <1>2, <3>2, <3>3, Sizes
  <2>3. PICK m, e : /\ Serves(t, first, units, m, e)
                    /\ d.delay = e - first
                    /\ d.ch.head = t.head /\ d.ch.cur_time = t.cur_time
                    /\ \A i \in Entry :
                         d.ch.avail_credits[i] = t.avail_credits[i] - gives(first, m, e, behind(i, t.head))
    BY <1>4, <1>11, <2>2, Served
  <2>4. e \in first .. N - 1 /\ e \in Entry /\ \A k \in first .. e : m[k - 1] - m[k] \in Nat
    <3>1. e \in first .. N - 1
      BY <1>2, <2>3 DEF Serves
    <3>2. ASSUME NEW k \in first .. e PROVE m[k - 1] - m[k] \in Nat
      <4>1. k \in first .. NR_CREDIT_ENTRIES - 1
        BY <1>2, <1>3, <1>13, <3>1
      <4>2. m[k - 1] - m[k] \in 0 .. t.avail_credits[entry(t, k)]
        BY <2>3, <4>1 DEF Serves
      <4> QED BY <4>2
    <3>3. e \in Entry
      BY <1>2, <2>2, <3>1, Sizes
    <3> QED BY <3>1, <3>2, <3>3
  <2>5. ASSUME NEW s \in 0 .. HORIZON PROVE g[s] = kept[s] + gives(first, m, e, s - x)
    <3>1. s \in Nat
      BY <1>3
    <3>2. PICK w : w = d.ch
      OBVIOUS
    <3>3. /\ w.head = t.head /\ w.cur_time = t.cur_time
          /\ \A i \in Entry :
               w.avail_credits[i] = t.avail_credits[i] - gives(first, m, e, behind(i, t.head))
      BY <2>3, <3>2, Zenon
    <3>4. Drawn(t, w, first, m, e)
      BY <2>2, <2>4, <3>3, Zenon DEF Drawn
    <3>5. charged(w, s) = charged(t, s) + gives(first, m, e, s - slot_of(t.cur_time))
      BY <1>4, <3>1, <3>4, ConsumedCharges
    <3> QED BY <1>2, <1>4, <1>6, <2>1, <3>2, <3>5
  <2>6. x = slot_of(t.cur_time) /\ x + NR_CREDIT_ENTRIES <= HORIZON
    BY <1>2, <1>3, <1>4
  <2>7. /\ \A s \in 0 .. HORIZON : g[s] # kept[s] =>
             /\ s \in x + first .. x + e
             /\ g[s] \in kept[s] + 1 .. MAX_CREDITS
             /\ \A u \in x + first .. s - 1 : g[u] = MAX_CREDITS
        /\ placed = units - m[e]
        /\ m[e] \in Nat
        /\ m[e] # 0 => \A s \in x + first .. x + e : g[s] = MAX_CREDITS
        /\ m[e] # 0 => e = N - 1
        /\ m[e] = 0 => g[x + e] # kept[x + e]
    <3>1. /\ t \in Channel /\ first \in Entry /\ units \in Nat \ {0} /\ x \in Nat
          /\ Serves(t, first, units, m, e)
      BY <1>3, <1>4, <2>2, <2>3
    <3>2. /\ \A s \in 0 .. HORIZON : kept[s] = charged(t, s)
          /\ \A s \in 0 .. HORIZON : g[s] = kept[s] + gives(first, m, e, s - x)
      BY <1>6, <2>5
    <3>3. Books(kept, g, x, first, units, m, e)
      BY <2>6, <3>1, <3>2, Places
    <3> QED BY <1>2, <1>8, <3>3 DEF Books
  <2>8. x + first = y /\ x + e \in y .. end /\ x + e \in 0 .. HORIZON
    BY <1>3, <1>9, <1>13, <2>2, <2>4
  <2>9. ASSUME NEW s \in new
        PROVE  /\ s \in y .. end /\ s <= x + e
               /\ g[s] \in kept[s] + 1 .. MAX_CREDITS
               /\ \A u \in y .. s - 1 : g[u] = MAX_CREDITS
    <3>1. s \in 0 .. HORIZON /\ g[s] # kept[s]
      BY <1>7
    <3>2. /\ s \in x + first .. x + e
          /\ g[s] \in kept[s] + 1 .. MAX_CREDITS
          /\ \A u \in x + first .. s - 1 : g[u] = MAX_CREDITS
      BY <2>7, <3>1
    <3>3. s \in y .. end /\ s <= x + e
      BY <1>3, <1>9, <2>4, <2>8, <3>2
    <3> QED BY <2>8, <3>2, <3>3
  <2>10. placed <= units /\ (placed < units <=> m[e] # 0)
    BY <2>7
  <2>11. m[e] # 0 => end = x + e /\ \A s \in y .. end : g[s] = MAX_CREDITS
    <3>1. m[e] # 0 => end = x + e
      BY <1>3, <1>9, <2>7
    <3> QED BY <2>7, <2>8, <3>1
  <2>12. m[e] = 0 => Schedule!Max(new) = x + e
    <3> SUFFICES ASSUME m[e] = 0 PROVE Schedule!Max(new) = x + e
      OBVIOUS
    <3>1. x + e \in new
      BY <1>7, <2>7, <2>8
    <3>2. PICK z : z = Schedule!Max(new)
      OBVIOUS
    <3>3. \A s \in new : x + e >= s /\ s \in Int
      BY <1>3, <2>8, <2>9
    <3>4. z \in new /\ \A s \in new : z >= s
      BY <3>1, <3>2, <3>3 DEF Schedule!Max
    <3>5. z = x + e
      BY <3>1, <3>3, <3>4
    <3> QED BY <3>2, <3>5
  <2>13. (IF placed < units THEN end ELSE Schedule!Max(new)) = x + e
    BY <2>10, <2>11, <2>12
  <2>14. r.ret = at + Schedule!latency(q, x + e)
    <3>1. PICK a, b, u, v : a = XFER_LAT * units /\ v = extra(units, d.delay) /\ u = UNIT_TIME_INTERVAL
                            /\ b = u * v
      OBVIOUS
    <3>2. d.delay = (x + e) - y
      BY <1>3, <1>13, <2>3, <2>4, <2>8
    <3>3. Schedule!latency(q, x + e) = a + b
      BY <1>1, <1>2, <3>1, <3>2 DEF Schedule!latency, Schedule!slot_of, slot_of, extra
    <3>4. a \in Nat /\ u \in Nat /\ v \in Nat
      <4>1. d.delay \in Int
        BY <1>3, <2>8, <3>2
      <4>2. PICK z, w : z = d.delay /\ w = units \div MAX_CREDITS
        OBVIOUS
      <4>3. w \in Nat
        <5>1. units \in Nat /\ MAX_CREDITS \in Nat \ {0}
          BY Sizes
        <5> QED BY <4>2, <5>1, DivMod
      <4>4. v = IF z > w THEN z - w ELSE 0
        BY <3>1, <4>2 DEF extra
      <4>5. v \in Nat
        BY <4>1, <4>2, <4>3, <4>4
      <4> QED BY <3>1, <4>5, Sizes
    <3>5. v * u = u * v /\ b \in Nat
      BY <3>1, <3>4
    <3>6. r.ret = at + a + v * u
      BY <2>1, <3>1
    <3> QED BY <3>3, <3>4, <3>5, <3>6, <3>1
  <2> QED BY <1>10, <1>13, <1>15, <2>9, <2>10, <2>11, <2>13, <2>14
<1> QED
  BY <1>14, <1>15

-----------------------------------------------------------------------------
(* The refinement.                                                         *)

\* a read that is under way has something left to transfer
Working == op # NoOp => op.left \in Nat \ {0}

schedule == [s \in 0 .. HORIZON |-> taken(s)]

LEMMA ScheduleIs ==
  /\ \A s \in 0 .. HORIZON : schedule[s] = charged(ch, s)
  /\ \A s \in 0 .. HORIZON : schedule'[s] = charged(ch', s)
<1>1. \A s : taken(s) = charged(ch, s)
  BY DEF taken, charged
<1>2. \A s : taken(s)' = charged(ch', s)
  BY DEF taken, charged, entry
<1>3. HORIZON' = HORIZON
  BY DEF HORIZON
<1> QED
  BY <1>1, <1>2, <1>3 DEF schedule

LEMMA ScheduleInit ==
  ASSUME Init
  PROVE  Schedule!Init
<1>1. ASSUME NEW s PROVE taken(s) = 0
  <2>1. PICK k : k = s - slot_of(ch.cur_time)
    OBVIOUS
  <2>2. CASE k \in Entry
    <3>1. ch = empty_channel /\ ch.head \in Entry
      BY Sizes DEF Init, empty_channel
    <3>2. entry(ch, k) \in Entry
      BY <2>2, <3>1, BehindEntry
    <3>3. ch.avail_credits[entry(ch, k)] = MAX_CREDITS
      BY <3>1, <3>2 DEF empty_channel
    <3> QED BY <2>1, <2>2, <3>3, Sizes DEF taken
  <2>3. CASE k \notin Entry
    BY <2>1, <2>3 DEF taken
  <2> QED BY <2>2, <2>3
<1>2. last = Schedule!NoRequest
  BY DEF Init, NoRequest, Schedule!NoRequest
<1> QED
  BY <1>1, <1>2 DEF Schedule!Init, Schedule!Slot

\* A step that does not use the channel.
LEMMA QuietStep ==
  ASSUME quiet, UNCHANGED ch
  PROVE  Schedule!Next
<1>1. last' = Schedule!NoRequest
  BY DEF quiet, NoRequest, Schedule!NoRequest
<1>2. [s \in 0 .. HORIZON |-> taken(s)]' = [s \in 0 .. HORIZON |-> taken(s)]
  BY DEF taken, entry
<1> QED
  BY <1>1, <1>2 DEF Schedule!Next

\* A call of chmodel_request.
LEMMA RequestStep ==
  ASSUME IInv, NEW at \in Nat, NEW units \in Nat \ {0}, NEW r,
         r = chmodel_request(ch, clock, at, units), request(at, units, r)
  PROVE  Schedule!Next
<1>1. ch \in Channel /\ Full(ch) /\ clock \in 0 .. MAX_CLOCK /\ clock >= 1 /\ ch.cur_time <= clock
  BY Types DEF IInv
<1>2. PICK f, g, q : f = schedule /\ g = schedule' /\ q = last'
  OBVIOUS
<1>3. ch' = r.ch /\ q = [now |-> clock, at |-> at, units |-> units, ret |-> r.ret]
  BY <1>2 DEF request
<1>4. /\ \A s \in 0 .. HORIZON : f[s] = charged(ch, s)
      /\ \A s \in 0 .. HORIZON : g[s] = charged(r.ch, s)
  BY <1>2, <1>3, ScheduleIs
<1>5. Transfers(f, g, q)
  BY <1>1, <1>3, <1>4, RequestTransfers
<1>6. Schedule!Transfer(last')
  BY <1>2, <1>5 DEF Schedule!Transfer, Schedule!Slot, Schedule!slot_of, slot_of, Transfers, schedule
<1>7. last' # Schedule!NoRequest
  BY <1>1, <1>2, <1>3 DEF Schedule!NoRequest
<1> QED
  BY <1>6, <1>7 DEF Schedule!Next

LEMMA ScheduleStep ==
  ASSUME IInv, Working, [Next]_vars
  PROVE  /\ [Schedule!Next]_<<[s \in 0 .. HORIZON |-> taken(s)], last>>
         /\ Working'
<1>1. CASE Tick
  BY <1>1, QuietStep DEF Tick, Working
<1>2. CASE ReadTransfer
  <2>1. PICK x, r : x = at_most(op.left, MAX_CH_XFER_SIZE) /\ r = chmodel_request(ch, clock, op.at, x)
    OBVIOUS
  <2>2. op.at \in Nat /\ op.left \in Nat \ {0} /\ op \in [lun : Lun \union {"none"}, at : Nat, left : Nat]
    BY <1>2, Types DEF IInv, Working, ReadTransfer, TypeOK
  <2>3. x \in Nat \ {0}
    BY <2>1, <2>2, TimingAssumption DEF at_most
  <2>4. /\ request(op.at, x, r)
        /\ IF x < op.left THEN op' = [op EXCEPT !.at = r.ret, !.left = @ - x] ELSE op' = NoOp
    BY <1>2, <2>1 DEF ReadTransfer
  <2>5. Schedule!Next
    BY <2>1, <2>2, <2>3, <2>4, RequestStep
  <2>6. Working'
    <3>1. CASE x < op.left
      <4>1. op'.left = op.left - x
        BY <2>2, <2>4, <3>1
      <4> QED BY <2>2, <2>3, <3>1, <4>1 DEF Working
    <3>2. CASE ~(x < op.left)
      BY <2>4, <3>2 DEF Working
    <3> QED BY <3>1, <3>2
  <2> QED BY <2>5, <2>6
<1>3. ASSUME NEW n \in free_luns, NEW stime \in stimes, NEW size \in Size, NEW lat \in RD_LATS,
             ReadBegin(n, stime, size, lat)
      PROVE  Schedule!Next /\ Working'
  <2>1. op'.left = size
    BY <1>3 DEF ReadBegin
  <2>2. size \in Nat \ {0}
    BY TimingAssumption
  <2> QED BY <1>3, <2>1, <2>2, QuietStep DEF ReadBegin, Working
<1>4. ASSUME NEW n \in free_luns, NEW stime \in stimes, NEW size \in Size, Program(n, stime, size)
      PROVE  Schedule!Next /\ Working'
  <2>1. PICK at, r : at = starts(n, stime) /\ r = chmodel_request(ch, clock, at, size)
    OBVIOUS
  <2>2. request(at, size, r) /\ UNCHANGED op
    BY <1>4, <2>1 DEF Program
  <2>3. n \in Lun /\ at \in Nat
    BY <2>1, StartsLater DEF free_luns, IInv
  <2>4. size \in Nat \ {0}
    BY TimingAssumption
  <2>5. Schedule!Next
    BY <2>1, <2>2, <2>3, <2>4, RequestStep
  <2> QED BY <2>2, <2>5 DEF Working
<1>5. ASSUME NEW n \in free_luns, NEW stime \in stimes, Erase(n, stime) \/ Nop(n, stime)
      PROVE  Schedule!Next /\ Working'
  BY <1>5, QuietStep DEF Erase, Nop, Occupy, Working
<1>6. CASE UNCHANGED vars
  <2>1. UNCHANGED <<ch, op, last>>
    BY <1>6 DEF vars
  <2>2. [s \in 0 .. HORIZON |-> taken(s)]' = [s \in 0 .. HORIZON |-> taken(s)]
    BY <2>1 DEF taken, entry
  <2> QED BY <2>1, <2>2 DEF Working
<1> QED
  BY <1>1, <1>2, <1>3, <1>4, <1>5, <1>6 DEF Next, Nand, End

\* The ring of credits implements a plain schedule of time slots, whatever its size,
\* the credits of a slot and the lengths and start times of the transfers: each takes
\* the earliest credits that are free from its start, wherever the head stands and
\* however much time has passed, and its answer follows from the slot of the last one.
THEOREM ScheduleRefinement == Spec => ImplementsSchedule
<1>1. Init => Schedule!Init /\ Working
  BY ScheduleInit DEF Init, Working
<1>2. IInv /\ Working /\ [Next]_vars
        => Working' /\ [Schedule!Next]_<<[s \in 0 .. HORIZON |-> taken(s)], last>>
  BY ScheduleStep
<1> QED
  BY Invariance, <1>1, <1>2, PTL DEF Spec, ImplementsSchedule, Schedule!Spec

=============================================================================
