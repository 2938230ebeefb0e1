----------------------------- MODULE KvFTLProofs -----------------------------
(***************************************************************************)
(* The key-value FTL with one I/O worker, for any keys, hash function,     *)
(* table size, storage, lengths and mix of commands.                       *)
(*                                                                         *)
(* What a lookup sees is the set reach(tb, h): the entries on the chain of *)
(* the hash slot h, the least set that holds h and is closed under         *)
(* next_slot.  Every argument about a store or a delete is about what it   *)
(* does to these sets.                                                     *)
(***************************************************************************)
EXTENDS KvFTL, SequenceTheorems, FiniteSetTheorems, WellFoundedInduction, TLAPS

\* A set that holds 0 and, with a number below n, its successor, is all of 0 .. n.
LEMMA BoundedInduction ==
  ASSUME NEW n \in Nat, NEW G \in SUBSET (0 .. n), 0 \in G,
         \A i \in 0 .. n - 1 : i \in G => i + 1 \in G
  PROVE  G = 0 .. n
<1> DEFINE F == (0 .. n) \ G
<1>1. SUFFICES ASSUME F # {} PROVE FALSE
  OBVIOUS
<1>2. F \subseteq Nat
  OBVIOUS
<1>3. PICK c \in F : \A d \in F : ~ (<<d, c>> \in OpToRel(<, Nat))
  BY <1>1, <1>2, WFMin, NatLessThanWellFounded
<1>4. c \in 1 .. n /\ c - 1 \in 0 .. n - 1 /\ (c - 1) + 1 = c
  OBVIOUS
<1>5. c - 1 \notin G
  BY <1>4
<1>6. c - 1 \in F /\ c - 1 \in Nat /\ c \in Nat /\ c - 1 < c
  BY <1>4, <1>5
<1>7. <<c - 1, c>> \in OpToRel(<, Nat)
  BY <1>6 DEF OpToRel
<1> QED
  BY <1>3, <1>6, <1>7

\* A number is its quotient and its remainder.
LEMMA DivMod ==
  ASSUME NEW a \in Nat, NEW m \in Nat \ {0}
  PROVE  /\ a \div m \in Nat /\ a % m \in 0 .. m - 1
         /\ a = m * (a \div m) + (a % m)
OBVIOUS

\* A set of natural numbers that is not empty has a smallest element.
LEMMA Smallest ==
  ASSUME NEW S \in SUBSET Nat, S # {}
  PROVE  \E x \in S : \A y \in S : x <= y
<1>1. PICK c \in S : \A d \in S : ~ (<<d, c>> \in OpToRel(<, Nat))
  BY WFMin, NatLessThanWellFounded
<1>2. ASSUME NEW y \in S PROVE c <= y
  <2>1. y \in Nat /\ c \in Nat
    OBVIOUS
  <2>2. ~ (y < c)
    BY <1>1, <2>1 DEF OpToRel
  <2> QED BY <2>1, <2>2
<1> QED
  BY <1>2

\* nr_io_workers is 1: with several, two stores can take the same free slot.
OneWorker == \E w : Workers = {w}

W == CHOOSE w \in Workers : TRUE

LEMMA OneIs ==
  ASSUME OneWorker
  PROVE  Workers = {W}
BY DEF OneWorker, W

LEMMA Sizes ==
  /\ HASH_SLOTS \in Nat /\ HASH_SLOTS >= 1 /\ Slot = 0 .. HASH_SLOTS - 1
  /\ STORAGE_SIZE \in Nat /\ STORAGE_SIZE >= 1 /\ Offset = 0 .. STORAGE_SIZE - 1
  /\ \A k \in Keys : Hash[k] \in Slot
  /\ Lengths \subseteq Nat /\ \A n \in Lengths : n \in Nat /\ n >= 1
  /\ None \notin Slot /\ None \notin Offset /\ None \notin Lengths /\ None = -1
  /\ SMALL_LENGTH \in Nat /\ SMALL_LENGTH >= 1 /\ LARGE_LENGTH \in Nat
  /\ LARGE_LENGTH >= SMALL_LENGTH /\ NR_ITER \in Nat /\ MAX_SUBS \in Nat
BY KvAssumption DEF Slot, Offset, None

LEMMA Numbers == (\A o \in Offset : o \in Nat) /\ (\A n \in Lengths : n \in Nat)
BY Sizes

LEMMA MaxLengthIs ==
  /\ MaxLength \in Lengths /\ \A n \in Lengths : n <= MaxLength
  /\ ALLOCATOR_TYPE = "BITMAP" => MaxLength <= LARGE_LENGTH
<1>1. \E m \in Lengths : \A n \in Lengths : m >= n
  BY KvAssumption
<1>2. Max(Lengths) \in Lengths /\ \A n \in Lengths : Max(Lengths) >= n
  BY <1>1 DEF Max
<1>3. \A n \in Lengths : n <= Max(Lengths)
  BY <1>2, Sizes
<1> QED
  BY <1>2, <1>3, KvAssumption DEF MaxLength

LEMMA MinIs ==
  ASSUME NEW S \in SUBSET Nat, S # {}
  PROVE  Min(S) \in S /\ \A y \in S : Min(S) <= y
<1>1. \E x \in S : \A y \in S : x <= y
  BY Smallest
<1> QED
  BY <1>1 DEF Min

LEMMA MaxIs ==
  ASSUME NEW n \in Nat, NEW S \in SUBSET (0 .. n), S # {}
  PROVE  Max(S) \in S /\ \A y \in S : y <= Max(S)
<1> DEFINE T == {n - x : x \in S}
<1>1. PICK z \in T : \A y \in T : z <= y
  <2>1. \A x \in S : n - x \in Nat
    OBVIOUS
  <2>2. T \in SUBSET Nat /\ T # {}
    BY <2>1
  <2> HIDE DEF T
  <2> QED BY <2>2, Smallest
<1>2. PICK x \in S : z = n - x
  BY <1>1
<1>3. \A y \in S : x >= y
  <2> TAKE y \in S
  <2>1. n - x <= n - y
    BY <1>1, <1>2
  <2> QED BY <2>1
<1>4. \E v \in S : \A y \in S : v >= y
  BY <1>3
<1>5. Max(S) \in S /\ \A y \in S : Max(S) >= y
  BY <1>4 DEF Max
<1> QED
  BY <1>5

LEMMA MulMono ==
  ASSUME NEW a \in Nat, NEW b \in Nat, a <= b, NEW m \in Nat
  PROVE  a * m <= b * m /\ a * m \in Nat /\ b * m \in Nat
OBVIOUS

LEMMA Half2 ==
  ASSUME NEW n \in Nat
  PROVE  n \div 2 \in Nat /\ 2 * (n \div 2) <= n
OBVIOUS

\* a follows the function f from x, n times
Iterates(a, n, S, x, f) ==
  a \in [0 .. n -> S] /\ a[0] = x /\ \A k \in 1 .. n : a[k] = f[a[k - 1]]

LEMMA Iterated ==
  ASSUME NEW n \in Nat, NEW S, NEW x \in S, NEW f \in [S -> S]
  PROVE  \E a : Iterates(a, n, S, x, f)
<1> DEFINE Upto(a, m) == a[0] = x /\ \A k \in 1 .. m : a[k] = f[a[k - 1]]
           G == {m \in 0 .. n : \E a \in [0 .. n -> S] : Upto(a, m)}
<1>1. 0 \in G
  <2>1. [k \in 0 .. n |-> x] \in [0 .. n -> S] /\ Upto([k \in 0 .. n |-> x], 0)
    OBVIOUS
  <2> HIDE DEF Upto
  <2> QED BY <2>1
<1>2. ASSUME NEW m \in 0 .. n - 1, m \in G PROVE m + 1 \in G
  <2>1. PICK a \in [0 .. n -> S] : Upto(a, m)
    BY <1>2
  <2>2. PICK b : b = [a EXCEPT ![m + 1] = f[a[m]]]
    OBVIOUS
  <2>3. b \in [0 .. n -> S] /\ b[m + 1] = f[a[m]] /\ \A k \in 0 .. m : b[k] = a[k]
    BY <2>2
  <2>4. ASSUME NEW k \in 1 .. m + 1 PROVE b[k] = f[b[k - 1]]
    <3>1. CASE k = m + 1
      BY <2>3, <3>1
    <3>2. CASE k # m + 1
      <4>1. k \in 1 .. m /\ k \in 0 .. m /\ k - 1 \in 0 .. m
        BY <3>2
      <4> QED BY <2>1, <2>3, <4>1
    <3> QED BY <3>1, <3>2
  <2>5. Upto(b, m + 1)
    BY <2>1, <2>3, <2>4
  <2>6. m + 1 \in 0 .. n
    OBVIOUS
  <2> HIDE DEF Upto
  <2> QED BY <2>3, <2>5, <2>6
<1>3. G = 0 .. n
  <2>1. G \in SUBSET (0 .. n)
    OBVIOUS
  <2> HIDE DEF G
  <2> QED BY <1>1, <1>2, <2>1, BoundedInduction
<1>4. n \in G
  <2> HIDE DEF G
  <2> QED BY <1>3
<1> QED
  BY <1>4 DEF Iterates

\* The commands under way are those of the one worker.
LEMMA SumOne ==
  ASSUME NEW w
  PROVE  MapThenSumSet(LAMBDA v : Len(work[v].todo), {w}) = Len(work[w].todo) + 0
<1> DEFINE body(it, s) == IF s = {} THEN 0
                          ELSE Len(work[CHOOSE v \in s : TRUE].todo) + it[s \ {CHOOSE v \in s : TRUE}]
           it == CHOOSE g : g = [s \in SUBSET {w} |-> body(g, s)]
           want == [s \in SUBSET {w} |-> IF s = {} THEN 0 ELSE Len(work[w].todo) + 0]
<1>1. \A s \in SUBSET {w} : s = {} \/ s = {w}
  OBVIOUS
<1>2. ASSUME NEW s \in SUBSET {w} PROVE want[s] = body(want, s)
  <2>1. CASE s = {}
    BY <2>1
  <2>2. CASE s = {w}
    <3>1. (CHOOSE v \in s : TRUE) = w /\ s \ {w} = {}
      BY <2>2
    <3> QED BY <2>2, <3>1
  <2> QED BY <1>1, <2>1, <2>2
<1>3. want = [s \in SUBSET {w} |-> body(want, s)]
  <2>1. want = [s \in SUBSET {w} |-> want[s]]
    OBVIOUS
  <2> HIDE DEF want, body
  <2> QED BY <1>2, <2>1
<1>4. it = [s \in SUBSET {w} |-> body(it, s)]
  <2> HIDE DEF want, body
  <2> QED BY <1>3
<1>5. it[{}] = 0 /\ it[{w}] = Len(work[w].todo) + it[{}]
  <2>1. it[{}] = body(it, {}) /\ it[{w}] = body(it, {w})
    <3> HIDE DEF body
    <3> QED BY <1>4
  <2>2. (CHOOSE v \in {w} : TRUE) = w /\ {w} \ {w} = {}
    OBVIOUS
  <2> HIDE DEF it
  <2> QED BY <2>1, <2>2
<1>6. MapThenSumSet(LAMBDA v : Len(work[v].todo), {w}) = it[{w}]
  BY DEF MapThenSumSet, MapThenFoldSet
<1> QED
  BY <1>5, <1>6

-----------------------------------------------------------------------------
(* Chains.                                                                 *)

Entry == [key : Keys \cup {NoKey}, mem_offset : Offset \cup {None},
          length : Lengths \cup {None}, next_slot : Slot \cup {None}]

in_use(tb, s) == tb[s].mem_offset # None

\* where a walk goes from s
nx(tb, s) ==
  IF in_use(tb, s) /\ tb[s].next_slot # None /\ in_use(tb, tb[s].next_slot)
  THEN tb[s].next_slot ELSE None

Closed(tb, h, S) ==
  /\ in_use(tb, h) => h \in S
  /\ \A s \in S : nx(tb, s) # None => nx(tb, s) \in S

\* the entries a walk from h visits
reach(tb, h) == {s \in Slot : \A S \in SUBSET Slot : Closed(tb, h, S) => s \in S}

\* the rank r falls along the links
Ranked(tb, r) ==
  /\ r \in [Slot -> 1 .. HASH_SLOTS]
  /\ \A s, t \in Slot : r[s] = r[t] => s = t
  /\ \A s \in Slot : tb[s].next_slot # None => r[tb[s].next_slot] < r[s]

Acyclic(tb) == \E r : Ranked(tb, r)

\* an entry is filled or free
Filled(tb) ==
  /\ tb \in [Slot -> Entry]
  /\ \A s \in Slot : IF in_use(tb, s) THEN tb[s].key \in Keys /\ tb[s].length \in Lengths
                     ELSE tb[s] = free_entry

LEMMA NxType ==
  ASSUME NEW tb \in [Slot -> Entry], NEW s \in Slot
  PROVE  nx(tb, s) \in Slot \cup {None} /\ tb[s].next_slot \in Slot \cup {None}
BY DEF nx, Entry

LEMMA ReachLeast ==
  ASSUME NEW tb, NEW h, NEW S \in SUBSET Slot, Closed(tb, h, S)
  PROVE  reach(tb, h) \subseteq S
BY DEF reach

LEMMA ReachClosed ==
  ASSUME NEW tb \in [Slot -> Entry], NEW h \in Slot
  PROVE  Closed(tb, h, reach(tb, h)) /\ reach(tb, h) \in SUBSET Slot
<1>1. in_use(tb, h) => h \in reach(tb, h)
  BY DEF reach, Closed
<1>2. ASSUME NEW s \in reach(tb, h), nx(tb, s) # None PROVE nx(tb, s) \in reach(tb, h)
  <2>1. s \in Slot
    BY DEF reach
  <2>2. nx(tb, s) \in Slot
    BY <1>2, <2>1, NxType
  <2>3. ASSUME NEW S \in SUBSET Slot, Closed(tb, h, S) PROVE nx(tb, s) \in S
    <3>1. s \in S
      BY <2>3 DEF reach
    <3> QED BY <1>2, <2>3, <3>1 DEF Closed
  <2> QED BY <2>2, <2>3 DEF reach
<1>3. reach(tb, h) \in SUBSET Slot
  BY DEF reach
<1> QED
  BY <1>1, <1>2, <1>3 DEF Closed

\* Only entries in use are reached.
LEMMA ReachUsed ==
  ASSUME NEW tb \in [Slot -> Entry], NEW h \in Slot, NEW s \in reach(tb, h)
  PROVE  s \in Slot /\ in_use(tb, s)
<1> DEFINE S == {t \in Slot : in_use(tb, t)}
<1>1. \A t \in Slot : nx(tb, t) # None => nx(tb, t) \in Slot /\ in_use(tb, nx(tb, t))
  <2> TAKE t \in Slot
  <2>1. nx(tb, t) # None => in_use(tb, nx(tb, t))
    BY DEF nx
  <2> QED BY <2>1, NxType
<1>2. Closed(tb, h, S) /\ S \in SUBSET Slot
  BY <1>1 DEF Closed
<1>3. reach(tb, h) \subseteq S
  <2> HIDE DEF S
  <2> QED BY <1>2, ReachLeast
<1> QED
  BY <1>3

\* One step of a walk, and all of it.
onwards(tb) == [p \in Slot \cup {None} |-> IF p = None THEN None ELSE
                  IF tb[p].next_slot # None /\ in_use(tb, tb[p].next_slot)
                  THEN tb[p].next_slot ELSE None]

Walked(at, tb, h) ==
  /\ at \in [0 .. HASH_SLOTS -> Slot \cup {None}]
  /\ at[0] = IF in_use(tb, h) THEN h ELSE None
  /\ \A k \in 1 .. HASH_SLOTS : at[k] = onwards(tb)[at[k - 1]]

LEMMA WalkIs ==
  ASSUME kv_mapping_table \in [Slot -> Entry], NEW h \in Slot
  PROVE  Walked(walk(h), kv_mapping_table, h)
<1>1. PICK tb : tb = kv_mapping_table
  OBVIOUS
<1> DEFINE step(p) == LET q == IF p = None THEN None ELSE kv_mapping_table[p].next_slot
                      IN  IF q # None /\ used(q) THEN q ELSE None
           first == IF used(h) THEN h ELSE None
           body(g, n) == IF n = 0 THEN first ELSE step(g[n - 1])
           at == CHOOSE g : g = [n \in 0 .. HASH_SLOTS |-> body(g, n)]
           S == Slot \cup {None}
<1>2. \A p \in S : step(p) = onwards(tb)[p]
  BY <1>1 DEF onwards, used, in_use
<1>3. onwards(tb) \in [S -> S]
  <2>1. \A p \in S : onwards(tb)[p] \in S
    <3> TAKE p \in S
    <3>1. p # None => tb[p].next_slot \in S
      BY <1>1, NxType
    <3> QED BY <3>1 DEF onwards
  <2>2. onwards(tb) = [p \in S |-> onwards(tb)[p]]
    BY DEF onwards
  <2> QED BY <2>1, <2>2
<1>4. first \in S /\ first = IF in_use(tb, h) THEN h ELSE None
  BY <1>1 DEF used, in_use
<1>5. PICK a \in [0 .. HASH_SLOTS -> S] :
        a[0] = first /\ \A k \in 1 .. HASH_SLOTS : a[k] = onwards(tb)[a[k - 1]]
  <2> HIDE DEF first, S
  <2>1. \E a : Iterates(a, HASH_SLOTS, S, first, onwards(tb))
    BY <1>3, <1>4, Iterated, Sizes
  <2> QED BY <2>1 DEF Iterates
<1>6. a = [n \in 0 .. HASH_SLOTS |-> body(a, n)]
  <2>1. ASSUME NEW n \in 0 .. HASH_SLOTS PROVE a[n] = body(a, n)
    <3>1. CASE n = 0
      <4> HIDE DEF first
      <4> QED BY <1>5, <3>1
    <3>2. CASE n # 0
      <4>1. n \in 1 .. HASH_SLOTS /\ n - 1 \in 0 .. HASH_SLOTS
        BY <3>2, Sizes
      <4>2. a[n - 1] \in S /\ a[n] = onwards(tb)[a[n - 1]]
        BY <1>5, <4>1
      <4> HIDE DEF first, step, S
      <4> QED BY <1>2, <3>2, <4>2
    <3> QED BY <3>1, <3>2
  <2> HIDE DEF body
  <2> QED BY <1>5, <2>1
<1>7. at = [n \in 0 .. HASH_SLOTS |-> body(at, n)]
  <2> HIDE DEF body
  <2> QED BY <1>6
<1>8. walk(h) = at
  BY DEF walk
<1> HIDE DEF at
<1>9. at[0] = first
  <2>1. 0 \in 0 .. HASH_SLOTS
    BY Sizes
  <2> HIDE DEF first, step
  <2> QED BY <1>7, <2>1
<1>10. \A k \in 1 .. HASH_SLOTS : at[k] = step(at[k - 1])
  <2> TAKE k \in 1 .. HASH_SLOTS
  <2>1. k \in 0 .. HASH_SLOTS /\ k # 0
    BY Sizes
  <2> HIDE DEF first, step
  <2> QED BY <1>7, <2>1
<1>11. \A k \in 0 .. HASH_SLOTS : at[k] \in S
  <2> DEFINE G == {k \in 0 .. HASH_SLOTS : at[k] \in S}
  <2>1. 0 \in G
    <3> HIDE DEF first, S
    <3> QED BY <1>4, <1>9, Sizes
  <2>2. ASSUME NEW k \in 0 .. HASH_SLOTS - 1, k \in G PROVE k + 1 \in G
    <3>1. k + 1 \in 1 .. HASH_SLOTS /\ (k + 1) - 1 = k
      BY Sizes
    <3>2. at[k + 1] = step(at[k]) /\ at[k] \in S
      <4> HIDE DEF step, S
      <4> QED BY <1>10, <2>2, <3>1
    <3>3. at[k + 1] \in S
      <4> HIDE DEF step, S
      <4> QED BY <1>2, <1>3, <3>2
    <3> QED BY <3>1, <3>3, Sizes
  <2>3. G = 0 .. HASH_SLOTS
    <3>1. G \in SUBSET (0 .. HASH_SLOTS)
      OBVIOUS
    <3> HIDE DEF G
    <3> QED BY <2>1, <2>2, <3>1, BoundedInduction, Sizes
  <2> QED BY <2>3
<1>12. at \in [0 .. HASH_SLOTS -> S]
  <2>1. at = [n \in 0 .. HASH_SLOTS |-> at[n]]
    <3> HIDE DEF body
    <3> QED BY <1>7
  <2> HIDE DEF S
  <2> QED BY <1>11, <2>1
<1>13. \A k \in 1 .. HASH_SLOTS : at[k] = onwards(tb)[at[k - 1]]
  <2> TAKE k \in 1 .. HASH_SLOTS
  <2>1. at[k - 1] \in S
    <3>1. k - 1 \in 0 .. HASH_SLOTS
      BY Sizes
    <3> QED BY <1>11, <3>1
  <2> HIDE DEF step, S
  <2> QED BY <1>2, <1>10, <2>1
<1> HIDE DEF first
<1>14. Walked(at, tb, h)
  BY <1>4, <1>9, <1>12, <1>13 DEF Walked
<1> QED
  BY <1>1, <1>8, <1>14

\* The walk goes to nx, and nowhere from an entry that is not in use.
LEMMA WalkNx ==
  ASSUME NEW tb \in [Slot -> Entry], NEW at, NEW h \in Slot, Walked(at, tb, h),
         NEW k \in 0 .. HASH_SLOTS
  PROVE  /\ at[k] \in Slot \cup {None}
         /\ at[k] # None => in_use(tb, at[k])
         /\ k < HASH_SLOTS /\ at[k] # None => at[k + 1] = nx(tb, at[k])
<1>1. at[k] \in Slot \cup {None}
  BY DEF Walked
<1>2. at[k] # None => in_use(tb, at[k])
  <2>1. CASE k = 0
    BY <2>1 DEF Walked
  <2>2. CASE k # 0
    <3>1. k \in 1 .. HASH_SLOTS /\ k - 1 \in 0 .. HASH_SLOTS
      BY <2>2, Sizes
    <3>2. at[k] = onwards(tb)[at[k - 1]] /\ at[k - 1] \in Slot \cup {None}
      BY <3>1 DEF Walked
    <3> QED BY <3>2 DEF onwards
  <2> QED BY <2>1, <2>2
<1>3. ASSUME k < HASH_SLOTS, at[k] # None PROVE at[k + 1] = nx(tb, at[k])
  <2>1. k + 1 \in 1 .. HASH_SLOTS /\ (k + 1) - 1 = k
    BY <1>3, Sizes
  <2>2. at[k + 1] = onwards(tb)[at[k]]
    BY <2>1 DEF Walked
  <2> QED BY <1>1, <1>2, <1>3, <2>2 DEF onwards, nx
<1> QED
  BY <1>1, <1>2, <1>3

\* When the rank falls along the links, walks end.
LEMMA WalkEnds ==
  ASSUME NEW tb \in [Slot -> Entry], NEW at, NEW h \in Slot, Walked(at, tb, h), Acyclic(tb)
  PROVE  at[HASH_SLOTS] = None
<1>1. PICK r : Ranked(tb, r)
  BY DEF Acyclic
<1>2. /\ \A s \in Slot : r[s] \in 1 .. HASH_SLOTS
      /\ \A s \in Slot : tb[s].next_slot # None => r[tb[s].next_slot] < r[s]
  BY <1>1 DEF Ranked
<1> DEFINE G == {k \in 0 .. HASH_SLOTS : at[k] = None \/ r[at[k]] <= HASH_SLOTS - k}
<1>3. 0 \in G
  <2>1. at[0] \in Slot \cup {None} /\ 0 \in 0 .. HASH_SLOTS
    BY Sizes DEF Walked
  <2> QED BY <1>2, <2>1, Sizes
<1>4. ASSUME NEW k \in 0 .. HASH_SLOTS - 1, k \in G PROVE k + 1 \in G
  <2>0. k \in 0 .. HASH_SLOTS /\ k < HASH_SLOTS /\ k + 1 \in 0 .. HASH_SLOTS
        /\ k + 1 \in 1 .. HASH_SLOTS /\ (k + 1) - 1 = k
    BY Sizes
  <2>1. CASE at[k] = None
    <3>1. at[k + 1] = onwards(tb)[at[k]]
      BY <2>0 DEF Walked
    <3>2. at[k + 1] = None
      BY <2>1, <3>1 DEF onwards
    <3> QED BY <2>0, <3>2
  <2>2. CASE at[k] # None
    <3>1. at[k] \in Slot /\ at[k + 1] = nx(tb, at[k]) /\ at[k + 1] \in Slot \cup {None}
      BY <2>0, <2>2, WalkNx
    <3>2. r[at[k]] <= HASH_SLOTS - k
      BY <1>4, <2>2
    <3>3. CASE at[k + 1] # None
      <4>1. at[k + 1] = tb[at[k]].next_slot
        BY <3>1, <3>3 DEF nx
      <4>2. r[at[k + 1]] < r[at[k]] /\ r[at[k + 1]] \in Nat /\ r[at[k]] \in Nat
        BY <1>2, <3>1, <3>3, <4>1
      <4> QED BY <2>0, <3>2, <4>2, Sizes
    <3> QED BY <2>0, <3>3
  <2> QED BY <2>1, <2>2
<1>5. G = 0 .. HASH_SLOTS
  <2>1. G \in SUBSET (0 .. HASH_SLOTS)
    OBVIOUS
  <2> HIDE DEF G
  <2> QED BY <1>3, <1>4, <2>1, BoundedInduction, Sizes
<1>6. HASH_SLOTS \in G
  <2> HIDE DEF G
  <2> QED BY <1>5, Sizes
<1>7. at[HASH_SLOTS] \in Slot \cup {None} /\ HASH_SLOTS \in 0 .. HASH_SLOTS
  BY Sizes DEF Walked
<1> QED
  BY <1>2, <1>6, <1>7, Sizes

\* A walk visits exactly what can be reached.
LEMMA WalkReach ==
  ASSUME NEW tb \in [Slot -> Entry], NEW at, NEW h \in Slot, Walked(at, tb, h), Acyclic(tb)
  PROVE  /\ \A k \in 0 .. HASH_SLOTS : at[k] # None => at[k] \in reach(tb, h)
         /\ \A s \in reach(tb, h) : \E k \in 0 .. HASH_SLOTS : at[k] = s
<1>1. Closed(tb, h, reach(tb, h))
  BY ReachClosed
<1> DEFINE G == {k \in 0 .. HASH_SLOTS : at[k] # None => at[k] \in reach(tb, h)}
<1>2. 0 \in G
  BY <1>1, Sizes DEF Walked, Closed
<1>3. ASSUME NEW k \in 0 .. HASH_SLOTS - 1, k \in G PROVE k + 1 \in G
  <2>0. k \in 0 .. HASH_SLOTS /\ k < HASH_SLOTS /\ k + 1 \in 0 .. HASH_SLOTS
        /\ k + 1 \in 1 .. HASH_SLOTS /\ (k + 1) - 1 = k
    BY Sizes
  <2>1. CASE at[k] = None
    <3>1. at[k + 1] = onwards(tb)[at[k]]
      BY <2>0 DEF Walked
    <3>2. at[k + 1] = None
      BY <2>1, <3>1 DEF onwards
    <3> QED BY <2>0, <3>2
  <2>2. CASE at[k] # None
    <3>1. at[k + 1] = nx(tb, at[k])
      BY <2>0, <2>2, WalkNx
    <3>2. at[k] \in reach(tb, h)
      BY <1>3, <2>2
    <3> QED BY <1>1, <2>0, <3>1, <3>2 DEF Closed
  <2> QED BY <2>1, <2>2
<1>4. G = 0 .. HASH_SLOTS
  <2>1. G \in SUBSET (0 .. HASH_SLOTS)
    OBVIOUS
  <2> HIDE DEF G
  <2> QED BY <1>2, <1>3, <2>1, BoundedInduction, Sizes
<1>5. \A k \in 0 .. HASH_SLOTS : at[k] # None => at[k] \in reach(tb, h)
  BY <1>4
<1> HIDE DEF G
<1> DEFINE S == {s \in Slot : \E k \in 0 .. HASH_SLOTS : at[k] = s}
<1>6. in_use(tb, h) => h \in S
  BY Sizes DEF Walked
<1>7. ASSUME NEW s \in S, nx(tb, s) # None PROVE nx(tb, s) \in S
  <2>1. PICK k \in 0 .. HASH_SLOTS : at[k] = s /\ s \in Slot
    OBVIOUS
  <2>2. s # None /\ at[HASH_SLOTS] = None
    BY <2>1, WalkEnds, Sizes
  <2>3. k < HASH_SLOTS /\ k + 1 \in 0 .. HASH_SLOTS
    BY <2>1, <2>2, Sizes
  <2>4. at[k + 1] = nx(tb, s)
    BY <2>1, <2>2, <2>3, WalkNx
  <2>5. nx(tb, s) \in Slot
    BY <1>7, <2>1, NxType
  <2> QED BY <2>3, <2>4, <2>5
<1>8. Closed(tb, h, S) /\ S \in SUBSET Slot
  BY <1>6, <1>7 DEF Closed
<1>9. reach(tb, h) \subseteq S
  <2> HIDE DEF S
  <2> QED BY <1>8, ReachLeast
<1> QED
  BY <1>5, <1>9

\* What a lookup finds is on the chain and holds the key; what it does not find
\* is not on the chain.
Finds(tb, k, s) ==
  IF s = None THEN \A t \in reach(tb, Hash[k]) : tb[t].key # k
  ELSE s \in reach(tb, Hash[k]) /\ tb[s].key = k

LEMMA FindIs ==
  ASSUME kv_mapping_table \in [Slot -> Entry], Acyclic(kv_mapping_table), NEW k \in Keys
  PROVE  Finds(kv_mapping_table, k, find(k))
<1>1. PICK tb : tb = kv_mapping_table
  OBVIOUS
<1>2. PICK h \in Slot : h = Hash[k]
  BY Sizes
<1>3. PICK at : at = walk(h)
  OBVIOUS
<1>4. Walked(at, tb, h)
  BY <1>1, <1>3, WalkIs
<1>5. /\ \A n \in 0 .. HASH_SLOTS : at[n] # None => at[n] \in reach(tb, h)
      /\ \A s \in reach(tb, h) : \E n \in 0 .. HASH_SLOTS : at[n] = s
  BY <1>1, <1>4, WalkReach
<1> DEFINE hits == {n \in 0 .. HASH_SLOTS : at[n] # None /\ tb[at[n]].key = k}
<1>6. find(k) = IF hits = {} THEN None ELSE at[Min(hits)]
  BY <1>1, <1>2, <1>3 DEF find
<1>7. CASE hits = {}
  <2>1. find(k) = None
    BY <1>6, <1>7
  <2>2. ASSUME NEW t \in reach(tb, h) PROVE tb[t].key # k
    <3>1. PICK n \in 0 .. HASH_SLOTS : at[n] = t
      BY <1>5
    <3>2. t # None
      BY <1>1, ReachUsed, Sizes
    <3> QED BY <1>7, <3>1, <3>2
  <2> QED BY <1>1, <1>2, <2>1, <2>2 DEF Finds
<1>8. CASE hits # {}
  <2>1. Min(hits) \in hits
    <3>1. hits \in SUBSET Nat
      BY Sizes
    <3> HIDE DEF hits
    <3> QED BY <1>8, <3>1, MinIs
  <2>2. PICK n \in 0 .. HASH_SLOTS : n = Min(hits) /\ at[n] # None /\ tb[at[n]].key = k
    BY <2>1
  <2>3. find(k) = at[n]
    <3> HIDE DEF hits
    <3> QED BY <1>6, <1>8, <2>2
  <2> QED BY <1>1, <1>2, <1>5, <2>2, <2>3 DEF Finds
<1> QED
  BY <1>7, <1>8

\* The tail of a chain, where find_next_slot links the new entry.
LEMMA TailIs ==
  ASSUME kv_mapping_table \in [Slot -> Entry], Acyclic(kv_mapping_table), NEW h \in Slot, used(h)
  PROVE  /\ tail_of(h) \in reach(kv_mapping_table, h)
         /\ nx(kv_mapping_table, tail_of(h)) = None
<1>1. PICK tb : tb = kv_mapping_table
  OBVIOUS
<1>2. PICK at : at = walk(h)
  OBVIOUS
<1>3. Walked(at, tb, h)
  BY <1>1, <1>2, WalkIs
<1> DEFINE on == {n \in 0 .. HASH_SLOTS : at[n] # None}
<1>4. PICK m : m = Max(on)
  OBVIOUS
<1>5. tail_of(h) = at[m]
  BY <1>2, <1>4 DEF tail_of
<1>6. m \in on /\ \A n \in on : n <= m
  <2>1. 0 \in on
    <3>1. at[0] = h
      BY <1>1, <1>3 DEF Walked, used, in_use
    <3> QED BY <3>1, Sizes
  <2>2. on \in SUBSET (0 .. HASH_SLOTS)
    OBVIOUS
  <2> HIDE DEF on
  <2> QED BY <1>4, <2>1, <2>2, MaxIs, Sizes
<1>7. m \in 0 .. HASH_SLOTS /\ at[m] # None /\ at[HASH_SLOTS] = None
  BY <1>1, <1>3, <1>6, WalkEnds
<1>8. m < HASH_SLOTS /\ m + 1 \in 0 .. HASH_SLOTS
  BY <1>7, Sizes
<1>9. at[m + 1] = nx(tb, at[m])
  BY <1>1, <1>3, <1>7, <1>8, WalkNx
<1>10. at[m + 1] = None
  <2>1. m + 1 \notin on
    <3> HIDE DEF on
    <3> QED BY <1>6, <1>7, Sizes
  <2> QED BY <1>8, <2>1
<1>11. at[m] \in reach(tb, h)
  BY <1>1, <1>3, <1>7, WalkReach
<1> QED
  BY <1>1, <1>5, <1>9, <1>10, <1>11

\* x is a free slot, linked from the tail of the key's chain if there is one
Vacant(tb, k, slot, prev) ==
  /\ slot \in Slot /\ ~in_use(tb, slot)
  /\ IF in_use(tb, Hash[k]) THEN prev \in reach(tb, Hash[k]) /\ nx(tb, prev) = None
     ELSE prev = None /\ slot = Hash[k]

LEMMA NewSlotIs ==
  ASSUME kv_mapping_table \in [Slot -> Entry], Acyclic(kv_mapping_table), NEW k \in Keys,
         slot_available(k)
  PROVE  Vacant(kv_mapping_table, k, new_slot(k).slot, new_slot(k).prev)
<1>1. PICK h \in Slot : h = Hash[k]
  BY Sizes
<1>2. CASE ~used(h)
  BY <1>1, <1>2 DEF new_slot, Vacant, used, in_use
<1>3. CASE used(h)
  <2>1. PICK t : t = tail_of(h)
    OBVIOUS
  <2>2. t \in reach(kv_mapping_table, h) /\ nx(kv_mapping_table, t) = None
    BY <1>3, <2>1, TailIs
  <2>3. t \in Slot
    BY <2>2, ReachUsed
  <2>4. free_from(t) # {}
    BY <1>1, <1>3, <2>1 DEF slot_available
  <2>5. PICK d : d = Min(free_from(t))
    OBVIOUS
  <2>6. d \in free_from(t)
    <3>1. free_from(t) \in SUBSET Nat
      BY Sizes DEF free_from
    <3> QED BY <2>4, <2>5, <3>1, MinIs
  <2>7. d \in 0 .. HASH_SLOTS - 1 /\ ~used(probe_order(t)[d])
    BY <2>6 DEF free_from
  <2>8. probe_order(t)[d] \in Slot
    <3>1. probe_order(t)[d] = (t + d) % HASH_SLOTS
      BY <2>7 DEF probe_order
    <3>2. t + d \in Nat
      BY <2>3, <2>7, Sizes
    <3>3. (t + d) % HASH_SLOTS \in 0 .. HASH_SLOTS - 1
      <4>1. HASH_SLOTS \in Nat \ {0}
        BY Sizes
      <4> QED BY <3>2, <4>1, DivMod
    <3> QED BY <3>1, <3>3, Sizes
  <2>9. new_slot(k) = [slot |-> probe_order(t)[d], prev |-> t]
    BY <1>1, <1>3, <2>1, <2>5 DEF new_slot
  <2> QED BY <1>1, <1>3, <2>2, <2>7, <2>8, <2>9 DEF Vacant, used, in_use
<1> QED
  BY <1>2, <1>3

-----------------------------------------------------------------------------
(* What the operations do to the table and to its chains.                  *)

\* tb2 is tb with an entry for k in the free slot sl
Added(tb, tb2, k, sl, off, len) ==
  /\ \A s \in Slot : s # sl => /\ tb2[s].key = tb[s].key /\ tb2[s].length = tb[s].length
                               /\ tb2[s].mem_offset = tb[s].mem_offset
  /\ tb2[sl].key = k /\ tb2[sl].mem_offset = off /\ tb2[sl].length = len
  /\ \A h \in Slot : reach(tb, h) \subseteq reach(tb2, h) /\ reach(tb2, h) \subseteq reach(tb, h) \cup {sl}
  /\ sl \in reach(tb2, Hash[k])

\* new_mapping_entry makes no chain circular, breaks none and adds to each at
\* most the new entry.
LEMMA InstallTable ==
  ASSUME NEW tb, NEW tb2, NEW k \in Keys, NEW sl, NEW pv, NEW off \in Offset, NEW len \in Lengths,
         Filled(tb), Acyclic(tb), Vacant(tb, k, sl, pv),
         tb2 = with_entry(tb, [slot |-> sl, prev |-> pv], k, off, len)
  PROVE  Filled(tb2) /\ Acyclic(tb2) /\ Added(tb, tb2, k, sl, off, len)
<1>1. PICK h0 \in Slot : h0 = Hash[k]
  BY Sizes
<1>2. tb \in [Slot -> Entry] /\ sl \in Slot /\ ~in_use(tb, sl) /\ tb[sl] = free_entry
  BY DEF Filled, Vacant
<1>3. pv # None => pv \in Slot /\ pv # sl /\ in_use(tb, pv) /\ pv \in reach(tb, h0) /\ nx(tb, pv) = None
  <2>1. pv # None => pv \in reach(tb, h0) /\ nx(tb, pv) = None
    BY <1>1 DEF Vacant
  <2> QED BY <1>2, <2>1, ReachUsed
<1>4. pv = None => ~in_use(tb, h0) /\ sl = h0
  <2>1. in_use(tb, h0) => pv \in reach(tb, h0)
    BY <1>1 DEF Vacant
  <2>2. in_use(tb, h0) => pv # None
    BY <1>2, <2>1, ReachUsed, Sizes
  <2> QED BY <1>1, <2>2 DEF Vacant
<1> DEFINE ent == [key |-> k, mem_offset |-> off, length |-> len, next_slot |-> None]
           lnk(e) == [key |-> e.key, mem_offset |-> e.mem_offset, length |-> e.length,
                      next_slot |-> sl]
<1>5. \A s \in Slot : tb2[s] = IF s = sl THEN ent ELSE IF s = pv THEN lnk(tb[s]) ELSE tb[s]
  <2>1. PICK fl : fl = [tb EXCEPT ![sl] = [@ EXCEPT !.key = k, !.mem_offset = off, !.length = len]]
    OBVIOUS
  <2>2. fl \in [Slot -> Entry] /\ \A s \in Slot : fl[s] = IF s = sl THEN ent ELSE tb[s]
    <3>1. [tb[sl] EXCEPT !.key = k, !.mem_offset = off, !.length = len] = ent
      <4>1. PICK f \in Entry : f = tb[sl] /\ f.next_slot = None
        BY <1>2 DEF free_entry
      <4>2. PICK g : g = [f EXCEPT !.key = k]
        OBVIOUS
      <4>3. g = [key |-> k, mem_offset |-> f.mem_offset, length |-> f.length, next_slot |-> None]
        BY <4>1, <4>2 DEF Entry
      <4>4. PICK g2 : g2 = [g EXCEPT !.mem_offset = off]
        OBVIOUS
      <4>5. g2 = [key |-> k, mem_offset |-> off, length |-> f.length, next_slot |-> None]
        BY <4>3, <4>4
      <4>6. [g2 EXCEPT !.length = len] = ent
        BY <4>5
      <4>7. [f EXCEPT !.key = k, !.mem_offset = off, !.length = len] = [g2 EXCEPT !.length = len]
        BY <4>2, <4>4
      <4> QED BY <4>1, <4>6, <4>7
    <3>2. ent \in Entry
      BY DEF Entry
    <3> HIDE DEF ent
    <3> QED BY <1>2, <2>1, <3>1, <3>2
  <2>3. CASE pv = None
    <3>1. tb2 = fl
      BY <2>1, <2>3 DEF with_entry
    <3>2. \A s \in Slot : s # pv
      BY <2>3, Sizes
    <3> HIDE DEF ent
    <3> QED BY <2>2, <3>1, <3>2
  <2>4. CASE pv # None
    <3>1. tb2 = [fl EXCEPT ![pv].next_slot = sl]
      BY <2>1, <2>4 DEF with_entry
    <3>2. fl[pv] = tb[pv] /\ tb[pv] \in Entry
      BY <1>2, <1>3, <2>2, <2>4
    <3>3. [fl[pv] EXCEPT !.next_slot = sl] = lnk(tb[pv])
      BY <3>2 DEF Entry
    <3> HIDE DEF ent, lnk
    <3> QED BY <1>3, <2>2, <2>4, <3>1, <3>3
  <2> QED BY <2>3, <2>4
<1>6. tb2 = [s \in Slot |-> tb2[s]]
  BY <1>2 DEF with_entry
<1>7. \A s \in Slot : /\ in_use(tb2, s) <=> s = sl \/ in_use(tb, s)
                      /\ s # sl => /\ tb2[s].key = tb[s].key /\ tb2[s].length = tb[s].length
                                   /\ tb2[s].mem_offset = tb[s].mem_offset
                      /\ tb2[s].next_slot = IF s = sl THEN None ELSE IF s = pv THEN sl
                                            ELSE tb[s].next_slot
  <2> TAKE s \in Slot
  <2>1. CASE s = sl
    <3>1. tb2[s] = ent
      BY <1>5, <2>1
    <3> QED BY <2>1, <3>1, Sizes DEF in_use
  <2>2. CASE s # sl /\ s = pv
    <3>1. tb2[s] = lnk(tb[s])
      BY <1>5, <2>2
    <3> QED BY <2>2, <3>1 DEF in_use
  <2>3. CASE s # sl /\ s # pv
    <3>1. tb2[s] = tb[s]
      BY <1>5, <2>3
    <3> QED BY <2>3, <3>1 DEF in_use
  <2> QED BY <2>1, <2>2, <2>3
<1>8. tb2[sl] = ent
  BY <1>2, <1>5
<1>9. Filled(tb2)
  <2>1. ASSUME NEW s \in Slot
        PROVE  /\ tb2[s] \in Entry
               /\ IF in_use(tb2, s) THEN tb2[s].key \in Keys /\ tb2[s].length \in Lengths
                  ELSE tb2[s] = free_entry
    <3>0. tb[s] \in Entry /\ (in_use(tb, s) => tb[s].key \in Keys /\ tb[s].length \in Lengths)
          /\ (~in_use(tb, s) => tb[s] = free_entry)
      BY DEF Filled
    <3>1. CASE s = sl
      <4>1. tb2[s] = ent
        BY <1>8, <3>1
      <4> QED BY <4>1, Sizes DEF in_use, Entry
    <3>2. CASE s # sl /\ s = pv
      <4>1. tb2[s] = lnk(tb[s]) /\ in_use(tb, s)
        BY <1>3, <1>5, <3>2, Sizes
      <4>2. lnk(tb[s]) \in Entry
        BY <1>2, <3>0 DEF Entry
      <4> QED BY <3>0, <4>1, <4>2 DEF in_use
    <3>3. CASE s # sl /\ s # pv
      <4>1. tb2[s] = tb[s]
        BY <1>5, <3>3
      <4> QED BY <3>0, <4>1 DEF in_use
    <3> QED BY <3>1, <3>2, <3>3
  <2>2. tb2 \in [Slot -> Entry]
    BY <1>6, <2>1
  <2> QED BY <2>1, <2>2 DEF Filled
<1> HIDE DEF ent, lnk
<1>10. Acyclic(tb2)
  <2>1. PICK r : Ranked(tb, r)
    BY DEF Acyclic
  <2>2. /\ \A s \in Slot : r[s] \in 1 .. HASH_SLOTS
        /\ \A s, t \in Slot : r[s] = r[t] => s = t
        /\ \A s \in Slot : tb[s].next_slot # None => r[tb[s].next_slot] < r[s]
    BY <2>1 DEF Ranked
  <2> DEFINE q == [s \in Slot |-> IF s = sl THEN 1 ELSE IF r[s] < r[sl] THEN r[s] + 1 ELSE r[s]]
  <2>3. ASSUME NEW s \in Slot, s # sl
        PROVE  /\ q[s] \in 2 .. HASH_SLOTS /\ q[s] = IF r[s] < r[sl] THEN r[s] + 1 ELSE r[s]
               /\ r[s] # r[sl]
    <3>1. r[s] \in 1 .. HASH_SLOTS /\ r[sl] \in 1 .. HASH_SLOTS /\ r[s] # r[sl]
      BY <1>2, <2>2, <2>3
    <3>2. q[s] = IF r[s] < r[sl] THEN r[s] + 1 ELSE r[s]
      BY <2>3
    <3>3. PICK a, b, m, x : a = r[s] /\ b = r[sl] /\ m = HASH_SLOTS /\ x = q[s]
      OBVIOUS
    <3>4. x \in 2 .. m
      <4> HIDE DEF q
      <4>1. m \in Nat /\ a \in 1 .. m /\ b \in 1 .. m /\ a # b /\ x = IF a < b THEN a + 1 ELSE a
        BY <3>1, <3>2, <3>3, Sizes
      <4> QED BY <4>1
    <3> QED BY <3>1, <3>2, <3>3, <3>4
  <2>4. q[sl] = 1
    BY <1>2
  <2>5. q \in [Slot -> 1 .. HASH_SLOTS]
    <3>1. \A s \in Slot : q[s] \in 1 .. HASH_SLOTS
      <4> TAKE s \in Slot
      <4> HIDE DEF q
      <4> QED BY <2>3, <2>4, Sizes
    <3>2. q = [s \in Slot |-> q[s]]
      OBVIOUS
    <3> HIDE DEF q
    <3> QED BY <3>1, <3>2
  <2> HIDE DEF q
  <2>6. ASSUME NEW s \in Slot, NEW t \in Slot, q[s] = q[t] PROVE s = t
    <3>1. CASE s = sl \/ t = sl
      BY <2>3, <2>4, <2>6, <3>1
    <3>2. CASE s # sl /\ t # sl
      <4>1. r[s] \in Nat /\ r[t] \in Nat /\ r[sl] \in Nat /\ r[s] # r[sl] /\ r[t] # r[sl]
        BY <1>2, <2>2, <2>3, <3>2
      <4>2. r[s] = r[t]
        BY <2>3, <2>6, <3>2, <4>1
      <4> QED BY <2>2, <4>2
    <3> QED BY <3>1, <3>2
  <2>7. ASSUME NEW s \in Slot, tb2[s].next_slot # None PROVE q[tb2[s].next_slot] < q[s]
    <3>1. s # sl
      BY <1>7, <2>7
    <3>2. CASE tb2[s].next_slot = sl
      BY <2>3, <2>4, <3>1, <3>2
    <3>3. CASE tb2[s].next_slot # sl
      <4>1. PICK t : t = tb[s].next_slot
        OBVIOUS
      <4>2. tb2[s].next_slot = t /\ t # None /\ t # sl
        BY <1>7, <2>7, <3>1, <3>3, <4>1
      <4>3. t \in Slot
        BY <1>2, <4>1, <4>2, NxType
      <4>4. r[t] < r[s] /\ r[s] \in Nat /\ r[t] \in Nat /\ r[sl] \in Nat
        BY <1>2, <2>2, <4>1, <4>2, <4>3
      <4>5. /\ q[s] = (IF r[s] < r[sl] THEN r[s] + 1 ELSE r[s]) /\ r[s] # r[sl]
            /\ q[t] = (IF r[t] < r[sl] THEN r[t] + 1 ELSE r[t]) /\ r[t] # r[sl]
        BY <2>3, <3>1, <4>2, <4>3
      <4>6. q[t] < q[s]
        BY <4>4, <4>5
      <4> QED BY <4>2, <4>6
    <3> QED BY <3>2, <3>3
  <2>8. Ranked(tb2, q)
    BY <2>5, <2>6, <2>7 DEF Ranked
  <2> QED BY <2>8 DEF Acyclic
<1>11. tb2 \in [Slot -> Entry]
  BY <1>9 DEF Filled
<1>12. \A s \in Slot : /\ nx(tb2, s) = nx(tb, s) \/ nx(tb2, s) = sl
                       /\ nx(tb, s) # None => nx(tb2, s) = nx(tb, s)
  <2> TAKE s \in Slot
  <2>0. tb[s].next_slot \in Slot \cup {None}
    BY <1>2, NxType
  <2>1. CASE s = sl
    <3>1. nx(tb2, s) = None /\ nx(tb, s) = None
      BY <1>2, <1>7, <2>1 DEF nx
    <3> QED BY <3>1
  <2>2. CASE s # sl /\ s = pv
    <3>1. nx(tb, s) = None
      BY <1>3, <2>2, Sizes
    <3>2. tb2[s].next_slot = sl /\ in_use(tb2, s) /\ in_use(tb2, sl)
      BY <1>2, <1>3, <1>7, <2>2, Sizes
    <3>3. nx(tb2, s) = sl
      BY <1>2, <3>2, Sizes DEF nx
    <3> QED BY <3>1, <3>3
  <2>3. CASE s # sl /\ s # pv
    <3>1. tb2[s].next_slot = tb[s].next_slot /\ (in_use(tb2, s) <=> in_use(tb, s))
      BY <1>7, <2>3
    <3>2. CASE tb[s].next_slot = None
      BY <3>1, <3>2 DEF nx
    <3>3. CASE tb[s].next_slot # None
      <4>1. PICK t \in Slot : t = tb[s].next_slot
        BY <2>0, <3>3
      <4>2. in_use(tb2, t) <=> t = sl \/ in_use(tb, t)
        BY <1>7
      <4> QED BY <3>1, <3>3, <4>1, <4>2, Sizes DEF nx
    <3> QED BY <3>2, <3>3
  <2> QED BY <2>1, <2>2, <2>3
<1>13. ASSUME NEW h \in Slot PROVE reach(tb, h) \subseteq reach(tb2, h)
  <2>1. Closed(tb2, h, reach(tb2, h)) /\ reach(tb2, h) \in SUBSET Slot
    BY <1>11, ReachClosed
  <2>2. Closed(tb, h, reach(tb2, h))
    <3>1. in_use(tb, h) => h \in reach(tb2, h)
      BY <1>7, <2>1 DEF Closed
    <3>2. ASSUME NEW s \in reach(tb2, h), nx(tb, s) # None PROVE nx(tb, s) \in reach(tb2, h)
      <4>1. s \in Slot
        BY <2>1
      <4>2. nx(tb2, s) = nx(tb, s)
        BY <1>12, <3>2, <4>1
      <4> QED BY <2>1, <3>2, <4>2 DEF Closed
    <3> QED BY <3>1, <3>2 DEF Closed
  <2> QED BY <2>1, <2>2, ReachLeast
<1>14. ASSUME NEW h \in Slot PROVE reach(tb2, h) \subseteq reach(tb, h) \cup {sl}
  <2>1. Closed(tb, h, reach(tb, h)) /\ reach(tb, h) \in SUBSET Slot
    BY <1>2, ReachClosed
  <2> DEFINE S == reach(tb, h) \cup {sl}
  <2>2. in_use(tb2, h) => h \in S
    BY <1>7, <2>1 DEF Closed
  <2>3. ASSUME NEW s \in S, nx(tb2, s) # None PROVE nx(tb2, s) \in S
    <3>1. s \in Slot
      BY <1>2, <2>1
    <3>2. CASE nx(tb2, s) = sl
      BY <3>2
    <3>3. CASE nx(tb2, s) # sl
      <4>1. nx(tb2, s) = nx(tb, s)
        BY <1>12, <3>1, <3>3
      <4>2. s # sl
        <5>1. nx(tb2, sl) = None
          BY <1>2, <1>7 DEF nx
        <5> QED BY <2>3, <5>1
      <4> QED BY <2>1, <2>3, <4>1, <4>2 DEF Closed
    <3> QED BY <3>2, <3>3
  <2>4. S \in SUBSET Slot
    BY <1>2, <2>1
  <2>5. Closed(tb2, h, S)
    BY <2>2, <2>3 DEF Closed
  <2> HIDE DEF S
  <2>6. reach(tb2, h) \subseteq S
    BY <2>4, <2>5, ReachLeast
  <2> QED BY <2>6 DEF S
<1>15. sl \in reach(tb2, h0)
  <2>1. Closed(tb2, h0, reach(tb2, h0))
    BY <1>11, ReachClosed
  <2>2. CASE pv = None
    <3>1. sl = h0 /\ in_use(tb2, sl)
      BY <1>2, <1>4, <1>7, <2>2
    <3> QED BY <2>1, <3>1 DEF Closed
  <2>3. CASE pv # None
    <3>1. pv \in reach(tb2, h0)
      BY <1>3, <1>13, <2>3
    <3>2. tb2[pv].next_slot = sl /\ in_use(tb2, pv) /\ in_use(tb2, sl)
      BY <1>2, <1>3, <1>7, <2>3
    <3>3. nx(tb2, pv) = sl /\ sl # None
      BY <1>2, <3>2, Sizes DEF nx
    <3> QED BY <2>1, <3>1, <3>3 DEF Closed
  <2> QED BY <2>2, <2>3
<1>16. tb2[sl].key = k /\ tb2[sl].mem_offset = off /\ tb2[sl].length = len
  BY <1>8 DEF ent
<1> QED
  BY <1>1, <1>7, <1>9, <1>10, <1>13, <1>14, <1>15, <1>16 DEF Added

\* delete_mapping_entry breaks chains and lengthens none.
LEMMA DeleteTable ==
  ASSUME NEW tb, NEW tb2, NEW s \in Slot, Filled(tb), Acyclic(tb),
         tb2 = [tb EXCEPT ![s] = free_entry]
  PROVE  /\ Filled(tb2) /\ Acyclic(tb2)
         /\ \A h \in Slot : reach(tb2, h) \subseteq reach(tb, h) \ {s}
<1>1. tb \in [Slot -> Entry]
  BY DEF Filled
<1>2. free_entry \in Entry
  BY DEF free_entry, Entry
<1>3. tb2 \in [Slot -> Entry] /\ tb2[s] = free_entry /\ \A t \in Slot : t # s => tb2[t] = tb[t]
  BY <1>1, <1>2
<1>4. ~in_use(tb2, s) /\ tb2[s].next_slot = None
  BY <1>3 DEF in_use, free_entry
<1>5. \A t \in Slot : t # s => (in_use(tb2, t) <=> in_use(tb, t))
  BY <1>3 DEF in_use
<1>6. Filled(tb2)
  <2>1. ASSUME NEW t \in Slot
        PROVE  IF in_use(tb2, t) THEN tb2[t].key \in Keys /\ tb2[t].length \in Lengths
               ELSE tb2[t] = free_entry
    <3>1. CASE t = s
      BY <1>3, <1>4, <3>1
    <3>2. CASE t # s
      <4>1. tb2[t] = tb[t]
        BY <1>3, <3>2
      <4> QED BY <1>5, <3>2, <4>1 DEF Filled
    <3> QED BY <3>1, <3>2
  <2> QED BY <1>3, <2>1 DEF Filled
<1>7. Acyclic(tb2)
  <2>1. PICK r : Ranked(tb, r)
    BY DEF Acyclic
  <2>2. \A t \in Slot : tb2[t].next_slot # None => t # s /\ tb2[t].next_slot = tb[t].next_slot
    BY <1>3, <1>4
  <2>3. Ranked(tb2, r)
    BY <2>1, <2>2 DEF Ranked
  <2> QED BY <2>3 DEF Acyclic
<1>8. \A t \in Slot : nx(tb2, t) # None => nx(tb2, t) = nx(tb, t) /\ nx(tb2, t) # s
  <2> TAKE t \in Slot
  <2> SUFFICES ASSUME nx(tb2, t) # None PROVE nx(tb2, t) = nx(tb, t) /\ nx(tb2, t) # s
    OBVIOUS
  <2>1. nx(tb2, t) = tb2[t].next_slot /\ in_use(tb2, t) /\ in_use(tb2, tb2[t].next_slot)
        /\ tb2[t].next_slot # None
    BY DEF nx
  <2>2. t # s /\ nx(tb2, t) # s
    BY <1>4, <2>1
  <2>3. PICK u \in Slot : u = tb2[t].next_slot
    BY <1>3, <2>1, NxType
  <2>4. tb[t].next_slot = u /\ in_use(tb, t) /\ in_use(tb, u) /\ u # None
    BY <1>3, <1>5, <2>1, <2>2, <2>3
  <2> QED BY <2>1, <2>2, <2>3, <2>4 DEF nx
<1>9. ASSUME NEW h \in Slot PROVE reach(tb2, h) \subseteq reach(tb, h) \ {s}
  <2>1. Closed(tb, h, reach(tb, h)) /\ reach(tb, h) \in SUBSET Slot
    BY <1>1, ReachClosed
  <2> DEFINE S == reach(tb, h) \ {s}
  <2>2. in_use(tb2, h) => h \in S
    BY <1>4, <1>5, <2>1 DEF Closed
  <2>3. ASSUME NEW t \in S, nx(tb2, t) # None PROVE nx(tb2, t) \in S
    <3>1. t \in Slot
      BY <2>1
    <3>2. nx(tb2, t) = nx(tb, t) /\ nx(tb2, t) # s
      BY <1>8, <2>3, <3>1
    <3> QED BY <2>1, <2>3, <3>2 DEF Closed
  <2>4. S \in SUBSET Slot
    BY <2>1
  <2>5. Closed(tb2, h, S)
    BY <2>2, <2>3 DEF Closed
  <2> HIDE DEF S
  <2>6. reach(tb2, h) \subseteq S
    BY <2>4, <2>5, ReachLeast
  <2> QED BY <2>6 DEF S
<1> QED
  BY <1>6, <1>7, <1>9

\* tb2 is tb with the length n in the entry s
Relabelled(tb, tb2, s, n) ==
  /\ \A h \in Slot : reach(tb2, h) = reach(tb, h)
  /\ \A t \in Slot : /\ tb2[t].key = tb[t].key /\ tb2[t].mem_offset = tb[t].mem_offset
                     /\ tb2[t].length = IF t = s THEN n ELSE tb[t].length

\* update_mapping_entry leaves the chains alone.
LEMMA LengthTable ==
  ASSUME NEW tb, NEW tb2, NEW s \in Slot, NEW n \in Lengths, Filled(tb), Acyclic(tb), in_use(tb, s),
         tb2 = [tb EXCEPT ![s].length = n]
  PROVE  Filled(tb2) /\ Acyclic(tb2) /\ Relabelled(tb, tb2, s, n)
<1>1. tb \in [Slot -> Entry] /\ tb[s] \in Entry
  BY DEF Filled
<1> DEFINE e2 == [key |-> tb[s].key, mem_offset |-> tb[s].mem_offset, length |-> n,
                  next_slot |-> tb[s].next_slot]
<1>2. e2 \in Entry /\ [tb[s] EXCEPT !.length = n] = e2
  BY <1>1 DEF Entry
<1>3. tb2 \in [Slot -> Entry] /\ tb2[s] = e2 /\ \A t \in Slot : t # s => tb2[t] = tb[t]
  <2> HIDE DEF e2
  <2> QED BY <1>1, <1>2
<1>4. \A t \in Slot : /\ tb2[t].key = tb[t].key /\ tb2[t].mem_offset = tb[t].mem_offset
                      /\ tb2[t].length = (IF t = s THEN n ELSE tb[t].length)
                      /\ tb2[t].next_slot = tb[t].next_slot
                      /\ (in_use(tb2, t) <=> in_use(tb, t))
  BY <1>3 DEF in_use
<1>5. Filled(tb2)
  <2>1. ASSUME NEW t \in Slot
        PROVE  IF in_use(tb2, t) THEN tb2[t].key \in Keys /\ tb2[t].length \in Lengths
               ELSE tb2[t] = free_entry
    <3>0. IF in_use(tb, t) THEN tb[t].key \in Keys /\ tb[t].length \in Lengths
          ELSE tb[t] = free_entry
      BY DEF Filled
    <3>1. CASE t = s
      <4>1. in_use(tb2, t) /\ tb2[t].key = tb[t].key /\ tb2[t].length = n
        BY <1>4, <3>1
      <4> QED BY <3>0, <3>1, <4>1
    <3>2. CASE t # s
      <4>1. tb2[t] = tb[t] /\ (in_use(tb2, t) <=> in_use(tb, t))
        BY <1>3, <1>4, <3>2
      <4> QED BY <3>0, <4>1
    <3> QED BY <3>1, <3>2
  <2> QED BY <1>3, <2>1 DEF Filled
<1>6. Acyclic(tb2)
  <2>1. PICK r : Ranked(tb, r)
    BY DEF Acyclic
  <2>2. Ranked(tb2, r)
    BY <1>4, <2>1 DEF Ranked
  <2> QED BY <2>2 DEF Acyclic
<1>7. \A t \in Slot : nx(tb2, t) = nx(tb, t)
  <2> TAKE t \in Slot
  <2>1. CASE tb[t].next_slot = None
    BY <1>4, <2>1 DEF nx
  <2>2. CASE tb[t].next_slot # None
    <3>1. tb[t].next_slot \in Slot
      BY <1>1, <2>2, NxType
    <3> QED BY <1>4, <3>1 DEF nx
  <2> QED BY <2>1, <2>2
<1>8. ASSUME NEW h \in Slot PROVE reach(tb2, h) = reach(tb, h)
  <2>1. \A S \in SUBSET Slot : Closed(tb2, h, S) <=> Closed(tb, h, S)
    BY <1>4, <1>7 DEF Closed
  <2> QED BY <2>1 DEF reach
<1> QED
  BY <1>4, <1>5, <1>6, <1>8 DEF Relabelled

-----------------------------------------------------------------------------
(* The invariant of the table, the command and the memory.                 *)

PC == {"idle", "lookup", "copy", "length", "slot", "install"}

Cmd == [pc : PC, op : Ops \cup {"none"}, todo : Seq(Sub), offset : Offset \cup {None},
        length : Lengths \cup {None}, slot : Slot \cup {None}, prev : Slot \cup {None}]

cmd == work[W]

\* no key has two entries on its chain
Unique(tb) ==
  \A k \in Keys : \A s, t \in reach(tb, Hash[k]) : tb[s].key = k /\ tb[t].key = k => s = t

\* the command c has found the entry of its key
At(tb, c) ==
  \E s : /\ s # None /\ Finds(tb, Head(c.todo).key, s)
         /\ tb[s].mem_offset = c.offset /\ tb[s].length = c.length

\* the command c of the table's one user knows the table as it is
Good(tb, c) ==
  /\ c.pc = "idle" => c = idle
  /\ c.pc # "idle" => c.todo # <<>> /\ c.op \in {"store", "batch"} /\ c.op \in Ops
  /\ c.pc = "copy" => IF c.offset = None THEN Finds(tb, Head(c.todo).key, None) ELSE At(tb, c)
  /\ c.pc = "length" => /\ At(tb, c) /\ c.op = "store"
                        /\ Head(c.todo).len <= SMALL_LENGTH /\ c.length <= SMALL_LENGTH
  /\ c.pc \in {"slot", "install"} => c.offset \in Offset /\ Finds(tb, Head(c.todo).key, None)
  /\ c.pc = "install" => Vacant(tb, Head(c.todo).key, c.slot, c.prev)

\* the allocations c may still make
due(c) == IF c.pc \in {"slot", "install"} THEN Len(c.todo) - 1 ELSE Len(c.todo)

HALF == STORAGE_SIZE \div 2

Budget(al, c) ==
  IF ALLOCATOR_TYPE = "BITMAP"
  THEN /\ (al.small + due(c)) * SMALL_LENGTH <= HALF
       /\ (al.large + due(c)) * LARGE_LENGTH <= HALF
  ELSE al.latest + due(c) * MaxLength <= STORAGE_SIZE

Alloc == [latest : Nat, small : Nat, large : Nat]

Opened == [open : {TRUE}, current_pos : 0 .. HASH_SLOTS, end : BOOLEAN,
           reported : SUBSET Keys, twice : SUBSET Keys, owed : SUBSET Keys]

Handle == {closed} \cup Opened

Table == Filled(kv_mapping_table) /\ Acyclic(kv_mapping_table) /\ Unique(kv_mapping_table)

Performing ==
  /\ work \in [{W} -> Cmd] /\ Good(kv_mapping_table, cmd)
  /\ alloc \in Alloc /\ Budget(alloc, cmd)
  /\ cmd.pc # "idle" => reply = no_reply

Base ==
  /\ Table /\ Performing
  /\ DOMAIN storage = Offset
  /\ iter_handle \in [1 .. NR_ITER -> Handle]

\* a command, field by field
command(pc, op, todo, offset, length, slot, prev) ==
  [pc |-> pc, op |-> op, todo |-> todo, offset |-> offset, length |-> length,
   slot |-> slot, prev |-> prev]

LEMMA IdleIs == idle = command("idle", "none", <<>>, None, None, None, None)
BY DEF idle, command

LEMMA BeginIs ==
  ASSUME NEW op, NEW todo
  PROVE  [idle EXCEPT !.pc = "lookup", !.op = op, !.todo = todo]
           = command("lookup", op, todo, None, None, None, None)
<1>1. PICK f : f = [idle EXCEPT !.pc = "lookup"]
  OBVIOUS
<1>2. f = command("lookup", "none", <<>>, None, None, None, None)
  BY <1>1, IdleIs DEF command
<1>3. PICK g : g = [f EXCEPT !.op = op]
  OBVIOUS
<1>4. g = command("lookup", op, <<>>, None, None, None, None)
  BY <1>2, <1>3 DEF command
<1>5. [g EXCEPT !.todo = todo] = command("lookup", op, todo, None, None, None, None)
  BY <1>4 DEF command
<1>6. [idle EXCEPT !.pc = "lookup", !.op = op, !.todo = todo] = [g EXCEPT !.todo = todo]
  BY <1>1, <1>3
<1> QED
  BY <1>5, <1>6

\* The updates of a command, field by field.
LEMMA CmdIs ==
  ASSUME NEW c \in Cmd
  PROVE  c = command(c.pc, c.op, c.todo, c.offset, c.length, c.slot, c.prev)
BY DEF Cmd, command

LEMMA CopyIs ==
  ASSUME NEW c \in Cmd, NEW off, NEW len
  PROVE  [c EXCEPT !.pc = "copy", !.offset = off, !.length = len]
           = command("copy", c.op, c.todo, off, len, c.slot, c.prev)
<1>1. PICK f : f = [c EXCEPT !.pc = "copy"]
  OBVIOUS
<1>2. f = command("copy", c.op, c.todo, c.offset, c.length, c.slot, c.prev)
  BY <1>1 DEF command, Cmd
<1>3. PICK g : g = [f EXCEPT !.offset = off]
  OBVIOUS
<1>4. g = command("copy", c.op, c.todo, off, c.length, c.slot, c.prev)
  BY <1>2, <1>3 DEF command
<1>5. [g EXCEPT !.length = len] = command("copy", c.op, c.todo, off, len, c.slot, c.prev)
  BY <1>4 DEF command
<1>6. [c EXCEPT !.pc = "copy", !.offset = off, !.length = len] = [g EXCEPT !.length = len]
  BY <1>1, <1>3
<1> QED
  BY <1>5, <1>6

LEMMA SlotIs ==
  ASSUME NEW c \in Cmd, NEW off
  PROVE  [c EXCEPT !.pc = "slot", !.offset = off]
           = command("slot", c.op, c.todo, off, c.length, c.slot, c.prev)
<1>1. PICK f : f = [c EXCEPT !.pc = "slot"]
  OBVIOUS
<1>2. f = command("slot", c.op, c.todo, c.offset, c.length, c.slot, c.prev)
  BY <1>1 DEF command, Cmd
<1>3. [f EXCEPT !.offset = off] = command("slot", c.op, c.todo, off, c.length, c.slot, c.prev)
  BY <1>2 DEF command
<1>4. [c EXCEPT !.pc = "slot", !.offset = off] = [f EXCEPT !.offset = off]
  BY <1>1
<1> QED
  BY <1>3, <1>4

LEMMA InstallIs ==
  ASSUME NEW c \in Cmd, NEW sl, NEW pv
  PROVE  [c EXCEPT !.pc = "install", !.slot = sl, !.prev = pv]
           = command("install", c.op, c.todo, c.offset, c.length, sl, pv)
<1>1. PICK f : f = [c EXCEPT !.pc = "install"]
  OBVIOUS
<1>2. f = command("install", c.op, c.todo, c.offset, c.length, c.slot, c.prev)
  BY <1>1 DEF command, Cmd
<1>3. PICK g : g = [f EXCEPT !.slot = sl]
  OBVIOUS
<1>4. g = command("install", c.op, c.todo, c.offset, c.length, sl, c.prev)
  BY <1>2, <1>3 DEF command
<1>5. [g EXCEPT !.prev = pv] = command("install", c.op, c.todo, c.offset, c.length, sl, pv)
  BY <1>4 DEF command
<1>6. [c EXCEPT !.pc = "install", !.slot = sl, !.prev = pv] = [g EXCEPT !.prev = pv]
  BY <1>1, <1>3
<1> QED
  BY <1>5, <1>6

LEMMA LengthIs ==
  ASSUME NEW c \in Cmd
  PROVE  [c EXCEPT !.pc = "length"]
           = command("length", c.op, c.todo, c.offset, c.length, c.slot, c.prev)
<1>1. PICK f : f = [c EXCEPT !.pc = "length"]
  OBVIOUS
<1>2. f = command("length", c.op, c.todo, c.offset, c.length, c.slot, c.prev)
  BY <1>1 DEF command, Cmd
<1> QED
  BY <1>1, <1>2

\* The state of the one worker.
LEMMA WorkTo ==
  ASSUME NEW c \in Cmd, work \in [{W} -> Cmd], work' = [work EXCEPT ![W] = c]
  PROVE  work' \in [{W} -> Cmd] /\ cmd' = c
BY DEF cmd

\* What is left of a command when one of its stores is done.
LEMMA DoneIs ==
  ASSUME work \in [{W} -> Cmd], cmd.todo # <<>>, cmd.op \in Ops, cmd.op \in {"store", "batch"},
         NEW tb
  PROVE  /\ done(W) \in Cmd /\ Good(tb, done(W))
         /\ Len(done(W).todo) = Len(cmd.todo) - 1 /\ due(done(W)) = Len(cmd.todo) - 1
         /\ done(W).pc \in {"idle", "lookup"}
         /\ done(W).todo = Tail(cmd.todo)
<1>1. PICK q \in Seq(Sub) : q = cmd.todo
  BY DEF cmd, Cmd
<1>2. PICK t : t = Tail(q)
  OBVIOUS
<1>3. t \in Seq(Sub) /\ Len(t) = Len(q) - 1 /\ q # <<>>
  BY <1>1, <1>2, HeadTailProperties
<1>4. done(W) = IF t = <<>> THEN idle ELSE command("lookup", cmd.op, t, None, None, None, None)
  BY <1>1, <1>2, BeginIs DEF done, cmd
<1>5. CASE t = <<>>
  <2>1. done(W) = command("idle", "none", <<>>, None, None, None, None)
    BY <1>4, <1>5, IdleIs
  <2>2. done(W) \in Cmd
    BY <2>1 DEF command, Cmd, PC
  <2>3. Good(tb, done(W))
    BY <1>4, <1>5, <2>1 DEF Good, command
  <2>4. Len(<<>>) = Len(q) - 1
    BY <1>3, <1>5
  <2> QED BY <1>1, <1>2, <1>5, <2>1, <2>2, <2>3, <2>4 DEF due, command
<1>6. CASE t # <<>>
  <2>1. done(W) = command("lookup", cmd.op, t, None, None, None, None)
    BY <1>4, <1>6
  <2>2. done(W) \in Cmd
    BY <1>3, <2>1 DEF command, Cmd, PC
  <2>3. Good(tb, done(W))
    BY <1>6, <2>1 DEF Good, command
  <2> QED BY <1>1, <1>2, <1>3, <2>1, <2>2, <2>3 DEF due, command
<1> QED
  BY <1>5, <1>6

\* The store the worker is at.
LEMMA SubIs ==
  ASSUME work \in [{W} -> Cmd], cmd.todo # <<>>
  PROVE  /\ sub(W) = Head(cmd.todo) /\ sub(W) \in Sub /\ Len(cmd.todo) \in Nat /\ Len(cmd.todo) >= 1
         /\ sub(W).key \in Keys /\ sub(W).len \in Lengths
<1>1. PICK q \in Seq(Sub) : q = cmd.todo
  BY DEF cmd, Cmd
<1>2. Head(q) \in Sub /\ Len(q) \in Nat /\ Len(q) >= 1
  BY <1>1, HeadTailProperties
<1> QED
  BY <1>1, <1>2 DEF sub, cmd, Sub

LEMMA LessBudget ==
  ASSUME NEW al \in Alloc, NEW c, NEW c2, Budget(al, c), due(c) \in Nat, due(c2) \in Nat,
         due(c2) <= due(c)
  PROVE  Budget(al, c2)
<1>1. PICK m \in Nat, n \in Nat : m = due(c) /\ n = due(c2)
  OBVIOUS
<1>2. n <= m
  BY <1>1
<1>3. CASE ALLOCATOR_TYPE = "BITMAP"
  <2>1. PICK a \in Nat, b \in Nat, s \in Nat, l \in Nat :
          a = al.small /\ b = al.large /\ s = SMALL_LENGTH /\ l = LARGE_LENGTH
    BY Sizes DEF Alloc
  <2>2. PICK h : h = HALF
    OBVIOUS
  <2>3. (a + m) * s <= h /\ (b + m) * l <= h
    BY <1>1, <1>3, <2>1, <2>2 DEF Budget
  <2>4. h \in Nat
    BY <2>2, Sizes, Half2 DEF HALF
  <2>5. (a + n) * s <= (a + m) * s /\ (b + n) * l <= (b + m) * l
    BY <1>2, <2>1, MulMono
  <2>6. (a + n) * s <= h /\ (b + n) * l <= h
    BY <2>3, <2>4, <2>5
  <2> QED BY <1>1, <1>3, <2>1, <2>2, <2>6 DEF Budget
<1>4. CASE ALLOCATOR_TYPE # "BITMAP"
  <2>1. PICK a \in Nat, l \in Nat : a = al.latest /\ l = MaxLength
    BY Sizes, MaxLengthIs DEF Alloc
  <2>2. a + m * l <= STORAGE_SIZE
    BY <1>1, <1>4, <2>1 DEF Budget
  <2>3. n * l <= m * l /\ n * l \in Nat /\ m * l \in Nat
    BY <1>2, MulMono
  <2>4. a + n * l <= STORAGE_SIZE
    BY <2>2, <2>3, Sizes
  <2> QED BY <1>1, <1>4, <2>1, <2>4 DEF Budget
<1> QED
  BY <1>3, <1>4

\* A step of a store that leaves the table alone, or has changed it.
LEMMA StepTo ==
  ASSUME NEW c \in Cmd, work \in [{W} -> Cmd], work' = [work EXCEPT ![W] = c],
         Good(kv_mapping_table', c), alloc' \in Alloc, Budget(alloc', c),
         reply' = no_reply
  PROVE  Performing'
<1>1. work' \in [{W} -> Cmd] /\ cmd' = c
  BY WorkTo
<1>2. Good(kv_mapping_table', cmd') /\ Budget(alloc', cmd')
  BY <1>1
<1> QED
  BY <1>1, <1>2 DEF Performing

\* A step that neither begins nor ends a command, between two commands.
LEMMA IdleFrame ==
  ASSUME Performing, work[W] = idle, UNCHANGED <<work, alloc>>
  PROVE  Performing'
<1>1. Good(kv_mapping_table', cmd) /\ cmd.pc = "idle"
  BY DEF Good, cmd, idle
<1>2. cmd' = cmd
  BY DEF cmd
<1> QED
  BY <1>1, <1>2 DEF Performing

LEMMA BeginStep ==
  ASSUME OneWorker, Base, NEW op \in {"store", "batch"}, NEW subs \in Seq(Sub), subs # <<>>,
         begin(W, op, subs)
  PROVE  Base' /\ cmd.pc = "idle" /\ cmd'.pc = "lookup"
<1>1. PICK c : c = command("lookup", op, subs, None, None, None, None)
  OBVIOUS
<1>2. op \in Ops /\ work' = [work EXCEPT ![W] = c] /\ reply' = no_reply
      /\ UNCHANGED <<kv_mapping_table, alloc, storage, iter_handle>> /\ work[W] = idle
  BY <1>1, BeginIs DEF begin
<1>3. c \in Cmd
  BY <1>1, <1>2 DEF command, Cmd, PC
<1>4. Good(kv_mapping_table', c)
  BY <1>1, <1>2 DEF Good, command
<1>5. work \in [{W} -> Cmd] /\ alloc \in Alloc
  BY DEF Base, Performing
<1>6. Budget(alloc, c)
  <2>1. due(c) = Len(subs) /\ Len(subs) \in Nat
    BY <1>1 DEF due, command
  <2>2. MapThenSumSet(LAMBDA w : Len(work[w].todo), Workers) = 0
    <3>1. Workers = {W}
      BY OneIs
    <3>2. work[W].todo = <<>>
      BY <1>2 DEF idle
    <3>3. MapThenSumSet(LAMBDA w : Len(work[w].todo), {W}) = Len(work[W].todo) + 0
      BY SumOne
    <3>4. Len(work[W].todo) + 0 = 0
      BY <3>2
    <3> QED BY <3>1, <3>3, <3>4, Zenon
  <2>3. room(Len(subs))
    BY DEF begin
  <2>4. 0 + Len(subs) = Len(subs)
    BY <2>1
  <2> QED BY <2>1, <2>2, <2>3, <2>4 DEF room, Budget, HALF
<1>7. Performing'
  BY <1>2, <1>3, <1>4, <1>5, <1>6, StepTo
<1>8. cmd' = c
  BY <1>2, <1>3, <1>5, WorkTo
<1>9. cmd.pc = "idle" /\ c.pc = "lookup"
  BY <1>1, <1>2 DEF cmd, idle, command
<1>10. Base'
  BY <1>2, <1>7 DEF Base, Table
<1> QED
  BY <1>8, <1>9, <1>10

LEMMA StoreStep ==
  ASSUME OneWorker, Base, KvStore(W)
  PROVE  Base' /\ cmd.pc = "idle" /\ cmd'.pc = "lookup"
<1>1. PICK c \in Sub : begin(W, "store", <<c>>)
  BY DEF KvStore
<1>2. <<c>> \in Seq(Sub) /\ <<c>> # <<>>
  OBVIOUS
<1> QED
  BY <1>1, <1>2, BeginStep

LEMMA BatchStep ==
  ASSUME OneWorker, Base, KvBatch(W)
  PROVE  Base' /\ cmd.pc = "idle" /\ cmd'.pc = "lookup"
<1>1. PICK n \in 1 .. MAX_SUBS : \E cs \in [1 .. n -> Sub] : begin(W, "batch", cs)
  BY DEF KvBatch
<1>2. PICK cs \in [1 .. n -> Sub] : begin(W, "batch", cs)
  BY <1>1
<1>3. n \in Nat /\ n >= 1
  BY Sizes
<1>4. cs \in Seq(Sub) /\ cs # <<>>
  BY <1>3
<1> QED
  BY <1>2, <1>4, BeginStep

LEMMA LookupStep ==
  ASSUME Base, Lookup(W)
  PROVE  Base' /\ cmd.pc = "lookup" /\ cmd'.pc = "copy"
<1>1. PICK tb : tb = kv_mapping_table
  OBVIOUS
<1>2. /\ work \in [{W} -> Cmd] /\ cmd \in Cmd /\ cmd.pc = "lookup" /\ cmd.todo # <<>> /\ cmd.op \in Ops
      /\ cmd.op \in {"store", "batch"} /\ reply = no_reply /\ alloc \in Alloc /\ Budget(alloc, cmd)
      /\ Filled(tb) /\ Acyclic(tb) /\ tb \in [Slot -> Entry]
  BY <1>1 DEF Base, Performing, Good, Lookup, cmd, Table, Filled
<1>3. PICK k \in Keys : k = sub(W).key /\ k = Head(cmd.todo).key
  BY <1>2, SubIs
<1>4. PICK s : s = find(k)
  OBVIOUS
<1>5. Finds(tb, k, s)
  BY <1>1, <1>2, <1>4, FindIs
<1>6. s # None => s \in Slot /\ in_use(tb, s) /\ tb[s].mem_offset \in Offset /\ tb[s].length \in Lengths
  <2> SUFFICES ASSUME s # None PROVE s \in Slot /\ in_use(tb, s) /\ tb[s].mem_offset \in Offset
                                     /\ tb[s].length \in Lengths
    OBVIOUS
  <2>1. s \in reach(tb, Hash[k]) /\ Hash[k] \in Slot
    BY <1>5, Sizes DEF Finds
  <2>2. s \in Slot /\ in_use(tb, s)
    BY <1>2, <2>1, ReachUsed
  <2>3. tb[s] \in Entry /\ tb[s].length \in Lengths
    BY <1>2, <2>2 DEF Filled
  <2>4. tb[s].mem_offset \in Offset
    BY <2>2, <2>3 DEF Entry, in_use
  <2> QED BY <2>2, <2>3, <2>4
<1>7. PICK off : off = IF s = None THEN None ELSE tb[s].mem_offset
  OBVIOUS
<1>8. PICK len : len = IF s = None THEN None ELSE tb[s].length
  OBVIOUS
<1>9. PICK c : c = command("copy", cmd.op, cmd.todo, off, len, cmd.slot, cmd.prev)
  OBVIOUS
<1>10. work' = [work EXCEPT ![W] = c]
  <2>1. work' = [work EXCEPT ![W] = [@ EXCEPT !.pc = "copy", !.offset = off, !.length = len]]
    BY <1>1, <1>3, <1>4, <1>7, <1>8 DEF Lookup
  <2>2. [cmd EXCEPT !.pc = "copy", !.offset = off, !.length = len] = c
    BY <1>2, <1>9, CopyIs
  <2> QED BY <2>1, <2>2 DEF cmd
<1>11. c \in Cmd
  BY <1>2, <1>6, <1>7, <1>8, <1>9 DEF command, Cmd, PC
<1>12. UNCHANGED <<kv_mapping_table, alloc, storage, iter_handle, reply>>
  BY DEF Lookup
<1>13. Good(tb, c)
  <2>1. c.pc = "copy" /\ c.todo = cmd.todo /\ c.op = cmd.op /\ c.offset = off /\ c.length = len
    BY <1>9 DEF command
  <2>2. CASE s = None
    <3>1. off = None /\ Finds(tb, Head(c.todo).key, None)
      BY <1>3, <1>5, <1>7, <2>1, <2>2
    <3> QED BY <1>2, <2>1, <3>1 DEF Good
  <2>3. CASE s # None
    <3>1. off # None /\ At(tb, c)
      BY <1>3, <1>5, <1>6, <1>7, <1>8, <2>1, <2>3, Sizes DEF At
    <3> QED BY <1>2, <2>1, <3>1 DEF Good
  <2> QED BY <2>2, <2>3
<1>14. Budget(alloc, c)
  <2>1. due(c) = due(cmd)
    BY <1>2, <1>9 DEF due, command
  <2> QED BY <1>2, <2>1 DEF Budget
<1>15. Performing'
  BY <1>1, <1>2, <1>10, <1>11, <1>12, <1>13, <1>14, StepTo
<1>16. cmd' = c
  BY <1>2, <1>10, <1>11, WorkTo
<1>17. c.pc = "copy"
  BY <1>9 DEF command
<1>18. Base'
  BY <1>12, <1>15 DEF Base, Table
<1> QED
  BY <1>2, <1>16, <1>17, <1>18

-----------------------------------------------------------------------------
(* Value memory.                                                           *)

\* the memory an allocation of n cells takes
cap(n) ==
  IF ALLOCATOR_TYPE = "BITMAP" THEN IF n > SMALL_LENGTH THEN LARGE_LENGTH ELSE SMALL_LENGTH
  ELSE n

\* the allocator al has handed out len cells at off
Taken(al, off, len) ==
  IF ALLOCATOR_TYPE = "BITMAP"
  THEN IF len > SMALL_LENGTH
       THEN HALF <= off /\ off + LARGE_LENGTH <= HALF + al.large * LARGE_LENGTH
       ELSE off + SMALL_LENGTH <= al.small * SMALL_LENGTH
  ELSE off + len <= al.latest

\* two allocations share no memory
Clear(o, m, p, n) == o + cap(m) <= p \/ p + cap(n) <= o

LEMMA CapIs ==
  ASSUME NEW n \in Lengths
  PROVE  cap(n) \in Nat /\ n <= cap(n)
<1>1. n \in Nat /\ n <= MaxLength /\ MaxLength \in Nat
  BY Sizes, MaxLengthIs
<1> QED
  BY <1>1, Sizes, MaxLengthIs DEF cap

LEMMA MulStep ==
  ASSUME NEW a \in Nat, NEW d \in Nat, d >= 1, NEW s \in Nat
  PROVE  /\ (a + 1) * s = a * s + s /\ a * s \in Nat /\ (a + 1) * s \in Nat /\ (a + d) * s \in Nat
         /\ (a + 1) * s <= (a + d) * s
<1>1. (a + 1) * s = a * s + s
  OBVIOUS
<1>2. (a + 1) * s <= (a + d) * s
  BY MulMono
<1> QED
  BY <1>1, <1>2

\* An allocation is new memory, inside the storage as long as the budget lasts.
NewMemory(al, al2, off, len) ==
  /\ al2 \in Alloc /\ off \in Offset /\ off + cap(len) <= STORAGE_SIZE
  /\ Taken(al2, off, len)
  /\ \A p \in Offset, n \in Lengths :
       Taken(al, p, n) => Taken(al2, p, n) /\ Clear(p, n, off, len)

LEMMA AppendOnlyIs ==
  ASSUME ALLOCATOR_TYPE # "BITMAP", alloc \in Alloc, NEW c, NEW c2, Budget(alloc, c), due(c) \in Nat,
         due(c) >= 1, due(c2) = due(c) - 1, NEW len \in Lengths
  PROVE  /\ NewMemory(alloc, allocate(len).next, allocate(len).offset, len)
         /\ Budget(allocate(len).next, c2)
<1>1. PICK l \in Nat, sm \in Nat, lg \in Nat : alloc = [latest |-> l, small |-> sm, large |-> lg]
  BY DEF Alloc
<1>2. PICK al2 : al2 = [latest |-> l + len, small |-> sm, large |-> lg]
  OBVIOUS
<1>3. allocate(len).offset = l /\ allocate(len).next = al2
  BY <1>1, <1>2 DEF allocate, append_only_allocate
<1>4. len \in Nat /\ len >= 1 /\ MaxLength \in Nat /\ len <= MaxLength
  BY Sizes, MaxLengthIs
<1>5. PICK d \in Nat : d = due(c) /\ d >= 1 /\ due(c2) = d - 1
  OBVIOUS
<1>6. l + d * MaxLength <= STORAGE_SIZE
  BY <1>1, <1>5 DEF Budget
<1>7. d * MaxLength = (d - 1) * MaxLength + MaxLength /\ (d - 1) * MaxLength \in Nat
  BY <1>4, <1>5
<1>8. (l + len) + (d - 1) * MaxLength <= STORAGE_SIZE /\ l + len <= STORAGE_SIZE
  BY <1>4, <1>6, <1>7, Sizes
<1>9. l \in Offset
  BY <1>4, <1>8, Sizes
<1>10. al2 \in Alloc /\ al2.latest = l + len
  BY <1>2, <1>4 DEF Alloc
<1>11. Budget(al2, c2)
  BY <1>5, <1>8, <1>10 DEF Budget
<1>12. cap(len) = len /\ \A n \in Lengths : cap(n) = n
  BY DEF cap
<1>13. ASSUME NEW p \in Offset, NEW n \in Lengths, Taken(alloc, p, n)
       PROVE  Taken(al2, p, n) /\ Clear(p, n, l, len)
  <2>1. p \in Nat /\ n \in Nat
    BY Sizes
  <2>2. p + n <= l
    BY <1>1, <1>13 DEF Taken
  <2>3. p + n <= l + len
    BY <1>4, <2>1, <2>2
  <2>4. Taken(al2, p, n)
    BY <1>10, <2>3 DEF Taken
  <2> QED BY <1>12, <2>2, <2>4 DEF Clear
<1>14. Taken(al2, l, len)
  BY <1>4, <1>10 DEF Taken
<1>15. NewMemory(alloc, al2, l, len)
  BY <1>8, <1>9, <1>10, <1>12, <1>13, <1>14 DEF NewMemory
<1> QED
  BY <1>3, <1>11, <1>15

LEMMA SmallIs ==
  ASSUME ALLOCATOR_TYPE = "BITMAP", alloc \in Alloc, NEW c, NEW c2, Budget(alloc, c), due(c) \in Nat,
         due(c) >= 1, due(c2) = due(c) - 1, NEW len \in Lengths, len <= SMALL_LENGTH
  PROVE  /\ NewMemory(alloc, allocate(len).next, allocate(len).offset, len)
         /\ Budget(allocate(len).next, c2)
<1>1. PICK l \in Nat, sm \in Nat, lg \in Nat : alloc = [latest |-> l, small |-> sm, large |-> lg]
  BY DEF Alloc
<1>2. PICK al2 : al2 = [latest |-> l, small |-> sm + 1, large |-> lg]
  OBVIOUS
<1>4. len \in Nat /\ len >= 1
  BY Sizes
<1>0. ~(len > SMALL_LENGTH)
  BY <1>4, Sizes
<1>3. allocate(len).offset = sm * SMALL_LENGTH /\ allocate(len).next = al2
  BY <1>0, <1>1, <1>2 DEF allocate, bitmap_allocate
<1>5. PICK d \in Nat : d = due(c) /\ d >= 1 /\ due(c2) = d - 1
  OBVIOUS
<1>6. PICK S \in Nat, L \in Nat, H \in Nat : S = SMALL_LENGTH /\ L = LARGE_LENGTH /\ H = HALF
  BY Sizes, Half2 DEF HALF
<1>7. S >= 1 /\ L >= S /\ H + H <= STORAGE_SIZE
  BY <1>6, Sizes, Half2 DEF HALF
<1>8. (sm + d) * S <= H /\ (lg + d) * L <= H
  BY <1>1, <1>5, <1>6 DEF Budget
<1>9. (sm + 1) * S = sm * S + S /\ sm * S \in Nat /\ (sm + 1) * S <= (sm + d) * S
      /\ (sm + d) * S \in Nat /\ (sm + 1) * S \in Nat
  BY <1>5, MulStep
<1>10. (lg + (d - 1)) * L <= (lg + d) * L /\ (lg + (d - 1)) * L \in Nat /\ (lg + d) * L \in Nat
  <2>1. lg + (d - 1) \in Nat /\ lg + d \in Nat /\ lg + (d - 1) <= lg + d
    BY <1>5
  <2> QED BY <2>1, MulMono
<1>11. sm * S + S <= H
  BY <1>8, <1>9
<1>12. sm * S \in Offset /\ sm * S + S <= STORAGE_SIZE
  BY <1>7, <1>9, <1>11, Sizes
<1>13. al2 \in Alloc /\ al2.small = sm + 1 /\ al2.large = lg
  BY <1>2 DEF Alloc
<1>14. Budget(al2, c2)
  <2>1. (sm + 1) + (d - 1) = sm + d
    BY <1>5
  <2>2. ((sm + 1) + (d - 1)) * S <= H /\ (lg + (d - 1)) * L <= H
    BY <1>8, <1>10, <2>1
  <2> QED BY <1>5, <1>6, <1>13, <2>2 DEF Budget
<1>15. cap(len) = S
  BY <1>0, <1>6 DEF cap
<1>16. Taken(al2, sm * S, len)
  BY <1>0, <1>6, <1>9, <1>13 DEF Taken
<1>17. ASSUME NEW p \in Offset, NEW n \in Lengths, Taken(alloc, p, n)
       PROVE  Taken(al2, p, n) /\ Clear(p, n, sm * S, len)
  <2>1. p \in Nat
    BY Sizes
  <2>2. CASE n > SMALL_LENGTH
    <3>1. H <= p /\ p + L <= H + lg * L
      BY <1>1, <1>6, <1>17, <2>2 DEF Taken
    <3>2. Taken(al2, p, n)
      BY <1>6, <1>13, <2>2, <3>1 DEF Taken
    <3>3. sm * S + cap(len) <= p
      BY <1>9, <1>11, <1>15, <2>1, <3>1
    <3> QED BY <3>2, <3>3 DEF Clear
  <2>3. CASE ~(n > SMALL_LENGTH)
    <3>1. p + S <= sm * S
      BY <1>1, <1>6, <1>17, <2>3 DEF Taken
    <3>2. p + S <= (sm + 1) * S
      BY <1>9, <2>1, <3>1
    <3>3. Taken(al2, p, n)
      BY <1>6, <1>13, <2>3, <3>2 DEF Taken
    <3>4. cap(n) = S
      BY <1>6, <2>3 DEF cap
    <3> QED BY <3>1, <3>3, <3>4 DEF Clear
  <2> QED BY <2>2, <2>3
<1>18. NewMemory(alloc, al2, sm * S, len)
  BY <1>12, <1>13, <1>15, <1>16, <1>17 DEF NewMemory
<1> QED
  BY <1>3, <1>6, <1>14, <1>18

LEMMA LargeIs ==
  ASSUME ALLOCATOR_TYPE = "BITMAP", alloc \in Alloc, NEW c, NEW c2, Budget(alloc, c), due(c) \in Nat,
         due(c) >= 1, due(c2) = due(c) - 1, NEW len \in Lengths, len > SMALL_LENGTH
  PROVE  /\ NewMemory(alloc, allocate(len).next, allocate(len).offset, len)
         /\ Budget(allocate(len).next, c2)
<1>1. PICK l \in Nat, sm \in Nat, lg \in Nat : alloc = [latest |-> l, small |-> sm, large |-> lg]
  BY DEF Alloc
<1>2. PICK al2 : al2 = [latest |-> l, small |-> sm, large |-> lg + 1]
  OBVIOUS
<1>3. allocate(len).offset = HALF + lg * LARGE_LENGTH /\ allocate(len).next = al2
  BY <1>1, <1>2 DEF allocate, bitmap_allocate, HALF
<1>4. len \in Nat /\ len >= 1
  BY Sizes
<1>5. PICK d \in Nat : d = due(c) /\ d >= 1 /\ due(c2) = d - 1
  OBVIOUS
<1>6. PICK S \in Nat, L \in Nat, H \in Nat : S = SMALL_LENGTH /\ L = LARGE_LENGTH /\ H = HALF
  BY Sizes, Half2 DEF HALF
<1>7. S >= 1 /\ L >= S /\ H + H <= STORAGE_SIZE
  BY <1>6, Sizes, Half2 DEF HALF
<1>8. (sm + d) * S <= H /\ (lg + d) * L <= H
  BY <1>1, <1>5, <1>6 DEF Budget
<1>9. (lg + 1) * L = lg * L + L /\ lg * L \in Nat /\ (lg + 1) * L <= (lg + d) * L
      /\ (lg + d) * L \in Nat /\ (lg + 1) * L \in Nat
  BY <1>5, MulStep
<1>10. (sm + (d - 1)) * S <= (sm + d) * S /\ (sm + (d - 1)) * S \in Nat /\ (sm + d) * S \in Nat
       /\ sm * S <= (sm + d) * S /\ sm * S \in Nat
  <2>1. sm + (d - 1) \in Nat /\ sm + d \in Nat /\ sm + (d - 1) <= sm + d /\ sm <= sm + d
    BY <1>5
  <2> QED BY <2>1, MulMono
<1>11. lg * L + L <= H /\ sm * S <= H
  BY <1>8, <1>9, <1>10
<1>12. H + lg * L \in Offset /\ (H + lg * L) + L <= STORAGE_SIZE
  BY <1>7, <1>9, <1>11, Sizes
<1>13. al2 \in Alloc /\ al2.small = sm /\ al2.large = lg + 1
  BY <1>2 DEF Alloc
<1>14. Budget(al2, c2)
  <2>1. (lg + 1) + (d - 1) = lg + d
    BY <1>5
  <2>2. ((lg + 1) + (d - 1)) * L <= H /\ (sm + (d - 1)) * S <= H
    BY <1>8, <1>10, <2>1
  <2> QED BY <1>5, <1>6, <1>13, <2>2 DEF Budget
<1>15. cap(len) = L
  BY <1>6 DEF cap
<1>16. Taken(al2, H + lg * L, len)
  <2>1. H <= H + lg * L /\ (H + lg * L) + L <= H + (lg + 1) * L
    BY <1>9
  <2> QED BY <1>6, <1>13, <2>1 DEF Taken
<1>17. ASSUME NEW p \in Offset, NEW n \in Lengths, Taken(alloc, p, n)
       PROVE  Taken(al2, p, n) /\ Clear(p, n, H + lg * L, len)
  <2>1. p \in Nat
    BY Sizes
  <2>2. CASE n > SMALL_LENGTH
    <3>1. H <= p /\ p + L <= H + lg * L
      BY <1>1, <1>6, <1>17, <2>2 DEF Taken
    <3>2. p + L <= H + (lg + 1) * L
      BY <1>9, <2>1, <3>1
    <3>3. Taken(al2, p, n)
      BY <1>6, <1>13, <2>2, <3>1, <3>2 DEF Taken
    <3>4. cap(n) = L
      BY <1>6, <2>2 DEF cap
    <3> QED BY <3>1, <3>3, <3>4 DEF Clear
  <2>3. CASE ~(n > SMALL_LENGTH)
    <3>1. p + S <= sm * S
      BY <1>1, <1>6, <1>17, <2>3 DEF Taken
    <3>2. Taken(al2, p, n)
      BY <1>6, <1>13, <2>3, <3>1 DEF Taken
    <3>3. cap(n) = S
      BY <1>6, <2>3 DEF cap
    <3>4. p + S <= H + lg * L
      BY <1>9, <1>10, <1>11, <2>1, <3>1
    <3> QED BY <3>2, <3>3, <3>4 DEF Clear
  <2> QED BY <2>2, <2>3
<1>18. NewMemory(alloc, al2, H + lg * L, len)
  BY <1>12, <1>13, <1>15, <1>16, <1>17 DEF NewMemory
<1> QED
  BY <1>3, <1>6, <1>14, <1>18

LEMMA AllocateIs ==
  ASSUME alloc \in Alloc, NEW c, NEW c2, Budget(alloc, c), due(c) \in Nat, due(c) >= 1,
         due(c2) = due(c) - 1, NEW len \in Lengths
  PROVE  /\ NewMemory(alloc, allocate(len).next, allocate(len).offset, len)
         /\ Budget(allocate(len).next, c2)
<1>1. len \in Nat /\ SMALL_LENGTH \in Nat
  BY Sizes
<1>2. CASE ALLOCATOR_TYPE # "BITMAP"
  BY <1>2, AppendOnlyIs
<1>3. CASE ALLOCATOR_TYPE = "BITMAP" /\ len <= SMALL_LENGTH
  BY <1>3, SmallIs
<1>4. CASE ALLOCATOR_TYPE = "BITMAP" /\ len > SMALL_LENGTH
  BY <1>4, LargeIs
<1> QED
  BY <1>1, <1>2, <1>3, <1>4

-----------------------------------------------------------------------------
(* The steps of a store.                                                   *)

\* What is known while a command is performed.
Runs(tb, c, u) ==
  /\ work \in [{W} -> Cmd] /\ c \in Cmd /\ c.todo # <<>> /\ c.op \in Ops /\ c.op \in {"store", "batch"}
  /\ reply = no_reply /\ alloc \in Alloc /\ Budget(alloc, c)
  /\ tb \in [Slot -> Entry] /\ Filled(tb) /\ Acyclic(tb) /\ Unique(tb)
  /\ sub(W) = u /\ Head(c.todo) = u /\ u \in Sub /\ u.key \in Keys /\ u.len \in Lengths
  /\ Hash[u.key] \in Slot /\ Len(c.todo) \in Nat /\ Len(c.todo) >= 1

LEMMA Running ==
  ASSUME Base, cmd.pc # "idle"
  PROVE  Runs(kv_mapping_table, cmd, sub(W)) /\ Good(kv_mapping_table, cmd)
<1>1. /\ work \in [{W} -> Cmd] /\ cmd \in Cmd /\ cmd.todo # <<>> /\ cmd.op \in Ops
      /\ cmd.op \in {"store", "batch"} /\ reply = no_reply /\ alloc \in Alloc /\ Budget(alloc, cmd)
      /\ Good(kv_mapping_table, cmd)
  BY DEF Base, Performing, Good, cmd
<1>2. kv_mapping_table \in [Slot -> Entry] /\ Filled(kv_mapping_table)
      /\ Acyclic(kv_mapping_table) /\ Unique(kv_mapping_table)
  BY DEF Base, Table, Filled
<1>3. /\ sub(W) = Head(cmd.todo) /\ sub(W) \in Sub /\ Len(cmd.todo) \in Nat /\ Len(cmd.todo) >= 1
      /\ sub(W).key \in Keys /\ sub(W).len \in Lengths
  BY <1>1, SubIs
<1>4. Hash[sub(W).key] \in Slot
  BY <1>3, Sizes
<1> QED
  BY <1>1, <1>2, <1>3, <1>4 DEF Runs

\* An entry on a chain.
LEMMA ChainEntry ==
  ASSUME NEW tb, Filled(tb), NEW h \in Slot, NEW s \in reach(tb, h)
  PROVE  /\ s \in Slot /\ in_use(tb, s) /\ s # None
         /\ tb[s].key \in Keys /\ tb[s].mem_offset \in Offset /\ tb[s].length \in Lengths
<1>1. tb \in [Slot -> Entry]
  BY DEF Filled
<1>2. s \in Slot /\ in_use(tb, s)
  BY <1>1, ReachUsed
<1>3. tb[s] \in Entry /\ tb[s].key \in Keys /\ tb[s].length \in Lengths
  BY <1>2 DEF Filled
<1>4. tb[s].mem_offset \in Offset
  BY <1>2, <1>3 DEF Entry, in_use
<1> QED
  BY <1>2, <1>3, <1>4, Sizes

\* the cells from off hold v, the others are as before
Written(st, st2, off, n, v) ==
  st2 = [o \in Offset |-> IF o \in cells(off, n) THEN v ELSE st[o]]

LEMMA CopyNewStep ==
  ASSUME Base, CopyNew(W)
  PROVE  /\ Base'
         /\ cmd.pc = "copy" /\ Finds(kv_mapping_table, sub(W).key, None)
         /\ cmd'.pc = "slot" /\ cmd'.todo = cmd.todo
         /\ NewMemory(alloc, alloc', cmd'.offset, sub(W).len)
         /\ Written(storage, storage', cmd'.offset, sub(W).len, sub(W).val)
         /\ UNCHANGED <<kv_mapping_table, iter_handle, reply, stored>>
<1>1. PICK tb : tb = kv_mapping_table
  OBVIOUS
<1>2. PICK u : u = sub(W)
  OBVIOUS
<1>3. cmd.pc = "copy" /\ cmd.offset = None
  BY DEF CopyNew, cmd
<1>4. Runs(tb, cmd, u) /\ Good(tb, cmd)
  BY <1>1, <1>2, <1>3, Running
<1>5. Finds(tb, u.key, None)
  BY <1>3, <1>4 DEF Runs, Good
<1>6. PICK off : off = allocate(u.len).offset
  OBVIOUS
<1>7. PICK c : c = command("slot", cmd.op, cmd.todo, off, cmd.length, cmd.slot, cmd.prev)
  OBVIOUS
<1>8. /\ c.pc = "slot" /\ c.todo = cmd.todo /\ c.op = cmd.op /\ c.offset = off
  BY <1>7 DEF command
<1>9. /\ alloc' = allocate(u.len).next
      /\ Written(storage, storage', off, u.len, u.val)
      /\ UNCHANGED <<kv_mapping_table, iter_handle, reply, stored>>
  BY <1>2, <1>6 DEF CopyNew, write_cells, Written
<1>10. work' = [work EXCEPT ![W] = c]
  <2>1. work' = [work EXCEPT ![W] = [@ EXCEPT !.pc = "slot", !.offset = off]]
    BY <1>2, <1>6 DEF CopyNew
  <2>2. [cmd EXCEPT !.pc = "slot", !.offset = off] = c
    BY <1>4, <1>7, SlotIs DEF Runs
  <2> QED BY <2>1, <2>2 DEF cmd
<1>11. NewMemory(alloc, alloc', off, u.len) /\ Budget(alloc', c)
  <2>1. due(cmd) = Len(cmd.todo) /\ due(c) = Len(cmd.todo) - 1
    BY <1>3, <1>8 DEF due
  <2> QED BY <1>4, <1>6, <1>9, <2>1, AllocateIs DEF Runs
<1>12. alloc' \in Alloc /\ off \in Offset
  BY <1>11 DEF NewMemory
<1>13. c \in Cmd
  BY <1>4, <1>7, <1>12 DEF command, Cmd, PC, Runs
<1>14. Good(tb, c)
  BY <1>4, <1>5, <1>8, <1>12 DEF Good, Runs
<1>15. Performing'
  BY <1>1, <1>4, <1>9, <1>10, <1>11, <1>12, <1>13, <1>14, StepTo DEF Runs
<1>16. cmd' = c
  BY <1>4, <1>10, <1>13, WorkTo DEF Runs
<1>17. DOMAIN storage' = Offset
  BY <1>9 DEF Written
<1>18. Base'
  BY <1>9, <1>15, <1>17 DEF Base, Table
<1> QED
  BY <1>1, <1>2, <1>3, <1>5, <1>8, <1>9, <1>11, <1>16, <1>18

\* A store is done.
LEMMA DoneStep ==
  ASSUME NEW tb, NEW u, Runs(tb, cmd, u), work' = [work EXCEPT ![W] = done(W)],
         UNCHANGED <<alloc, reply>>
  PROVE  /\ Performing' /\ cmd' = done(W)
         /\ cmd'.pc \in {"idle", "lookup"} /\ cmd'.todo = Tail(cmd.todo)
<1>1. PICK c : c = done(W)
  OBVIOUS
<1>2. /\ work \in [{W} -> Cmd] /\ cmd.todo # <<>> /\ cmd.op \in Ops /\ cmd.op \in {"store", "batch"}
      /\ reply = no_reply /\ alloc \in Alloc /\ Budget(alloc, cmd)
      /\ Len(cmd.todo) \in Nat /\ Len(cmd.todo) >= 1
  BY DEF Runs
<1>3. /\ c \in Cmd /\ Good(kv_mapping_table', c) /\ due(c) = Len(cmd.todo) - 1
      /\ c.pc \in {"idle", "lookup"} /\ c.todo = Tail(cmd.todo)
  BY <1>1, <1>2, DoneIs
<1>4. Budget(alloc, c)
  <2>1. due(cmd) \in Nat /\ due(c) \in Nat /\ due(c) <= due(cmd)
    BY <1>2, <1>3 DEF due
  <2> QED BY <1>2, <2>1, LessBudget
<1>5. Performing'
  BY <1>1, <1>2, <1>3, <1>4, StepTo
<1>6. cmd' = c
  BY <1>1, <1>2, <1>3, WorkTo
<1> QED
  BY <1>1, <1>3, <1>5, <1>6

Remembers(k, u) == stored' = [stored EXCEPT ![k] = value_of(u.val, u.len)]

\* A copy over the old value, that is the end of the store or leaves a length to
\* be recorded.
LEMMA CopyOverStep ==
  ASSUME Base, CopyOver(W)
  PROVE  /\ Base'
         /\ cmd.pc = "copy" /\ cmd.offset # None /\ At(kv_mapping_table, cmd)
         /\ Written(storage, storage', cmd.offset, sub(W).len, sub(W).val)
         /\ UNCHANGED <<kv_mapping_table, alloc, iter_handle, reply>>
         /\ IF length_changes(W, cmd.length)
            THEN cmd'.pc = "length" /\ cmd'.todo = cmd.todo /\ cmd'.offset = cmd.offset
                 /\ UNCHANGED stored
            ELSE cmd' = done(W) /\ cmd'.pc \in {"idle", "lookup"} /\ cmd'.todo = Tail(cmd.todo)
                 /\ Remembers(sub(W).key, sub(W))
<1>1. PICK tb : tb = kv_mapping_table
  OBVIOUS
<1>2. PICK u : u = sub(W)
  OBVIOUS
<1>3. cmd.pc = "copy" /\ cmd.offset # None
  BY DEF CopyOver, cmd
<1>4. Runs(tb, cmd, u) /\ Good(tb, cmd)
  BY <1>1, <1>2, <1>3, Running
<1>5. At(tb, cmd)
  BY <1>3, <1>4 DEF Good
<1>6. /\ Written(storage, storage', cmd.offset, u.len, u.val)
      /\ UNCHANGED <<kv_mapping_table, alloc, iter_handle, reply>>
  BY <1>2 DEF CopyOver, write_cells, Written, cmd
<1>7. DOMAIN storage' = Offset
  BY <1>6 DEF Written
<1>8. CASE length_changes(W, cmd.length)
  <2>1. PICK c : c = command("length", cmd.op, cmd.todo, cmd.offset, cmd.length, cmd.slot, cmd.prev)
    OBVIOUS
  <2>2. c.pc = "length" /\ c.todo = cmd.todo /\ c.op = cmd.op /\ c.offset = cmd.offset
        /\ c.length = cmd.length
    BY <2>1 DEF command
  <2>3. work' = [work EXCEPT ![W] = c] /\ UNCHANGED stored
    <3>1. work' = [work EXCEPT ![W].pc = "length"] /\ UNCHANGED stored
      BY <1>8 DEF CopyOver, cmd
    <3>2. [cmd EXCEPT !.pc = "length"] = c
      BY <1>4, <2>1, LengthIs DEF Runs
    <3> QED BY <3>1, <3>2 DEF cmd
  <2>4. c \in Cmd
    BY <1>4, <2>1 DEF command, Cmd, PC, Runs
  <2>5. Good(tb, c)
    <3>1. At(tb, c)
      BY <1>5, <2>2 DEF At
    <3>2. c.op = "store" /\ Head(c.todo).len <= SMALL_LENGTH /\ c.length <= SMALL_LENGTH
      BY <1>4, <1>8, <2>2 DEF length_changes, cmd, Runs
    <3> QED BY <1>4, <2>2, <3>1, <3>2 DEF Good, Runs
  <2>6. Budget(alloc, c)
    <3>1. due(c) = due(cmd)
      BY <1>3, <2>2 DEF due
    <3> QED BY <1>4, <3>1 DEF Budget, Runs
  <2>7. Performing'
    BY <1>1, <1>4, <1>6, <2>3, <2>4, <2>5, <2>6, StepTo DEF Runs
  <2>8. cmd' = c
    BY <1>4, <2>3, <2>4, WorkTo DEF Runs
  <2>9. Base'
    BY <1>6, <1>7, <2>7 DEF Base, Table
  <2> QED BY <1>1, <1>2, <1>3, <1>5, <1>6, <1>8, <2>2, <2>3, <2>8, <2>9
<1>9. CASE ~length_changes(W, cmd.length)
  <2>1. work' = [work EXCEPT ![W] = done(W)] /\ Remembers(u.key, u)
    BY <1>2, <1>9 DEF CopyOver, remember, Remembers, cmd
  <2>2. Performing' /\ cmd' = done(W) /\ cmd'.pc \in {"idle", "lookup"} /\ cmd'.todo = Tail(cmd.todo)
    BY <1>4, <1>6, <2>1, DoneStep
  <2>3. Base'
    BY <1>6, <1>7, <2>2 DEF Base, Table
  <2> QED BY <1>1, <1>2, <1>3, <1>5, <1>6, <1>9, <2>1, <2>2, <2>3
<1> QED
  BY <1>8, <1>9

\* update_mapping_entry finds the entry the lookup found.
LEMMA UpdateLengthStep ==
  ASSUME Base, UpdateLength(W)
  PROVE  /\ Base'
         /\ cmd.pc = "length" /\ sub(W).len <= SMALL_LENGTH /\ cmd.length <= SMALL_LENGTH
         /\ \E s : /\ s # None /\ Finds(kv_mapping_table, sub(W).key, s)
                   /\ kv_mapping_table[s].mem_offset = cmd.offset
                   /\ kv_mapping_table[s].length = cmd.length
                   /\ Relabelled(kv_mapping_table, kv_mapping_table', s, sub(W).len)
         /\ cmd'.pc \in {"idle", "lookup"} /\ cmd'.todo = Tail(cmd.todo)
         /\ Remembers(sub(W).key, sub(W))
         /\ UNCHANGED <<alloc, storage, iter_handle, reply>>
<1>1. PICK tb, tb2 : tb = kv_mapping_table /\ tb2 = kv_mapping_table'
  OBVIOUS
<1>2. PICK u : u = sub(W)
  OBVIOUS
<1>3. cmd.pc = "length"
  BY DEF UpdateLength, cmd
<1>4. Runs(tb, cmd, u) /\ Good(tb, cmd)
  BY <1>1, <1>2, <1>3, Running
<1>5. u.len <= SMALL_LENGTH /\ cmd.length <= SMALL_LENGTH /\ At(tb, cmd)
  BY <1>3, <1>4 DEF Good, Runs
<1>6. PICK s : s # None /\ Finds(tb, u.key, s) /\ tb[s].mem_offset = cmd.offset
               /\ tb[s].length = cmd.length
  BY <1>4, <1>5 DEF At, Runs
<1>7. s \in reach(tb, Hash[u.key]) /\ tb[s].key = u.key
  BY <1>6 DEF Finds
<1>8. s \in Slot /\ in_use(tb, s)
  BY <1>4, <1>7, ChainEntry DEF Runs
<1>9. find(u.key) = s
  <2>1. PICK t : t = find(u.key)
    OBVIOUS
  <2>2. Finds(tb, u.key, t)
    BY <1>1, <1>4, <2>1, FindIs DEF Runs
  <2>3. t # None
    BY <1>7, <2>2 DEF Finds
  <2>4. t \in reach(tb, Hash[u.key]) /\ tb[t].key = u.key
    BY <2>2, <2>3 DEF Finds
  <2> QED BY <1>4, <1>7, <2>1, <2>4 DEF Unique, Runs
<1>10. tb2 = [tb EXCEPT ![s].length = u.len]
  BY <1>1, <1>2, <1>6, <1>9 DEF UpdateLength
<1>11. Filled(tb2) /\ Acyclic(tb2) /\ Relabelled(tb, tb2, s, u.len)
  <2>1. PICK n \in Lengths : n = u.len
    BY <1>4 DEF Runs
  <2>2. tb2 = [tb EXCEPT ![s].length = n] /\ Filled(tb) /\ Acyclic(tb)
    BY <1>4, <1>10, <2>1 DEF Runs
  <2>3. Filled(tb2) /\ Acyclic(tb2) /\ Relabelled(tb, tb2, s, n)
    BY <1>8, <2>2, LengthTable
  <2> QED BY <2>1, <2>3
<1>12. Unique(tb2)
  <2> SUFFICES ASSUME NEW k \in Keys, NEW p \in reach(tb2, Hash[k]), NEW q \in reach(tb2, Hash[k]),
                      tb2[p].key = k, tb2[q].key = k
               PROVE  p = q
    BY DEF Unique
  <2>1. Hash[k] \in Slot
    BY Sizes
  <2>2. p \in reach(tb, Hash[k]) /\ q \in reach(tb, Hash[k])
    BY <1>11, <2>1 DEF Relabelled
  <2>3. p \in Slot /\ q \in Slot
    BY <1>4, <2>1, <2>2, ChainEntry DEF Runs
  <2>4. tb[p].key = k /\ tb[q].key = k
    BY <1>11, <2>3 DEF Relabelled
  <2> QED BY <1>4, <2>2, <2>4 DEF Unique, Runs
<1>13. /\ work' = [work EXCEPT ![W] = done(W)] /\ Remembers(u.key, u)
       /\ UNCHANGED <<alloc, storage, iter_handle, reply>>
  BY <1>2 DEF UpdateLength, remember, Remembers
<1>14. Performing' /\ cmd'.pc \in {"idle", "lookup"} /\ cmd'.todo = Tail(cmd.todo)
  BY <1>4, <1>13, DoneStep
<1>15. Base'
  BY <1>1, <1>11, <1>12, <1>13, <1>14 DEF Base, Table
<1>16. \E v : /\ v # None /\ Finds(tb, u.key, v) /\ tb[v].mem_offset = cmd.offset
              /\ tb[v].length = cmd.length /\ Relabelled(tb, tb2, v, u.len)
  BY <1>6, <1>11
<1> QED
  BY <1>1, <1>2, <1>3, <1>5, <1>13, <1>14, <1>15, <1>16

LEMMA FindSlotStep ==
  ASSUME Base, FindSlot(W)
  PROVE  /\ Base'
         /\ cmd.pc = "slot" /\ cmd'.pc = "install" /\ cmd'.todo = cmd.todo /\ cmd'.offset = cmd.offset
         /\ UNCHANGED <<kv_mapping_table, alloc, storage, iter_handle, reply, stored>>
<1>1. PICK tb : tb = kv_mapping_table
  OBVIOUS
<1>2. PICK u : u = sub(W)
  OBVIOUS
<1>3. cmd.pc = "slot"
  BY DEF FindSlot, cmd
<1>4. Runs(tb, cmd, u) /\ Good(tb, cmd)
  BY <1>1, <1>2, <1>3, Running
<1>5. cmd.offset \in Offset /\ Finds(tb, u.key, None)
  BY <1>3, <1>4 DEF Good, Runs
<1>6. PICK sl, pv : sl = new_slot(u.key).slot /\ pv = new_slot(u.key).prev
  OBVIOUS
<1>7. slot_available(u.key) /\ UNCHANGED <<kv_mapping_table, alloc, storage, iter_handle, reply, stored>>
  BY <1>2 DEF FindSlot
<1>8. Vacant(tb, u.key, sl, pv)
  BY <1>1, <1>4, <1>6, <1>7, NewSlotIs DEF Runs
<1>9. sl \in Slot /\ pv \in Slot \cup {None}
  <2>1. pv # None => pv \in reach(tb, Hash[u.key])
    BY <1>8 DEF Vacant
  <2>2. pv # None => pv \in Slot
    BY <1>4, <2>1, ChainEntry DEF Runs
  <2> QED BY <1>8, <2>2 DEF Vacant
<1>10. PICK c : c = command("install", cmd.op, cmd.todo, cmd.offset, cmd.length, sl, pv)
  OBVIOUS
<1>11. c.pc = "install" /\ c.todo = cmd.todo /\ c.op = cmd.op /\ c.offset = cmd.offset
       /\ c.slot = sl /\ c.prev = pv
  BY <1>10 DEF command
<1>12. work' = [work EXCEPT ![W] = c]
  <2>1. work' = [work EXCEPT ![W] = [@ EXCEPT !.pc = "install", !.slot = sl, !.prev = pv]]
    BY <1>2, <1>6 DEF FindSlot
  <2>2. [cmd EXCEPT !.pc = "install", !.slot = sl, !.prev = pv] = c
    <3>1. cmd \in Cmd
      BY <1>4 DEF Runs
    <3> QED BY <1>10, <3>1, InstallIs, Zenon
  <2> QED BY <2>1, <2>2 DEF cmd
<1>13. c \in Cmd
  BY <1>4, <1>9, <1>10 DEF command, Cmd, PC, Runs
<1>14. Good(tb, c)
  BY <1>4, <1>5, <1>8, <1>11 DEF Good, Runs
<1>15. Budget(alloc, c)
  <2>1. due(c) = due(cmd)
    BY <1>3, <1>11 DEF due
  <2> QED BY <1>4, <2>1 DEF Budget, Runs
<1>16. Performing'
  BY <1>1, <1>4, <1>7, <1>12, <1>13, <1>14, <1>15, StepTo DEF Runs
<1>17. cmd' = c
  BY <1>4, <1>12, <1>13, WorkTo DEF Runs
<1>18. Base'
  BY <1>7, <1>16 DEF Base, Table
<1> QED
  BY <1>3, <1>7, <1>11, <1>17, <1>18

LEMMA InstallStep ==
  ASSUME Base, Install(W)
  PROVE  /\ Base'
         /\ cmd.pc = "install" /\ cmd.slot \in Slot /\ ~in_use(kv_mapping_table, cmd.slot)
         /\ cmd.offset \in Offset /\ Finds(kv_mapping_table, sub(W).key, None)
         /\ Added(kv_mapping_table, kv_mapping_table', sub(W).key, cmd.slot, cmd.offset, sub(W).len)
         /\ cmd'.pc \in {"idle", "lookup"} /\ cmd'.todo = Tail(cmd.todo)
         /\ Remembers(sub(W).key, sub(W))
         /\ UNCHANGED <<alloc, storage, iter_handle, reply>>
<1>1. PICK tb, tb2 : tb = kv_mapping_table /\ tb2 = kv_mapping_table'
  OBVIOUS
<1>2. PICK u : u = sub(W)
  OBVIOUS
<1>3. cmd.pc = "install"
  BY DEF Install, cmd
<1>4. Runs(tb, cmd, u) /\ Good(tb, cmd)
  BY <1>1, <1>2, <1>3, Running
<1>5. cmd.offset \in Offset /\ Finds(tb, u.key, None) /\ Vacant(tb, u.key, cmd.slot, cmd.prev)
  BY <1>3, <1>4 DEF Good, Runs
<1>6. PICK sl, pv : sl = cmd.slot /\ pv = cmd.prev
  OBVIOUS
<1>7. tb2 = with_entry(tb, [slot |-> sl, prev |-> pv], u.key, cmd.offset, u.len)
  BY <1>1, <1>2, <1>6 DEF Install, cmd
<1>8. Filled(tb2) /\ Acyclic(tb2) /\ Added(tb, tb2, u.key, sl, cmd.offset, u.len)
  BY <1>4, <1>5, <1>6, <1>7, InstallTable DEF Runs
<1>9. sl \in Slot /\ ~in_use(tb, sl)
  BY <1>5, <1>6 DEF Vacant
<1>10. Unique(tb2)
  <2> SUFFICES ASSUME NEW k \in Keys, NEW p \in reach(tb2, Hash[k]), NEW q \in reach(tb2, Hash[k]),
                      tb2[p].key = k, tb2[q].key = k
               PROVE  p = q
    BY DEF Unique
  <2>1. Hash[k] \in Slot
    BY Sizes
  <2>2. p \in reach(tb, Hash[k]) \cup {sl} /\ q \in reach(tb, Hash[k]) \cup {sl}
    BY <1>8, <2>1 DEF Added
  <2>3. p \in Slot /\ q \in Slot
    BY <1>8, <2>1, ChainEntry
  <2>4. CASE k = u.key
    <3>1. \A t \in reach(tb, Hash[k]) : tb[t].key # k
      BY <1>5, <2>4 DEF Finds
    <3>2. p # sl => tb[p].key = k
      BY <1>8, <2>3 DEF Added
    <3>3. q # sl => tb[q].key = k
      BY <1>8, <2>3 DEF Added
    <3> QED BY <2>2, <3>1, <3>2, <3>3
  <2>5. CASE k # u.key
    <3>1. p # sl /\ q # sl
      BY <1>8, <2>5 DEF Added
    <3>2. tb[p].key = k /\ tb[q].key = k
      BY <1>8, <2>3, <3>1 DEF Added
    <3> QED BY <1>4, <2>2, <3>1, <3>2 DEF Unique, Runs
  <2> QED BY <2>4, <2>5
<1>11. /\ work' = [work EXCEPT ![W] = done(W)] /\ Remembers(u.key, u)
       /\ UNCHANGED <<alloc, storage, iter_handle, reply>>
  BY <1>2 DEF Install, remember, Remembers
<1>12. Performing' /\ cmd'.pc \in {"idle", "lookup"} /\ cmd'.todo = Tail(cmd.todo)
  BY <1>4, <1>11, DoneStep
<1>13. Base'
  BY <1>1, <1>8, <1>10, <1>11, <1>12 DEF Base, Table
<1> QED
  BY <1>1, <1>2, <1>3, <1>5, <1>6, <1>8, <1>9, <1>11, <1>12, <1>13

-----------------------------------------------------------------------------
(* The commands of one step.                                               *)

\* Commands that only look.
LEMMA LookStep ==
  ASSUME Base, KvRetrieve(W) \/ KvExist(W)
  PROVE  /\ Base' /\ cmd = idle /\ cmd' = cmd
         /\ UNCHANGED <<kv_mapping_table, alloc, storage, work, iter_handle, stored>>
<1>1. work[W] = idle /\ UNCHANGED <<kv_mapping_table, alloc, storage, work, iter_handle, stored>>
  BY DEF KvRetrieve, KvExist, one_step
<1>2. Performing'
  BY <1>1, IdleFrame DEF Base
<1>3. Base'
  BY <1>1, <1>2 DEF Base, Table
<1> QED
  BY <1>1, <1>3 DEF cmd

\* tb2 is tb without the entry s
Freed(tb, tb2, s) ==
  /\ \A t \in Slot : t # s => tb2[t] = tb[t]
  /\ \A h \in Slot : reach(tb2, h) \subseteq reach(tb, h) \ {s}
  /\ ~in_use(tb2, s)

Deleted(k, s) ==
  /\ s \in Slot /\ Finds(kv_mapping_table, k, s)
  /\ Freed(kv_mapping_table, kv_mapping_table', s)
  /\ stored' = [stored EXCEPT ![k] = <<>>]
  /\ release_key(k)

LEMMA HandleIs ==
  ASSUME NEW x \in Handle
  PROVE  /\ x.open => x \in Opened
         /\ ~x.open => x = closed
         /\ x.open \in BOOLEAN
<1>1. closed.open = FALSE
  BY DEF closed
<1>2. \A y \in Opened : y.open = TRUE
  BY DEF Opened
<1> QED
  BY <1>1, <1>2 DEF Handle

LEMMA DeleteStep ==
  ASSUME Base, KvDelete(W)
  PROVE  /\ Base' /\ cmd = idle /\ cmd' = cmd /\ "delete" \in Ops
         /\ UNCHANGED <<alloc, storage, work>> /\ reply' = no_reply
         /\ \/ UNCHANGED <<kv_mapping_table, iter_handle, stored>>
            \/ \E k \in Keys, s \in Slot : Deleted(k, s)
<1>1. PICK tb, tb2 : tb = kv_mapping_table /\ tb2 = kv_mapping_table'
  OBVIOUS
<1>2. PICK k \in Keys : /\ one_step(W, "delete", k) /\ reply' = no_reply
                        /\ LET s == find(k)
                           IN  IF s = None
                               THEN UNCHANGED <<kv_mapping_table, iter_handle, stored>>
                               ELSE /\ kv_mapping_table' = [kv_mapping_table EXCEPT ![s] = free_entry]
                                    /\ stored' = [stored EXCEPT ![k] = <<>>]
                                    /\ release_key(k)
  BY DEF KvDelete
<1>3. work[W] = idle /\ UNCHANGED <<alloc, storage, work>> /\ "delete" \in Ops
  BY <1>2 DEF one_step
<1>4. Performing'
  BY <1>3, IdleFrame DEF Base
<1>5. Filled(tb) /\ Acyclic(tb) /\ Unique(tb) /\ tb \in [Slot -> Entry]
  BY <1>1 DEF Base, Table, Filled
<1>6. PICK s : s = find(k)
  OBVIOUS
<1>7. Finds(tb, k, s) /\ Hash[k] \in Slot
  BY <1>1, <1>5, <1>6, FindIs, Sizes
<1>8. CASE s = None
  <2>1. UNCHANGED <<kv_mapping_table, iter_handle, stored>>
    BY <1>2, <1>6, <1>8
  <2>2. Base'
    BY <1>3, <1>4, <2>1 DEF Base, Table
  <2> QED BY <1>2, <1>3, <2>1, <2>2 DEF cmd
<1>9. CASE s # None
  <2>1. tb2 = [tb EXCEPT ![s] = free_entry] /\ stored' = [stored EXCEPT ![k] = <<>>] /\ release_key(k)
    BY <1>1, <1>2, <1>6, <1>9
  <2>2. s \in reach(tb, Hash[k])
    BY <1>7, <1>9 DEF Finds
  <2>3. s \in Slot
    BY <1>5, <1>7, <2>2, ChainEntry
  <2>4. Filled(tb2) /\ Acyclic(tb2) /\ \A h \in Slot : reach(tb2, h) \subseteq reach(tb, h) \ {s}
    BY <1>5, <2>1, <2>3, DeleteTable
  <2>5. ~in_use(tb2, s) /\ \A t \in Slot : t # s => tb2[t] = tb[t]
    <3>1. tb2[s] = free_entry /\ \A t \in Slot : t # s => tb2[t] = tb[t]
      BY <1>5, <2>1, <2>3
    <3> QED BY <3>1 DEF in_use, free_entry
  <2>6. Freed(tb, tb2, s)
    BY <2>4, <2>5 DEF Freed
  <2>7. Unique(tb2)
    <3> SUFFICES ASSUME NEW l \in Keys, NEW p \in reach(tb2, Hash[l]), NEW q \in reach(tb2, Hash[l]),
                        tb2[p].key = l, tb2[q].key = l
                 PROVE  p = q
      BY DEF Unique
    <3>1. Hash[l] \in Slot
      BY Sizes
    <3>2. p \in reach(tb, Hash[l]) /\ q \in reach(tb, Hash[l]) /\ p # s /\ q # s
      BY <2>4, <3>1
    <3>3. p \in Slot /\ q \in Slot
      BY <1>5, <3>1, <3>2, ChainEntry
    <3>4. tb[p].key = l /\ tb[q].key = l
      BY <2>5, <3>2, <3>3
    <3> QED BY <1>5, <3>2, <3>4 DEF Unique
  <2>8. iter_handle' \in [1 .. NR_ITER -> Handle]
    <3>1. iter_handle \in [1 .. NR_ITER -> Handle]
      BY DEF Base
    <3>2. iter_handle' = [h \in 1 .. NR_ITER |->
                            IF iter_handle[h].open THEN [iter_handle[h] EXCEPT !.owed = @ \ {k}]
                            ELSE closed]
      BY <2>1, <3>1 DEF release_key
    <3>3. ASSUME NEW x \in Opened PROVE [x EXCEPT !.owed = @ \ {k}] \in Handle
      <4>1. [x EXCEPT !.owed = @ \ {k}] \in Opened
        BY DEF Opened
      <4> QED BY <4>1 DEF Handle
    <3>4. closed \in Handle
      BY DEF Handle
    <3>5. ASSUME NEW h \in 1 .. NR_ITER
          PROVE  (IF iter_handle[h].open THEN [iter_handle[h] EXCEPT !.owed = @ \ {k}] ELSE closed)
                   \in Handle
      <4>1. iter_handle[h].open => iter_handle[h] \in Opened
        BY <3>1, HandleIs
      <4> QED BY <3>3, <3>4, <4>1
    <3> QED BY <3>2, <3>5
  <2>9. Base'
    BY <1>1, <1>3, <1>4, <2>4, <2>7, <2>8 DEF Base, Table
  <2>10. Deleted(k, s)
    BY <1>1, <1>7, <2>1, <2>3, <2>6 DEF Deleted
  <2> QED BY <1>2, <1>3, <2>3, <2>9, <2>10 DEF cmd
<1> QED
  BY <1>8, <1>9

-----------------------------------------------------------------------------
(* The iterators.                                                          *)

handle(pos, end, reported, twice, owed) ==
  [open |-> TRUE, current_pos |-> pos, end |-> end, reported |-> reported, twice |-> twice,
   owed |-> owed]

slots_read(pos) == live_from(pos) \ over_from(pos)

keys_read(pos) == {kv_mapping_table[s].key : s \in slots_read(pos)}

read_twice(pos) ==
  {k \in keys_read(pos) : Cardinality({s \in slots_read(pos) : kv_mapping_table[s].key = k}) > 1}

after_read(x) ==
  handle(pos_after(x.current_pos),
         x.end \/ (x.current_pos < HASH_SLOTS /\ over_from(x.current_pos) = {}),
         x.reported \cup keys_read(x.current_pos),
         x.twice \cup (keys_read(x.current_pos) \cap x.reported) \cup read_twice(x.current_pos),
         x.owed)

LEMMA ReadIs ==
  ASSUME NEW x \in Opened, NEW p, NEW e, NEW r, NEW t
  PROVE  [x EXCEPT !.current_pos = p, !.end = e, !.reported = r, !.twice = t]
           = handle(p, e, r, t, x.owed)
<1>1. PICK f : f = [x EXCEPT !.current_pos = p]
  OBVIOUS
<1>2. f = handle(p, x.end, x.reported, x.twice, x.owed)
  BY <1>1 DEF handle, Opened
<1>3. PICK g : g = [f EXCEPT !.end = e]
  OBVIOUS
<1>4. g = handle(p, e, x.reported, x.twice, x.owed)
  BY <1>2, <1>3 DEF handle
<1>5. PICK m : m = [g EXCEPT !.reported = r]
  OBVIOUS
<1>6. m = handle(p, e, r, x.twice, x.owed)
  BY <1>4, <1>5 DEF handle
<1>7. [m EXCEPT !.twice = t] = handle(p, e, r, t, x.owed)
  <2>1. PICK n : n = [m EXCEPT !.twice = t]
    OBVIOUS
  <2>2. n = handle(p, e, r, t, x.owed)
    BY <1>6, <2>1 DEF handle
  <2> QED BY <2>1, <2>2
<1>8. [x EXCEPT !.current_pos = p, !.end = e, !.reported = r, !.twice = t] = [m EXCEPT !.twice = t]
  BY <1>1, <1>3, <1>5
<1> QED
  BY <1>7, <1>8

\* What a read from pos returns.
LEMMA LiveIs ==
  ASSUME kv_mapping_table \in [Slot -> Entry], NEW pos \in 0 .. HASH_SLOTS
  PROVE  /\ live_from(pos) = {s \in Slot : s >= pos /\ in_use(kv_mapping_table, s)}
         /\ over_from(pos) \in SUBSET live_from(pos)
         /\ pos_after(pos) \in 0 .. HASH_SLOTS
         /\ \A s \in over_from(pos) : pos_after(pos) <= s
         /\ over_from(pos) = {} => pos_after(pos) = HASH_SLOTS
         /\ over_from(pos) # {} => pos_after(pos) \in over_from(pos)
<1>1. live_from(pos) = {s \in Slot : s >= pos /\ in_use(kv_mapping_table, s)}
  BY Sizes DEF live_from, used, in_use
<1>2. over_from(pos) \in SUBSET live_from(pos)
  BY DEF over_from
<1>3. over_from(pos) \in SUBSET Nat /\ over_from(pos) \in SUBSET Slot
  BY <1>1, <1>2, Sizes
<1>4. over_from(pos) # {} => Min(over_from(pos)) \in over_from(pos)
                             /\ \A s \in over_from(pos) : Min(over_from(pos)) <= s
  BY <1>3, MinIs
<1>5. CASE over_from(pos) = {}
  BY <1>1, <1>2, <1>5, Sizes DEF pos_after
<1>6. CASE over_from(pos) # {}
  <2>1. pos_after(pos) = Min(over_from(pos))
    BY <1>6 DEF pos_after
  <2>2. pos_after(pos) \in Slot
    BY <1>3, <1>4, <1>6, <2>1
  <2> QED BY <1>1, <1>2, <1>4, <1>6, <2>1, <2>2, Sizes
<1> QED
  BY <1>5, <1>6

LEMMA ReadType ==
  ASSUME Filled(kv_mapping_table), NEW x \in Opened
  PROVE  after_read(x) \in Opened
<1>1. PICK pos \in 0 .. HASH_SLOTS : pos = x.current_pos
  BY DEF Opened
<1>2. kv_mapping_table \in [Slot -> Entry]
  BY DEF Filled
<1>3. pos_after(pos) \in 0 .. HASH_SLOTS
      /\ live_from(pos) = {s \in Slot : s >= pos /\ in_use(kv_mapping_table, s)}
  BY <1>2, LiveIs
<1>4. keys_read(pos) \in SUBSET Keys
  <2>1. \A s \in slots_read(pos) : s \in Slot /\ in_use(kv_mapping_table, s)
    BY <1>3 DEF slots_read
  <2>2. \A s \in slots_read(pos) : kv_mapping_table[s].key \in Keys
    BY <2>1 DEF Filled
  <2> QED BY <2>2 DEF keys_read
<1>5. read_twice(pos) \in SUBSET Keys
  BY <1>4 DEF read_twice
<1>6. PICK e \in BOOLEAN : e = (x.end \/ (pos < HASH_SLOTS /\ over_from(pos) = {}))
  BY DEF Opened
<1>7. x.reported \in SUBSET Keys /\ x.twice \in SUBSET Keys /\ x.owed \in SUBSET Keys
  BY DEF Opened
<1>8. PICK r \in SUBSET Keys : r = x.reported \cup keys_read(pos)
  BY <1>4, <1>7
<1>9. PICK t \in SUBSET Keys : t = x.twice \cup (keys_read(pos) \cap x.reported) \cup read_twice(pos)
  BY <1>4, <1>5, <1>7
<1>10. after_read(x) = handle(pos_after(pos), e, r, t, x.owed)
  BY <1>1, <1>6, <1>8, <1>9 DEF after_read
<1>11. PICK q \in 0 .. HASH_SLOTS : q = pos_after(pos)
  BY <1>3
<1>12. PICK o \in SUBSET Keys : o = x.owed
  BY <1>7
<1>13. handle(q, e, r, t, o) \in Opened
  BY DEF handle, Opened
<1> QED
  BY <1>10, <1>11, <1>12, <1>13

opened == handle(0, FALSE, {}, {}, {k \in Keys : stored[k] # <<>>})

\* What the iterator commands do to a handle.
Turned(h) ==
  \/ iter_handle' = [iter_handle EXCEPT ![h] = closed]
  \/ iter_handle' = [iter_handle EXCEPT ![h] = opened]
  \/ iter_handle[h] \in Opened /\ iter_handle' = [iter_handle EXCEPT ![h] = after_read(iter_handle[h])]

IterCommand(w) == KvIterOpen(w) \/ KvIterClose(w) \/ KvIterRead(w) \/ KvIterReadClosed(w)

LEMMA IterStep ==
  ASSUME Base, IterCommand(W)
  PROVE  /\ Base' /\ cmd = idle /\ cmd' = cmd
         /\ UNCHANGED <<kv_mapping_table, alloc, storage, work, stored>> /\ reply' = no_reply
         /\ UNCHANGED iter_handle \/ \E h \in 1 .. NR_ITER : Turned(h)
<1>1. iter_step(W)
  BY DEF IterCommand, KvIterOpen, KvIterClose, KvIterRead, KvIterReadClosed
<1>2. work[W] = idle /\ UNCHANGED <<kv_mapping_table, alloc, storage, work, stored>> /\ reply' = no_reply
  BY <1>1 DEF iter_step
<1>3. Performing'
  BY <1>2, IdleFrame DEF Base
<1>4. iter_handle \in [1 .. NR_ITER -> Handle] /\ Filled(kv_mapping_table)
  BY DEF Base, Table
<1>5. UNCHANGED iter_handle \/ \E h \in 1 .. NR_ITER : Turned(h)
  <2>1. CASE KvIterOpen(W)
    <3>1. CASE closed_handles = {}
      BY <2>1, <3>1 DEF KvIterOpen
    <3>2. CASE closed_handles # {}
      <4>1. PICK h : h = Min(closed_handles)
        OBVIOUS
      <4>2. closed_handles \in SUBSET Nat
        BY Sizes DEF closed_handles
      <4>3. h \in closed_handles
        BY <3>2, <4>1, <4>2, MinIs
      <4>4. h \in 1 .. NR_ITER
        BY <4>3 DEF closed_handles
      <4>5. iter_handle' = [iter_handle EXCEPT ![h] = opened]
        BY <2>1, <3>2, <4>1 DEF KvIterOpen, opened, handle
      <4> QED BY <4>4, <4>5 DEF Turned
    <3> QED BY <3>1, <3>2
  <2>2. CASE KvIterClose(W)
    BY <2>2 DEF KvIterClose, Turned
  <2>3. CASE KvIterReadClosed(W)
    BY <2>3 DEF KvIterReadClosed
  <2>4. CASE KvIterRead(W)
    <3>1. PICK h \in 1 .. NR_ITER :
            /\ iter_handle[h].open
            /\ LET it == iter_handle[h]
                   pos == it.current_pos
                   slots == live_from(pos) \ over_from(pos)
                   got == {kv_mapping_table[s].key : s \in slots}
                   again == {k \in got : Cardinality({s \in slots : kv_mapping_table[s].key = k}) > 1}
                   ended == pos < HASH_SLOTS /\ over_from(pos) = {}
               IN  iter_handle' = [iter_handle EXCEPT ![h] =
                     [it EXCEPT !.current_pos = pos_after(pos), !.end = it.end \/ ended,
                                !.reported = it.reported \cup got,
                                !.twice = it.twice \cup (got \cap it.reported) \cup again]]
      BY <2>4 DEF KvIterRead
    <3>2. PICK x : x = iter_handle[h]
      OBVIOUS
    <3>3. x \in Opened
      BY <1>4, <3>1, <3>2, HandleIs
    <3>4. PICK p, e, r, t :
            /\ p = pos_after(x.current_pos)
            /\ e = (x.end \/ (x.current_pos < HASH_SLOTS /\ over_from(x.current_pos) = {}))
            /\ r = x.reported \cup keys_read(x.current_pos)
            /\ t = x.twice \cup (keys_read(x.current_pos) \cap x.reported) \cup read_twice(x.current_pos)
      OBVIOUS
    <3>5. [x EXCEPT !.current_pos = p, !.end = e, !.reported = r, !.twice = t] = after_read(x)
      <4>1. [x EXCEPT !.current_pos = p, !.end = e, !.reported = r, !.twice = t]
              = handle(p, e, r, t, x.owed)
        BY <3>3, ReadIs, Zenon
      <4>2. handle(p, e, r, t, x.owed) = after_read(x)
        BY <3>4, Zenon DEF after_read
      <4> QED BY <4>1, <4>2, Zenon
    <3>6. iter_handle' = [iter_handle EXCEPT ![h] =
                            [x EXCEPT !.current_pos = p, !.end = e, !.reported = r, !.twice = t]]
      <4>1. iter_handle' = [iter_handle EXCEPT ![h] = [x EXCEPT
              !.current_pos = pos_after(x.current_pos),
              !.end = x.end \/ (x.current_pos < HASH_SLOTS /\ over_from(x.current_pos) = {}),
              !.reported = x.reported \cup keys_read(x.current_pos),
              !.twice = x.twice \cup (keys_read(x.current_pos) \cap x.reported) \cup read_twice(x.current_pos)]]
        BY <3>1, <3>2, Zenon DEF keys_read, read_twice, slots_read
      <4> QED BY <3>4, <4>1, Zenon
    <3>7. iter_handle' = [iter_handle EXCEPT ![h] = after_read(x)]
      BY <3>5, <3>6, Zenon
    <3> QED BY <3>2, <3>3, <3>7 DEF Turned
  <2> QED BY <2>1, <2>2, <2>3, <2>4 DEF IterCommand
<1>6. iter_handle' \in [1 .. NR_ITER -> Handle]
  <2>1. CASE UNCHANGED iter_handle
    BY <1>4, <2>1
  <2>2. ASSUME NEW h \in 1 .. NR_ITER, Turned(h) PROVE iter_handle' \in [1 .. NR_ITER -> Handle]
    <3>1. closed \in Handle
      BY DEF Handle
    <3>2. opened \in Handle
      <4>1. PICK o \in SUBSET Keys : o = {k \in Keys : stored[k] # <<>>}
        OBVIOUS
      <4>2. opened = handle(0, FALSE, {}, {}, o)
        BY <4>1 DEF opened
      <4>3. handle(0, FALSE, {}, {}, o) \in Opened
        BY Sizes DEF handle, Opened
      <4> QED BY <4>2, <4>3 DEF Handle
    <3>3. iter_handle[h] \in Opened => after_read(iter_handle[h]) \in Handle
      BY <1>4, ReadType DEF Handle
    <3>4. PICK x \in Handle : iter_handle' = [iter_handle EXCEPT ![h] = x]
      BY <2>2, <3>1, <3>2, <3>3 DEF Turned
    <3> QED BY <1>4, <3>4
  <2> QED BY <1>5, <2>1, <2>2
<1>7. Base'
  BY <1>2, <1>3, <1>6 DEF Base, Table
<1> QED
  BY <1>2, <1>5, <1>7 DEF cmd

-----------------------------------------------------------------------------
(* Walks end.                                                              *)

LEMMA BaseInit ==
  ASSUME OneWorker, Init
  PROVE  Base
<1>1. PICK tb : tb = kv_mapping_table
  OBVIOUS
<1>2. free_entry \in Entry /\ free_entry.mem_offset = None /\ free_entry.next_slot = None
  BY DEF free_entry, Entry
<1>3. tb \in [Slot -> Entry] /\ \A s \in Slot : tb[s] = free_entry
  BY <1>1, <1>2 DEF Init
<1>4. Filled(tb)
  BY <1>2, <1>3 DEF Filled, in_use
<1>5. Acyclic(tb)
  <2>1. [s \in Slot |-> s + 1] \in [Slot -> 1 .. HASH_SLOTS]
    BY Sizes
  <2>2. \A s, t \in Slot : s + 1 = t + 1 => s = t
    BY Sizes
  <2>3. Ranked(tb, [s \in Slot |-> s + 1])
    BY <1>2, <1>3, <2>1, <2>2 DEF Ranked
  <2> QED BY <2>3 DEF Acyclic
<1>6. Unique(tb)
  <2>1. ASSUME NEW k \in Keys, NEW s \in reach(tb, Hash[k]) PROVE FALSE
    <3>1. Hash[k] \in Slot
      BY Sizes
    <3>2. s \in Slot /\ in_use(tb, s)
      BY <1>3, <3>1, ReachUsed
    <3> QED BY <1>2, <1>3, <3>2 DEF in_use
  <2> QED BY <2>1 DEF Unique
<1>7. idle \in Cmd /\ Good(tb, idle) /\ idle.pc = "idle" /\ due(idle) = 0
  <2>1. idle \in Cmd
    BY IdleIs DEF command, Cmd, PC
  <2>2. idle.pc = "idle" /\ idle.todo = <<>>
    BY DEF idle
  <2> QED BY <2>1, <2>2 DEF Good, due
<1>8. work \in [{W} -> Cmd] /\ cmd = idle
  <2>1. work = [w \in {W} |-> idle]
    BY OneIs DEF Init
  <2> QED BY <1>7, <2>1 DEF cmd
<1>9. alloc \in Alloc /\ alloc.latest = 0 /\ alloc.small = 0 /\ alloc.large = 0
  BY DEF Init, Alloc
<1>10. Budget(alloc, idle)
  <2>1. HALF \in Nat
    BY Sizes, Half2 DEF HALF
  <2>2. (0 + 0) * SMALL_LENGTH = 0 /\ (0 + 0) * LARGE_LENGTH = 0 /\ 0 + 0 * MaxLength = 0
    BY Sizes, MaxLengthIs
  <2> QED BY <1>7, <1>9, <2>1, <2>2, Sizes DEF Budget
<1>11. iter_handle \in [1 .. NR_ITER -> Handle] /\ DOMAIN storage = Offset
  BY DEF Init, Handle
<1> QED
  BY <1>1, <1>4, <1>5, <1>6, <1>7, <1>8, <1>9, <1>10, <1>11 DEF Base, Table, Performing

\* The steps, one by one.
LEMMA Steps ==
  ASSUME OneWorker, [Next]_vars
  PROVE  \/ Lookup(W) \/ CopyNew(W) \/ CopyOver(W) \/ UpdateLength(W) \/ FindSlot(W) \/ Install(W)
         \/ KvStore(W) \/ KvBatch(W) \/ KvRetrieve(W) \/ KvExist(W) \/ KvDelete(W) \/ IterCommand(W)
         \/ UNCHANGED vars
<1>1. \A w \in Workers : w = W
  BY OneIs
<1> QED
  BY <1>1 DEF Next, Step, Command, IterCommand

LEMMA BaseStep ==
  ASSUME OneWorker, Base, [Next]_vars
  PROVE  Base'
<1>1. CASE Lookup(W)
  BY <1>1, LookupStep
<1>2. CASE CopyNew(W)
  BY <1>2, CopyNewStep
<1>3. CASE CopyOver(W)
  BY <1>3, CopyOverStep
<1>4. CASE UpdateLength(W)
  BY <1>4, UpdateLengthStep
<1>5. CASE FindSlot(W)
  BY <1>5, FindSlotStep
<1>6. CASE Install(W)
  BY <1>6, InstallStep
<1>7. CASE KvStore(W)
  BY <1>7, StoreStep
<1>8. CASE KvBatch(W)
  BY <1>8, BatchStep
<1>9. CASE KvRetrieve(W) \/ KvExist(W)
  BY <1>9, LookStep
<1>10. CASE KvDelete(W)
  BY <1>10, DeleteStep
<1>11. CASE IterCommand(W)
  BY <1>11, IterStep
<1>12. CASE UNCHANGED vars
  BY <1>12 DEF vars, Base, Table, Performing, cmd
<1> QED
  BY <1>1, <1>2, <1>3, <1>4, <1>5, <1>6, <1>7, <1>8, <1>9, <1>10, <1>11, <1>12, Steps

LEMMA BaseEnds ==
  ASSUME OneWorker, Base
  PROVE  ChainsEnd
<1>1. PICK tb : tb = kv_mapping_table
  OBVIOUS
<1>2. tb \in [Slot -> Entry] /\ Acyclic(tb)
  BY <1>1 DEF Base, Table, Filled
<1>3. ASSUME NEW s \in Slot PROVE walk_ends(s)
  <2>1. Walked(walk(s), tb, s)
    BY <1>1, <1>2, WalkIs
  <2> QED BY <1>2, <2>1, WalkEnds DEF walk_ends
<1>4. ASSUME NEW w \in Workers
      PROVE  /\ work[w].pc \in PC /\ work[w].offset \in Offset \cup {None}
             /\ work[w].slot \in Slot \cup {None} /\ work[w].prev \in Slot \cup {None}
  <2>1. w = W
    BY OneIs
  <2>2. work[w] \in Cmd
    BY <2>1 DEF Base, Performing
  <2> QED BY <2>2 DEF Cmd
<1>5. ASSUME NEW h \in 1 .. NR_ITER, iter_handle[h].open
      PROVE  iter_handle[h].current_pos \in 0 .. HASH_SLOTS
  <2>1. iter_handle[h] \in Handle
    BY DEF Base
  <2>2. iter_handle[h] \in Opened
    BY <1>5, <2>1, HandleIs
  <2> QED BY <2>2 DEF Opened
<1>6. TypeOK
  BY <1>1, <1>2, <1>4, <1>5 DEF TypeOK, Entry, PC, Base
<1> QED
  BY <1>3, <1>6 DEF ChainsEnd

\* With one worker no walk along next_slot ever runs in a circle, whatever is
\* stored, replaced and deleted: get_mapping_entry and find_next_slot always come
\* to an end.
THEOREM WalksEnd == ASSUME OneWorker PROVE Spec => []ChainsEnd
<1>1. Init => Base
  BY BaseInit
<1>2. Base /\ [Next]_vars => Base'
  BY BaseStep
<1>3. Base => ChainsEnd
  BY BaseEnds
<1> QED
  BY <1>1, <1>2, <1>3, PTL DEF Spec

-----------------------------------------------------------------------------
(* Iterations are complete.                                                *)

\* an entry for k at or after the slot p
Holds(tb, k, p) == \E s \in Slot : s >= p /\ in_use(tb, s) /\ tb[s].key = k

\* every entry of tb is one of tb2
Keeps(tb, tb2) == \A s \in Slot : in_use(tb, s) => in_use(tb2, s) /\ tb2[s].key = tb[s].key

LEMMA KeepsHolds ==
  ASSUME NEW tb, NEW tb2, Keeps(tb, tb2), NEW k, NEW p, Holds(tb, k, p)
  PROVE  Holds(tb2, k, p)
BY DEF Keeps, Holds

LEMMA ValueType ==
  ASSUME NEW u \in Sub
  PROVE  value_of(u.val, u.len) \in Seq(Values) /\ value_of(u.val, u.len) # <<>>
<1>1. PICK n \in Nat, v \in Values : n = u.len /\ v = u.val /\ n >= 1
  BY Sizes DEF Sub
<1>2. [i \in 1 .. n |-> v] \in Seq(Values) /\ Len([i \in 1 .. n |-> v]) = n
  OBVIOUS
<1>3. [i \in 1 .. n |-> v] # <<>>
  BY <1>1, <1>2
<1> QED
  BY <1>1, <1>2, <1>3 DEF value_of

\* the steps of stores, and the commands that change nothing
Storing ==
  \/ Lookup(W) \/ CopyNew(W) \/ CopyOver(W) \/ UpdateLength(W) \/ FindSlot(W) \/ Install(W)
  \/ KvStore(W) \/ KvBatch(W) \/ KvRetrieve(W) \/ KvExist(W) \/ UNCHANGED vars

\* What they do to entries and handles, seen from an iterator.
LEMMA StoringKeeps ==
  ASSUME OneWorker, Base, Storing
  PROVE  /\ Keeps(kv_mapping_table, kv_mapping_table') /\ UNCHANGED iter_handle
         /\ \/ UNCHANGED stored
            \/ \E u \in Sub : Remembers(u.key, u) /\ Holds(kv_mapping_table', u.key, 0)
<1>1. PICK tb, tb2 : tb = kv_mapping_table /\ tb2 = kv_mapping_table'
  OBVIOUS
<1>2. PICK u : u = sub(W)
  OBVIOUS
<1>3. \A s \in Slot : s >= 0
  BY Sizes
<1>4. tb2 = tb => Keeps(tb, tb2)
  BY DEF Keeps
<1>5. CASE CopyOver(W)
  <2>1. /\ UNCHANGED <<kv_mapping_table, iter_handle>> /\ At(tb, cmd) /\ cmd.pc = "copy"
        /\ UNCHANGED stored \/ Remembers(u.key, u)
    BY <1>1, <1>2, <1>5, CopyOverStep
  <2>2. Runs(tb, cmd, u)
    BY <1>1, <1>2, <2>1, Running
  <2>3. PICK s : s # None /\ Finds(tb, u.key, s)
    BY <2>1, <2>2 DEF At, Runs
  <2>4. s \in reach(tb, Hash[u.key]) /\ tb[s].key = u.key
    BY <2>3 DEF Finds
  <2>5. s \in Slot /\ in_use(tb, s)
    BY <2>2, <2>4, ChainEntry DEF Runs
  <2>6. Holds(tb2, u.key, 0) /\ u \in Sub
    BY <1>1, <1>3, <2>1, <2>2, <2>4, <2>5 DEF Holds, Runs
  <2> QED BY <1>1, <1>4, <2>1, <2>6
<1>6. CASE UpdateLength(W)
  <2>1. /\ UNCHANGED iter_handle /\ cmd.pc = "length" /\ Remembers(u.key, u)
        /\ \E s : s # None /\ Finds(tb, u.key, s) /\ Relabelled(tb, tb2, s, u.len)
    BY <1>1, <1>2, <1>6, UpdateLengthStep
  <2>2. Runs(tb, cmd, u)
    BY <1>1, <1>2, <2>1, Running
  <2>3. PICK s : s # None /\ Finds(tb, u.key, s) /\ Relabelled(tb, tb2, s, u.len)
    BY <2>1
  <2>4. s \in reach(tb, Hash[u.key]) /\ tb[s].key = u.key
    BY <2>3 DEF Finds
  <2>5. s \in Slot /\ in_use(tb, s)
    BY <2>2, <2>4, ChainEntry DEF Runs
  <2>6. Keeps(tb, tb2)
    BY <2>3 DEF Keeps, Relabelled, in_use
  <2>7. Holds(tb, u.key, 0) /\ u \in Sub
    BY <1>3, <2>2, <2>4, <2>5 DEF Holds, Runs
  <2>8. Holds(tb2, u.key, 0)
    BY <2>6, <2>7, KeepsHolds
  <2> QED BY <1>1, <2>1, <2>6, <2>7, <2>8
<1>7. CASE Install(W)
  <2>1. /\ UNCHANGED iter_handle /\ cmd.pc = "install" /\ Remembers(u.key, u)
        /\ cmd.slot \in Slot /\ ~in_use(tb, cmd.slot) /\ cmd.offset \in Offset
        /\ Added(tb, tb2, u.key, cmd.slot, cmd.offset, u.len)
    BY <1>1, <1>2, <1>7, InstallStep
  <2>2. u \in Sub
    BY <1>1, <1>2, <2>1, Running DEF Runs
  <2>3. Keeps(tb, tb2)
    BY <2>1 DEF Keeps, Added, in_use
  <2>4. Holds(tb2, u.key, 0)
    <3>1. tb2[cmd.slot].key = u.key /\ in_use(tb2, cmd.slot)
      BY <2>1, Sizes DEF Added, in_use
    <3> QED BY <1>3, <2>1, <3>1 DEF Holds
  <2> QED BY <1>1, <2>1, <2>2, <2>3, <2>4
<1>8. CASE ~CopyOver(W) /\ ~UpdateLength(W) /\ ~Install(W)
  <2>1. UNCHANGED <<kv_mapping_table, iter_handle, stored>>
    BY <1>8 DEF Storing, Lookup, CopyNew, FindSlot, KvStore, KvBatch, begin, KvRetrieve, KvExist, vars
  <2> QED BY <1>1, <1>4, <2>1
<1> QED
  BY <1>5, <1>6, <1>7, <1>8

Kept ==
  /\ stored \in [Keys -> Seq(Values)]
  /\ \A k \in Keys : stored[k] # <<>> => Holds(kv_mapping_table, k, 0)

\* what the iterator x owes is still ahead of it
Owes(tb, x) ==
  /\ x.end => x.current_pos = HASH_SLOTS
  /\ \A k \in x.owed : k \notin x.reported => Holds(tb, k, x.current_pos)

IterKept ==
  Kept /\ \A h \in 1 .. NR_ITER : iter_handle[h].open => Owes(kv_mapping_table, iter_handle[h])

LEMMA KeptInit ==
  ASSUME Init
  PROVE  IterKept
<1>1. stored \in [Keys -> Seq(Values)] /\ \A k \in Keys : stored[k] = <<>>
  BY DEF Init
<1>2. \A h \in 1 .. NR_ITER : ~iter_handle[h].open
  BY DEF Init, closed
<1> QED
  BY <1>1, <1>2 DEF IterKept, Kept

LEMMA StoringKept ==
  ASSUME OneWorker, Base, IterKept, Storing
  PROVE  IterKept'
<1>1. PICK tb, tb2 : tb = kv_mapping_table /\ tb2 = kv_mapping_table'
  OBVIOUS
<1>2. Keeps(tb, tb2) /\ UNCHANGED iter_handle
      /\ (UNCHANGED stored \/ \E u \in Sub : Remembers(u.key, u) /\ Holds(tb2, u.key, 0))
  BY <1>1, StoringKeeps
<1>3. stored \in [Keys -> Seq(Values)] /\ \A k \in Keys : stored[k] # <<>> => Holds(tb, k, 0)
  BY <1>1 DEF IterKept, Kept
<1>4. stored' \in [Keys -> Seq(Values)] /\ \A k \in Keys : stored'[k] # <<>> => Holds(tb2, k, 0)
  <2>1. \A k \in Keys : stored[k] # <<>> => Holds(tb2, k, 0)
    BY <1>2, <1>3, KeepsHolds
  <2>2. CASE UNCHANGED stored
    BY <1>3, <2>1, <2>2
  <2>3. ASSUME NEW u \in Sub, Remembers(u.key, u), Holds(tb2, u.key, 0)
        PROVE  stored' \in [Keys -> Seq(Values)] /\ \A k \in Keys : stored'[k] # <<>> => Holds(tb2, k, 0)
    <3>1. PICK v \in Seq(Values) : v = value_of(u.val, u.len)
      BY ValueType
    <3>2. stored' = [stored EXCEPT ![u.key] = v] /\ u.key \in Keys
      BY <2>3, <3>1 DEF Remembers, Sub
    <3> QED BY <1>3, <2>1, <2>3, <3>2
  <2> QED BY <1>2, <2>2, <2>3
<1>5. ASSUME NEW h \in 1 .. NR_ITER, iter_handle'[h].open PROVE Owes(tb2, iter_handle'[h])
  <2>1. Owes(tb, iter_handle[h]) /\ iter_handle'[h] = iter_handle[h]
    BY <1>1, <1>2, <1>5 DEF IterKept
  <2> QED BY <1>2, <2>1, KeepsHolds DEF Owes
<1> QED
  BY <1>1, <1>4, <1>5 DEF IterKept, Kept

\* A deleted key is owed no longer; the others keep their entries.
LEMMA DeleteKept ==
  ASSUME Base, IterKept, KvDelete(W)
  PROVE  IterKept'
<1>1. PICK tb, tb2 : tb = kv_mapping_table /\ tb2 = kv_mapping_table'
  OBVIOUS
<1>2. CASE UNCHANGED <<kv_mapping_table, iter_handle, stored>>
  BY <1>2 DEF IterKept, Kept
<1>3. ASSUME NEW k \in Keys, NEW s \in Slot, Deleted(k, s) PROVE IterKept'
  <2>1. /\ Finds(tb, k, s) /\ Freed(tb, tb2, s) /\ stored' = [stored EXCEPT ![k] = <<>>]
        /\ release_key(k)
    BY <1>1, <1>3 DEF Deleted
  <2>2. tb[s].key = k
    BY <2>1, Sizes DEF Finds
  <2>3. ASSUME NEW l, l # k, NEW p, Holds(tb, l, p) PROVE Holds(tb2, l, p)
    <3>1. PICK t \in Slot : t >= p /\ in_use(tb, t) /\ tb[t].key = l
      BY <2>3 DEF Holds
    <3>2. tb2[t] = tb[t]
      BY <2>1, <2>2, <2>3, <3>1 DEF Freed
    <3> QED BY <3>1, <3>2 DEF Holds, in_use
  <2>4. stored \in [Keys -> Seq(Values)] /\ \A l \in Keys : stored[l] # <<>> => Holds(tb, l, 0)
    BY <1>1 DEF IterKept, Kept
  <2>5. stored' \in [Keys -> Seq(Values)] /\ \A l \in Keys : stored'[l] # <<>> => Holds(tb2, l, 0)
    <3>1. <<>> \in Seq(Values)
      OBVIOUS
    <3>2. stored' \in [Keys -> Seq(Values)] /\ stored'[k] = <<>>
          /\ \A l \in Keys : l # k => stored'[l] = stored[l]
      BY <2>1, <2>4, <3>1
    <3> QED BY <2>3, <2>4, <3>2
  <2>6. ASSUME NEW h \in 1 .. NR_ITER, iter_handle'[h].open PROVE Owes(tb2, iter_handle'[h])
    <3>1. iter_handle \in [1 .. NR_ITER -> Handle]
      BY DEF Base
    <3>2. iter_handle'[h] = IF iter_handle[h].open THEN [iter_handle[h] EXCEPT !.owed = @ \ {k}]
                            ELSE closed
      BY <2>1, <3>1 DEF release_key
    <3>3. iter_handle[h].open
      BY <2>6, <3>2 DEF closed
    <3>4. PICK x \in Opened : x = iter_handle[h]
      BY <3>1, <3>3, HandleIs
    <3>5. PICK y : y = [x EXCEPT !.owed = @ \ {k}]
      OBVIOUS
    <3>6. y.end = x.end /\ y.current_pos = x.current_pos /\ y.reported = x.reported
          /\ y.owed = x.owed \ {k}
      BY <3>5 DEF Opened
    <3>7. Owes(tb, x)
      BY <1>1, <3>3, <3>4 DEF IterKept
    <3>8. Owes(tb2, y)
      BY <2>3, <3>6, <3>7 DEF Owes
    <3> QED BY <3>2, <3>3, <3>4, <3>5, <3>8
  <2> QED BY <1>1, <2>5, <2>6 DEF IterKept, Kept
<1> QED
  BY <1>2, <1>3, DeleteStep

\* A read leaves the position before every entry it did not report.
LEMMA ReadKept ==
  ASSUME Filled(kv_mapping_table), NEW x \in Opened, Owes(kv_mapping_table, x)
  PROVE  Owes(kv_mapping_table, after_read(x))
<1>1. PICK tb : tb = kv_mapping_table
  OBVIOUS
<1>2. PICK pos \in 0 .. HASH_SLOTS : pos = x.current_pos
  BY DEF Opened
<1>3. PICK y : y = after_read(x)
  OBVIOUS
<1>4. /\ y.current_pos = pos_after(pos) /\ y.reported = x.reported \cup keys_read(pos) /\ y.owed = x.owed
      /\ y.end = (x.end \/ (pos < HASH_SLOTS /\ over_from(pos) = {}))
  BY <1>2, <1>3 DEF after_read, handle
<1>5. /\ live_from(pos) = {s \in Slot : s >= pos /\ in_use(tb, s)}
      /\ \A s \in over_from(pos) : pos_after(pos) <= s
      /\ over_from(pos) \in SUBSET live_from(pos)
      /\ over_from(pos) = {} => pos_after(pos) = HASH_SLOTS
      /\ pos_after(pos) \in 0 .. HASH_SLOTS
  BY <1>1, LiveIs DEF Filled
<1>6. y.end => y.current_pos = HASH_SLOTS
  <2>1. CASE x.end
    <3>1. pos = HASH_SLOTS
      BY <1>2, <2>1 DEF Owes
    <3>2. live_from(pos) = {}
      BY <1>5, <3>1, Sizes
    <3> QED BY <1>4, <1>5, <3>2
  <2>2. CASE over_from(pos) = {}
    BY <1>4, <1>5, <2>2
  <2> QED BY <1>4, <2>1, <2>2
<1>7. ASSUME NEW k \in y.owed, k \notin y.reported PROVE Holds(tb, k, y.current_pos)
  <2>1. k \in x.owed /\ k \notin x.reported /\ k \notin keys_read(pos)
    BY <1>4, <1>7
  <2>2. PICK s \in Slot : s >= pos /\ in_use(tb, s) /\ tb[s].key = k
    BY <1>1, <1>2, <2>1 DEF Owes, Holds
  <2>3. s \in live_from(pos)
    BY <1>5, <2>2
  <2>4. s \in over_from(pos)
    BY <1>1, <2>1, <2>2, <2>3 DEF keys_read, slots_read
  <2>5. s >= pos_after(pos)
    BY <1>5, <2>4, Sizes
  <2> QED BY <1>4, <2>2, <2>5 DEF Holds
<1> QED
  BY <1>1, <1>3, <1>6, <1>7 DEF Owes

LEMMA TurnedIs ==
  ASSUME NEW h \in 1 .. NR_ITER, iter_handle \in [1 .. NR_ITER -> Handle], Turned(h)
  PROVE  /\ \A g \in 1 .. NR_ITER : g # h => iter_handle'[g] = iter_handle[g]
         /\ \/ iter_handle'[h] = closed
            \/ iter_handle'[h] = opened
            \/ iter_handle[h] \in Opened /\ iter_handle'[h] = after_read(iter_handle[h])
BY DEF Turned

LEMMA IterKeptStep ==
  ASSUME Base, IterKept, IterCommand(W)
  PROVE  IterKept'
<1>1. UNCHANGED <<kv_mapping_table, stored>>
      /\ (UNCHANGED iter_handle \/ \E h \in 1 .. NR_ITER : Turned(h))
  BY IterStep
<1>2. PICK tb : tb = kv_mapping_table
  OBVIOUS
<1>3. Filled(tb) /\ iter_handle \in [1 .. NR_ITER -> Handle]
  BY <1>2 DEF Base, Table
<1>4. Kept'
  BY <1>1 DEF IterKept, Kept
<1>5. ASSUME NEW g \in 1 .. NR_ITER, iter_handle'[g].open PROVE Owes(tb, iter_handle'[g])
  <2>1. iter_handle[g].open => Owes(tb, iter_handle[g])
    BY <1>2 DEF IterKept
  <2>2. CASE iter_handle'[g] = iter_handle[g]
    BY <1>5, <2>1, <2>2
  <2>3. CASE iter_handle'[g] # iter_handle[g]
    <3>1. PICK h \in 1 .. NR_ITER : Turned(h)
      BY <1>1, <2>3
    <3>2. h = g
      BY <1>3, <2>3, <3>1, TurnedIs
    <3>3. CASE iter_handle'[g] = closed
      BY <1>5, <3>3 DEF closed
    <3>4. CASE iter_handle'[g] = opened
      <4>1. PICK y : y = opened
        OBVIOUS
      <4>2. y.end = FALSE /\ y.current_pos = 0 /\ y.owed = {k \in Keys : stored[k] # <<>>}
        BY <4>1 DEF opened, handle
      <4>3. \A k \in y.owed : Holds(tb, k, y.current_pos)
        BY <1>2, <4>2 DEF IterKept, Kept
      <4> QED BY <3>4, <4>1, <4>2, <4>3 DEF Owes
    <3>5. CASE iter_handle[g] \in Opened /\ iter_handle'[g] = after_read(iter_handle[g])
      <4>1. iter_handle[g].open
        BY <3>5 DEF Opened
      <4> QED BY <1>2, <1>3, <2>1, <3>5, <4>1, ReadKept
    <3> QED BY <1>3, <3>1, <3>2, <3>3, <3>4, <3>5, TurnedIs
  <2> QED BY <2>2, <2>3
<1> QED
  BY <1>1, <1>2, <1>4, <1>5 DEF IterKept

LEMMA KeptComplete ==
  ASSUME Base, IterKept
  PROVE  IterComplete
<1> SUFFICES ASSUME NEW h \in 1 .. NR_ITER, iter_handle[h].open, iter_handle[h].end,
                    NEW k \in iter_handle[h].owed, k \notin iter_handle[h].reported
             PROVE  FALSE
  BY DEF IterComplete
<1>1. Holds(kv_mapping_table, k, HASH_SLOTS)
  BY DEF IterKept, Owes
<1> QED
  BY <1>1, Sizes DEF Holds

\* With one worker, an iteration that has come to its end has reported every key
\* that was stored when it was opened and is not deleted since, although stores
\* and deletes go on between its reads and deletes leave entries behind that no
\* lookup finds.
THEOREM IterationsComplete == ASSUME OneWorker PROVE Spec => []IterComplete
<1>1. Init => Base /\ IterKept
  BY BaseInit, KeptInit
<1>2. Base /\ IterKept /\ [Next]_vars => Base' /\ IterKept'
  <2> SUFFICES ASSUME Base, IterKept, [Next]_vars PROVE Base' /\ IterKept'
    OBVIOUS
  <2>1. Storing \/ KvDelete(W) \/ IterCommand(W)
    BY Steps DEF Storing
  <2>2. Base'
    BY BaseStep
  <2> QED BY <2>1, <2>2, StoringKept, DeleteKept, IterKeptStep
<1>3. Base /\ IterKept => IterComplete
  BY KeptComplete
<1> QED
  BY <1>1, <1>2, <1>3, PTL DEF Spec

-----------------------------------------------------------------------------
(* Iterations report no key twice, when nothing is deleted.                *)

\* delete leaves copies of a key behind that no lookup finds
NoDelete == "delete" \notin Ops

\* every entry is on the chain of its key
OnChain(tb) == \A s \in Slot : in_use(tb, s) => s \in reach(tb, Hash[tb[s].key])

\* what the iterator x has reported is behind it
Behind(tb, x) ==
  /\ x.twice = {}
  /\ \A k \in x.reported : \E s \in Slot : s < x.current_pos /\ in_use(tb, s) /\ tb[s].key = k

IterFresh ==
  /\ OnChain(kv_mapping_table)
  /\ \A h \in 1 .. NR_ITER : iter_handle[h].open => Behind(kv_mapping_table, iter_handle[h])

\* Then a key has one entry.
LEMMA OneEntry ==
  ASSUME NEW tb, Filled(tb), Unique(tb), OnChain(tb), NEW s \in Slot, NEW t \in Slot,
         in_use(tb, s), in_use(tb, t), tb[s].key = tb[t].key
  PROVE  s = t
<1>1. PICK k \in Keys : k = tb[s].key
  BY DEF Filled
<1>2. s \in reach(tb, Hash[k]) /\ t \in reach(tb, Hash[k])
  BY <1>1 DEF OnChain
<1> QED
  BY <1>1, <1>2 DEF Unique

LEMMA StoringChain ==
  ASSUME OneWorker, Base, Storing, OnChain(kv_mapping_table)
  PROVE  OnChain(kv_mapping_table')
<1>1. PICK tb, tb2 : tb = kv_mapping_table /\ tb2 = kv_mapping_table'
  OBVIOUS
<1>2. PICK u : u = sub(W)
  OBVIOUS
<1>3. Filled(tb)
  BY <1>1 DEF Base, Table
<1>4. CASE UpdateLength(W)
  <2>1. PICK s : Relabelled(tb, tb2, s, u.len)
    BY <1>1, <1>2, <1>4, UpdateLengthStep
  <2>2. ASSUME NEW t \in Slot, in_use(tb2, t) PROVE t \in reach(tb2, Hash[tb2[t].key])
    <3>1. in_use(tb, t) /\ tb2[t].key = tb[t].key
      BY <2>1, <2>2 DEF Relabelled, in_use
    <3>2. tb[t].key \in Keys
      BY <1>3, <3>1 DEF Filled
    <3>3. t \in reach(tb, Hash[tb[t].key]) /\ Hash[tb[t].key] \in Slot
      BY <1>1, <3>1, <3>2, Sizes DEF OnChain
    <3> QED BY <2>1, <3>1, <3>3 DEF Relabelled
  <2> QED BY <1>1, <2>2 DEF OnChain
<1>5. CASE Install(W)
  <2>1. PICK sl, off : Added(tb, tb2, u.key, sl, off, u.len)
    BY <1>1, <1>2, <1>5, InstallStep
  <2>2. ASSUME NEW t \in Slot, in_use(tb2, t) PROVE t \in reach(tb2, Hash[tb2[t].key])
    <3>1. CASE t = sl
      BY <2>1, <3>1 DEF Added
    <3>2. CASE t # sl
      <4>1. in_use(tb, t) /\ tb2[t].key = tb[t].key
        BY <2>1, <2>2, <3>2 DEF Added, in_use
      <4>2. tb[t].key \in Keys
        BY <1>3, <4>1 DEF Filled
      <4>3. t \in reach(tb, Hash[tb[t].key]) /\ Hash[tb[t].key] \in Slot
        BY <1>1, <4>1, <4>2, Sizes DEF OnChain
      <4> QED BY <2>1, <4>1, <4>3 DEF Added
    <3> QED BY <3>1, <3>2
  <2> QED BY <1>1, <2>2 DEF OnChain
<1>6. CASE ~UpdateLength(W) /\ ~Install(W)
  <2>1. UNCHANGED kv_mapping_table
    BY <1>6 DEF Storing, Lookup, CopyNew, CopyOver, FindSlot, KvStore, KvBatch, begin, KvRetrieve,
                KvExist, vars
  <2> QED BY <2>1
<1> QED
  BY <1>4, <1>5, <1>6

LEMMA FreshInit ==
  ASSUME Init
  PROVE  IterFresh
<1>1. \A h \in 1 .. NR_ITER : ~iter_handle[h].open
  BY DEF Init, closed
<1>2. \A s \in Slot : ~in_use(kv_mapping_table, s)
  BY DEF Init, in_use, free_entry
<1> QED
  BY <1>1, <1>2 DEF IterFresh, OnChain

LEMMA StoringFresh ==
  ASSUME OneWorker, Base, IterFresh, Storing
  PROVE  IterFresh'
<1>1. PICK tb, tb2 : tb = kv_mapping_table /\ tb2 = kv_mapping_table'
  OBVIOUS
<1>2. Keeps(tb, tb2) /\ UNCHANGED iter_handle
  BY <1>1, StoringKeeps
<1>3. OnChain(tb2)
  BY <1>1, StoringChain DEF IterFresh
<1>4. ASSUME NEW h \in 1 .. NR_ITER, iter_handle'[h].open PROVE Behind(tb2, iter_handle'[h])
  <2>1. Behind(tb, iter_handle[h]) /\ iter_handle'[h] = iter_handle[h]
    BY <1>1, <1>2, <1>4 DEF IterFresh
  <2> QED BY <1>2, <2>1 DEF Behind, Keeps
<1> QED
  BY <1>1, <1>3, <1>4 DEF IterFresh

\* A read reports nothing at or after the position it leaves.
LEMMA ReadBefore ==
  ASSUME kv_mapping_table \in [Slot -> Entry], NEW pos \in 0 .. HASH_SLOTS, NEW s \in slots_read(pos)
  PROVE  s \in Slot /\ s >= pos /\ in_use(kv_mapping_table, s) /\ s < pos_after(pos)
<1>1. /\ live_from(pos) = {t \in Slot : t >= pos /\ in_use(kv_mapping_table, t)}
      /\ over_from(pos) \in SUBSET live_from(pos)
      /\ over_from(pos) = {} => pos_after(pos) = HASH_SLOTS
      /\ over_from(pos) # {} => pos_after(pos) \in over_from(pos)
  BY LiveIs
<1>2. s \in Slot /\ s >= pos /\ in_use(kv_mapping_table, s) /\ s \in live_from(pos)
      /\ s \notin over_from(pos)
  BY <1>1 DEF slots_read
<1>3. CASE over_from(pos) = {}
  BY <1>1, <1>2, <1>3, Sizes
<1>4. CASE over_from(pos) # {}
  <2> DEFINE before(t) == {v \in live_from(pos) : v < t}
  <2>1. PICK m \in Slot : m = pos_after(pos) /\ m \in over_from(pos)
    BY <1>1, <1>4
  <2>2. Cardinality(before(m)) >= KEYS_PER_READ /\ ~(Cardinality(before(s)) >= KEYS_PER_READ)
    BY <1>2, <2>1 DEF over_from
  <2>3. SUFFICES ASSUME m <= s PROVE FALSE
    BY <1>2, <2>1, Sizes
  <2>4. before(m) \in SUBSET before(s)
    BY <1>1, <1>2, <2>1, <2>3, Sizes
  <2>5. IsFiniteSet(before(s))
    <3>1. IsFiniteSet(0 .. HASH_SLOTS - 1)
      BY Sizes, FS_Interval
    <3>2. before(s) \in SUBSET (0 .. HASH_SLOTS - 1)
      BY <1>1, Sizes
    <3> HIDE DEF before
    <3> QED BY <3>1, <3>2, FS_Subset
  <2> HIDE DEF before
  <2>6. Cardinality(before(m)) <= Cardinality(before(s)) /\ Cardinality(before(s)) \in Nat
        /\ Cardinality(before(m)) \in Nat
    BY <2>4, <2>5, FS_Subset, FS_CardinalityType
  <2> QED BY <2>2, <2>6, KvAssumption
<1> QED
  BY <1>2, <1>3, <1>4

LEMMA ReadFresh ==
  ASSUME Table, OnChain(kv_mapping_table), NEW x \in Opened, Behind(kv_mapping_table, x)
  PROVE  Behind(kv_mapping_table, after_read(x))
<1>1. PICK tb : tb = kv_mapping_table
  OBVIOUS
<1>2. PICK pos \in 0 .. HASH_SLOTS : pos = x.current_pos
  BY DEF Opened
<1>3. PICK y : y = after_read(x)
  OBVIOUS
<1>4. /\ y.current_pos = pos_after(pos) /\ y.reported = x.reported \cup keys_read(pos)
      /\ y.twice = x.twice \cup (keys_read(pos) \cap x.reported) \cup read_twice(pos)
  BY <1>2, <1>3 DEF after_read, handle
<1>5. Filled(tb) /\ Unique(tb) /\ tb \in [Slot -> Entry]
  BY <1>1 DEF Table, Filled
<1>6. \A s \in slots_read(pos) : s \in Slot /\ s >= pos /\ in_use(tb, s) /\ s < pos_after(pos)
  BY <1>1, <1>5, ReadBefore
<1>7. keys_read(pos) \cap x.reported = {}
  <2> SUFFICES ASSUME NEW k \in keys_read(pos), k \in x.reported PROVE FALSE
    OBVIOUS
  <2>1. PICK s \in slots_read(pos) : tb[s].key = k
    BY <1>1 DEF keys_read
  <2>2. PICK t \in Slot : t < pos /\ in_use(tb, t) /\ tb[t].key = k
    BY <1>1, <1>2 DEF Behind
  <2>3. s = t
    BY <1>1, <1>5, <1>6, <2>1, <2>2, OneEntry
  <2> QED BY <1>6, <2>2, <2>3, Sizes
<1>8. read_twice(pos) = {}
  <2> SUFFICES ASSUME NEW k \in read_twice(pos) PROVE FALSE
    OBVIOUS
  <2> DEFINE T == {s \in slots_read(pos) : tb[s].key = k}
  <2>1. k \in keys_read(pos) /\ Cardinality(T) > 1
    BY <1>1 DEF read_twice
  <2>2. PICK s \in slots_read(pos) : tb[s].key = k
    BY <1>1, <2>1 DEF keys_read
  <2>3. \A t \in T : t = s
    BY <1>1, <1>5, <1>6, <2>2, OneEntry
  <2>4. T = {s}
    BY <2>2, <2>3
  <2> HIDE DEF T
  <2>5. Cardinality(T) = 1
    BY <2>4, FS_Singleton
  <2> QED BY <2>1, <2>5
<1>9. ASSUME NEW k \in y.reported
      PROVE  \E s \in Slot : s < y.current_pos /\ in_use(tb, s) /\ tb[s].key = k
  <2>1. CASE k \in x.reported
    <3>1. PICK s \in Slot : s < pos /\ in_use(tb, s) /\ tb[s].key = k
      BY <1>1, <1>2, <2>1 DEF Behind
    <3>2. pos <= pos_after(pos)
      <4>1. /\ live_from(pos) = {t \in Slot : t >= pos /\ in_use(tb, t)}
            /\ over_from(pos) \in SUBSET live_from(pos)
            /\ over_from(pos) = {} => pos_after(pos) = HASH_SLOTS
            /\ over_from(pos) # {} => pos_after(pos) \in over_from(pos)
        BY <1>1, <1>5, LiveIs
      <4> QED BY <4>1, Sizes
    <3>3. pos_after(pos) \in 0 .. HASH_SLOTS
      BY <1>1, <1>5, LiveIs
    <3>4. s < pos_after(pos)
      BY <3>1, <3>2, <3>3, Sizes
    <3> QED BY <1>4, <3>1, <3>4
  <2>2. CASE k \in keys_read(pos)
    <3>1. PICK s \in slots_read(pos) : tb[s].key = k
      BY <1>1, <2>2 DEF keys_read
    <3> QED BY <1>4, <1>6, <3>1
  <2> QED BY <1>4, <2>1, <2>2
<1>10. x.twice = {}
  BY DEF Behind
<1> QED
  BY <1>1, <1>3, <1>4, <1>7, <1>8, <1>9, <1>10 DEF Behind

LEMMA IterFreshStep ==
  ASSUME Base, IterFresh, IterCommand(W)
  PROVE  IterFresh'
<1>1. UNCHANGED kv_mapping_table
      /\ (UNCHANGED iter_handle \/ \E h \in 1 .. NR_ITER : Turned(h))
  BY IterStep
<1>2. PICK tb : tb = kv_mapping_table
  OBVIOUS
<1>3. Table /\ OnChain(tb) /\ iter_handle \in [1 .. NR_ITER -> Handle]
  BY <1>2 DEF Base, IterFresh
<1>4. ASSUME NEW g \in 1 .. NR_ITER, iter_handle'[g].open PROVE Behind(tb, iter_handle'[g])
  <2>1. iter_handle[g].open => Behind(tb, iter_handle[g])
    BY <1>2 DEF IterFresh
  <2>2. CASE iter_handle'[g] = iter_handle[g]
    BY <1>4, <2>1, <2>2
  <2>3. CASE iter_handle'[g] # iter_handle[g]
    <3>1. PICK h \in 1 .. NR_ITER : Turned(h)
      BY <1>1, <2>3
    <3>2. h = g
      BY <1>3, <2>3, <3>1, TurnedIs
    <3>3. CASE iter_handle'[g] = closed
      BY <1>4, <3>3 DEF closed
    <3>4. CASE iter_handle'[g] = opened
      <4>1. PICK y : y = opened
        OBVIOUS
      <4>2. y.twice = {} /\ y.reported = {}
        BY <4>1 DEF opened, handle
      <4> QED BY <3>4, <4>1, <4>2 DEF Behind
    <3>5. CASE iter_handle[g] \in Opened /\ iter_handle'[g] = after_read(iter_handle[g])
      <4>1. iter_handle[g].open
        BY <3>5 DEF Opened
      <4> QED BY <1>2, <1>3, <2>1, <3>5, <4>1, ReadFresh
    <3> QED BY <1>3, <3>1, <3>2, <3>3, <3>4, <3>5, TurnedIs
  <2> QED BY <2>2, <2>3
<1> QED
  BY <1>1, <1>2, <1>3, <1>4 DEF IterFresh

\* With one worker and no deletes an iteration reports no key twice, whatever is
\* stored between its reads: a full buffer stops at the entry that did not fit,
\* and no key has a second entry further on.
THEOREM IterationsReportOnce == ASSUME OneWorker, NoDelete PROVE Spec => []IterOnce
<1>1. Init => Base /\ IterFresh
  BY BaseInit, FreshInit
<1>2. Base /\ IterFresh /\ [Next]_vars => Base' /\ IterFresh'
  <2> SUFFICES ASSUME Base, IterFresh, [Next]_vars PROVE Base' /\ IterFresh'
    OBVIOUS
  <2>1. Storing \/ KvDelete(W) \/ IterCommand(W)
    BY Steps DEF Storing
  <2>2. ~KvDelete(W)
    BY DeleteStep DEF NoDelete
  <2>3. Base'
    BY BaseStep
  <2> QED BY <2>1, <2>2, <2>3, StoringFresh, IterFreshStep
<1>3. IterFresh => IterOnce
  BY DEF IterFresh, Behind, IterOnce
<1> QED
  BY <1>1, <1>2, <1>3, PTL DEF Spec

-----------------------------------------------------------------------------
(* Values stay apart.                                                      *)

\* A new length is recorded in an entry only when it fits into the memory the
\* entry has: the bitmap allocator gives every small value the same, the
\* append-only one gives a value what it asked for.
BlocksFixed ==
  \/ ALLOCATOR_TYPE = "BITMAP"
  \/ \A m, n \in Lengths : m <= SMALL_LENGTH /\ n <= SMALL_LENGTH => m = n

Placed(al, off, len) == Taken(al, off, len) /\ off + cap(len) <= STORAGE_SIZE

\* a value is in memory that has no entry yet
Pending(c) == c.pc \in {"slot", "install"}

Memory(tb, al, c) ==
  /\ \A s \in Slot : in_use(tb, s) => Placed(al, tb[s].mem_offset, tb[s].length)
  /\ \A s, t \in Slot : s # t /\ in_use(tb, s) /\ in_use(tb, t) =>
       Clear(tb[s].mem_offset, tb[s].length, tb[t].mem_offset, tb[t].length)
  /\ Pending(c) =>
       /\ Placed(al, c.offset, Head(c.todo).len)
       /\ \A s \in Slot : in_use(tb, s) =>
            Clear(tb[s].mem_offset, tb[s].length, c.offset, Head(c.todo).len)

Apart == Memory(kv_mapping_table, alloc, cmd)

LEMMA EntryIs ==
  ASSUME NEW tb, Filled(tb), NEW s \in Slot, in_use(tb, s)
  PROVE  tb[s].key \in Keys /\ tb[s].mem_offset \in Offset /\ tb[s].length \in Lengths
<1>1. tb[s] \in Entry /\ tb[s].key \in Keys /\ tb[s].length \in Lengths
  BY DEF Filled
<1> QED
  BY <1>1 DEF Entry, in_use

\* Lengths between which an entry changes take the same memory.
LEMMA SameMemory ==
  ASSUME BlocksFixed, NEW m \in Lengths, NEW n \in Lengths, m <= SMALL_LENGTH, n <= SMALL_LENGTH
  PROVE  cap(m) = cap(n) /\ \A al, off : Taken(al, off, m) => Taken(al, off, n)
<1>1. m \in Nat /\ n \in Nat /\ SMALL_LENGTH \in Nat
  BY Sizes
<1>2. CASE ALLOCATOR_TYPE = "BITMAP"
  <2>1. ~(m > SMALL_LENGTH) /\ ~(n > SMALL_LENGTH)
    BY <1>1
  <2> QED BY <1>2, <2>1 DEF cap, Taken
<1>3. CASE m = n
  BY <1>3
<1> QED
  BY <1>2, <1>3 DEF BlocksFixed

LEMMA ApartInit ==
  ASSUME OneWorker, Init
  PROVE  Apart
<1>1. \A s \in Slot : ~in_use(kv_mapping_table, s)
  BY DEF Init, in_use, free_entry
<1>2. cmd.pc = "idle"
  BY OneIs DEF Init, cmd, idle
<1> QED
  BY <1>1, <1>2 DEF Apart, Memory, Pending

LEMMA CopyNewApart ==
  ASSUME Base, Apart, CopyNew(W)
  PROVE  Apart'
<1>1. PICK tb, c2, u : tb = kv_mapping_table /\ c2 = cmd' /\ u = sub(W)
  OBVIOUS
<1>2. PICK al, al2 : al = alloc /\ al2 = alloc'
  OBVIOUS
<1>3. /\ cmd.pc = "copy" /\ c2.pc = "slot" /\ c2.todo = cmd.todo /\ NewMemory(al, al2, c2.offset, u.len)
      /\ UNCHANGED kv_mapping_table
  BY <1>1, <1>2, CopyNewStep
<1>4. Head(c2.todo) = u /\ u.len \in Lengths /\ Filled(tb)
  BY <1>1, <1>3, Running DEF Runs
<1>5. Placed(al2, c2.offset, u.len)
  BY <1>3 DEF Placed, NewMemory
<1>6. ASSUME NEW s \in Slot, in_use(tb, s)
      PROVE  Placed(al2, tb[s].mem_offset, tb[s].length)
             /\ Clear(tb[s].mem_offset, tb[s].length, c2.offset, u.len)
  <2>1. tb[s].mem_offset \in Offset /\ tb[s].length \in Lengths
    BY <1>4, <1>6, EntryIs
  <2>2. Placed(al, tb[s].mem_offset, tb[s].length)
    BY <1>1, <1>2, <1>6 DEF Apart, Memory
  <2>3. Taken(al2, tb[s].mem_offset, tb[s].length)
        /\ Clear(tb[s].mem_offset, tb[s].length, c2.offset, u.len)
    BY <1>3, <2>1, <2>2 DEF Placed, NewMemory
  <2> QED BY <2>2, <2>3 DEF Placed
<1>7. \A s, t \in Slot : s # t /\ in_use(tb, s) /\ in_use(tb, t) =>
        Clear(tb[s].mem_offset, tb[s].length, tb[t].mem_offset, tb[t].length)
  BY <1>1 DEF Apart, Memory
<1>8. Memory(tb, al2, c2)
  BY <1>4, <1>5, <1>6, <1>7 DEF Memory
<1> QED
  BY <1>1, <1>2, <1>3, <1>8 DEF Apart

LEMMA UpdateLengthApart ==
  ASSUME BlocksFixed, Base, Apart, UpdateLength(W)
  PROVE  Apart'
<1>1. PICK tb, tb2, c2, u : tb = kv_mapping_table /\ tb2 = kv_mapping_table' /\ c2 = cmd' /\ u = sub(W)
  OBVIOUS
<1>2. /\ cmd.pc = "length" /\ u.len <= SMALL_LENGTH /\ cmd.length <= SMALL_LENGTH
      /\ c2.pc \in {"idle", "lookup"} /\ UNCHANGED alloc
      /\ \E s : s # None /\ Finds(tb, u.key, s) /\ tb[s].length = cmd.length /\ Relabelled(tb, tb2, s, u.len)
  BY <1>1, UpdateLengthStep
<1>3. PICK s : s # None /\ Finds(tb, u.key, s) /\ tb[s].length = cmd.length
               /\ Relabelled(tb, tb2, s, u.len)
  BY <1>2
<1>4. u.len \in Lengths /\ Filled(tb) /\ Hash[u.key] \in Slot
  BY <1>1, <1>2, Running DEF Runs
<1>5. s \in reach(tb, Hash[u.key])
  BY <1>3 DEF Finds
<1>6. s \in Slot /\ tb[s].length \in Lengths /\ tb[s].length <= SMALL_LENGTH
  BY <1>2, <1>3, <1>4, <1>5, ChainEntry
<1>7. /\ cap(tb[s].length) = cap(u.len)
      /\ \A al, off : Taken(al, off, tb[s].length) => Taken(al, off, u.len)
  BY <1>2, <1>4, <1>6, SameMemory
<1>8. ASSUME NEW t \in Slot
      PROVE  /\ in_use(tb2, t) <=> in_use(tb, t)
             /\ tb2[t].mem_offset = tb[t].mem_offset
             /\ cap(tb2[t].length) = cap(tb[t].length)
             /\ \A al, off : Taken(al, off, tb[t].length) => Taken(al, off, tb2[t].length)
  <2>1. /\ tb2[t].mem_offset = tb[t].mem_offset
        /\ tb2[t].length = IF t = s THEN u.len ELSE tb[t].length
    BY <1>3 DEF Relabelled
  <2>2. in_use(tb2, t) <=> in_use(tb, t)
    BY <2>1 DEF in_use
  <2>3. CASE t = s
    BY <1>7, <2>1, <2>2, <2>3
  <2>4. CASE t # s
    BY <2>1, <2>2, <2>4
  <2> QED BY <2>3, <2>4
<1>9. \A t \in Slot : in_use(tb2, t) => Placed(alloc, tb2[t].mem_offset, tb2[t].length)
  BY <1>1, <1>8 DEF Apart, Memory, Placed
<1>10. \A p, q \in Slot : p # q /\ in_use(tb2, p) /\ in_use(tb2, q) =>
         Clear(tb2[p].mem_offset, tb2[p].length, tb2[q].mem_offset, tb2[q].length)
  BY <1>1, <1>8 DEF Apart, Memory, Clear
<1>11. Memory(tb2, alloc, c2)
  BY <1>2, <1>9, <1>10 DEF Memory, Pending
<1> QED
  BY <1>1, <1>2, <1>11 DEF Apart

LEMMA InstallApart ==
  ASSUME Base, Apart, Install(W)
  PROVE  Apart'
<1>1. PICK tb, tb2, c2, u : tb = kv_mapping_table /\ tb2 = kv_mapping_table' /\ c2 = cmd' /\ u = sub(W)
  OBVIOUS
<1>2. PICK sl, off : sl = cmd.slot /\ off = cmd.offset
  OBVIOUS
<1>3. /\ cmd.pc = "install" /\ sl \in Slot /\ ~in_use(tb, sl) /\ Added(tb, tb2, u.key, sl, off, u.len)
      /\ c2.pc \in {"idle", "lookup"} /\ UNCHANGED alloc
  BY <1>1, <1>2, InstallStep
<1>4. Head(cmd.todo) = u
  BY <1>1, <1>3, Running DEF Runs
<1>5. /\ Placed(alloc, off, u.len)
      /\ \A s \in Slot : in_use(tb, s) => Clear(tb[s].mem_offset, tb[s].length, off, u.len)
  BY <1>1, <1>2, <1>3, <1>4 DEF Apart, Memory, Pending
<1>6. \A s \in Slot : s # sl => /\ in_use(tb2, s) <=> in_use(tb, s)
                                /\ tb2[s].mem_offset = tb[s].mem_offset /\ tb2[s].length = tb[s].length
  BY <1>3 DEF Added, in_use
<1>7. tb2[sl].mem_offset = off /\ tb2[sl].length = u.len
  BY <1>3 DEF Added
<1>8. ASSUME NEW s \in Slot, in_use(tb2, s) PROVE Placed(alloc, tb2[s].mem_offset, tb2[s].length)
  <2>1. CASE s = sl
    BY <1>5, <1>7, <2>1
  <2>2. CASE s # sl
    BY <1>1, <1>6, <1>8, <2>2 DEF Apart, Memory
  <2> QED BY <2>1, <2>2
<1>9. ASSUME NEW s \in Slot, NEW t \in Slot, s # t, in_use(tb2, s), in_use(tb2, t)
      PROVE  Clear(tb2[s].mem_offset, tb2[s].length, tb2[t].mem_offset, tb2[t].length)
  <2>1. CASE s = sl
    <3>1. in_use(tb, t) /\ tb2[t].mem_offset = tb[t].mem_offset /\ tb2[t].length = tb[t].length
      BY <1>6, <1>9, <2>1
    <3>2. Clear(tb[t].mem_offset, tb[t].length, off, u.len)
      BY <1>5, <3>1
    <3> QED BY <1>7, <2>1, <3>1, <3>2 DEF Clear
  <2>2. CASE t = sl
    <3>1. in_use(tb, s) /\ tb2[s].mem_offset = tb[s].mem_offset /\ tb2[s].length = tb[s].length
      BY <1>6, <1>9, <2>2
    <3> QED BY <1>5, <1>7, <2>2, <3>1
  <2>3. CASE s # sl /\ t # sl
    BY <1>1, <1>6, <1>9, <2>3 DEF Apart, Memory
  <2> QED BY <2>1, <2>2, <2>3
<1>10. Memory(tb2, alloc, c2)
  BY <1>3, <1>8, <1>9 DEF Memory, Pending
<1> QED
  BY <1>1, <1>3, <1>10 DEF Apart

LEMMA DeleteApart ==
  ASSUME Base, Apart, KvDelete(W)
  PROVE  Apart'
<1>1. PICK tb, tb2 : tb = kv_mapping_table /\ tb2 = kv_mapping_table'
  OBVIOUS
<1>2. cmd = idle /\ cmd' = cmd /\ UNCHANGED alloc
      /\ (UNCHANGED kv_mapping_table \/ \E k \in Keys, s \in Slot : Deleted(k, s))
  BY DeleteStep
<1>3. CASE UNCHANGED kv_mapping_table
  BY <1>2, <1>3 DEF Apart
<1>4. ASSUME NEW k \in Keys, NEW s \in Slot, Deleted(k, s) PROVE Apart'
  <2>1. (\A t \in Slot : t # s => tb2[t] = tb[t]) /\ ~in_use(tb2, s)
    BY <1>1, <1>4 DEF Deleted, Freed
  <2>2. \A t \in Slot : in_use(tb2, t) => tb2[t] = tb[t] /\ in_use(tb, t)
    BY <2>1 DEF in_use
  <2>3. ~Pending(idle)
    BY DEF Pending, idle
  <2>4. Memory(tb2, alloc, idle)
    BY <1>1, <2>2, <2>3 DEF Apart, Memory
  <2> QED BY <1>1, <1>2, <2>4 DEF Apart
<1> QED
  BY <1>2, <1>3, <1>4

LEMMA ApartStep ==
  ASSUME OneWorker, BlocksFixed, Base, Apart, [Next]_vars
  PROVE  Apart'
<1>1. CASE CopyNew(W)
  BY <1>1, CopyNewApart
<1>2. CASE UpdateLength(W)
  BY <1>2, UpdateLengthApart
<1>3. CASE Install(W)
  BY <1>3, InstallApart
<1>4. CASE KvDelete(W)
  BY <1>4, DeleteApart
<1>5. CASE FindSlot(W)
  BY <1>5, FindSlotStep DEF Apart, Memory, Pending
<1>6. CASE Lookup(W) \/ CopyOver(W) \/ KvStore(W) \/ KvBatch(W)
  <2>1. UNCHANGED <<kv_mapping_table, alloc>>
    BY <1>6 DEF Lookup, CopyOver, KvStore, KvBatch, begin
  <2>2. ~Pending(cmd')
    <3>1. CASE Lookup(W)
      BY <3>1, LookupStep DEF Pending
    <3>2. CASE CopyOver(W)
      <4>1. cmd'.pc \in {"length", "idle", "lookup"}
        BY <3>2, CopyOverStep
      <4> QED BY <4>1 DEF Pending
    <3>3. CASE KvStore(W) \/ KvBatch(W)
      BY <3>3, StoreStep, BatchStep DEF Pending
    <3> QED BY <1>6, <3>1, <3>2, <3>3
  <2> QED BY <2>1, <2>2 DEF Apart, Memory
<1>7. CASE KvRetrieve(W) \/ KvExist(W) \/ IterCommand(W) \/ UNCHANGED vars
  <2>1. UNCHANGED <<kv_mapping_table, alloc>> /\ cmd' = cmd
    BY <1>7, LookStep, IterStep DEF vars, cmd
  <2> QED BY <2>1 DEF Apart
<1> QED
  BY <1>1, <1>2, <1>3, <1>4, <1>5, <1>6, <1>7, Steps

LEMMA ApartValues ==
  ASSUME Base, Apart
  PROVE  ValuesApart
<1> SUFFICES ASSUME NEW s \in Slot, NEW t \in Slot, s # t, used(s), used(t)
             PROVE  cells(kv_mapping_table[s].mem_offset, kv_mapping_table[s].length)
                      \cap cells(kv_mapping_table[t].mem_offset, kv_mapping_table[t].length) = {}
  BY DEF ValuesApart
<1>1. in_use(kv_mapping_table, s) /\ in_use(kv_mapping_table, t) /\ Filled(kv_mapping_table)
  BY DEF used, in_use, Base, Table
<1>2. PICK o \in Offset, m \in Lengths : o = kv_mapping_table[s].mem_offset /\ m = kv_mapping_table[s].length
  BY <1>1, EntryIs
<1>3. PICK p \in Offset, n \in Lengths : p = kv_mapping_table[t].mem_offset /\ n = kv_mapping_table[t].length
  BY <1>1, EntryIs
<1>4. Clear(o, m, p, n)
  BY <1>1, <1>2, <1>3 DEF Apart, Memory
<1>5. o \in Nat /\ p \in Nat /\ m \in Nat /\ n \in Nat
  BY Sizes
<1>6. cap(m) \in Nat /\ m <= cap(m) /\ cap(n) \in Nat /\ n <= cap(n)
  BY CapIs
<1>7. o + m <= p \/ p + n <= o
  BY <1>4, <1>5, <1>6 DEF Clear
<1>8. cells(o, m) \cap cells(p, n) = {}
  BY <1>5, <1>7 DEF cells
<1> QED
  BY <1>2, <1>3, <1>8

\* With one worker no two entries share value memory: neither allocator hands out
\* the same memory twice, and a length that is updated in place stays within the
\* memory of its entry.
THEOREM EntriesStayApart == ASSUME OneWorker, BlocksFixed PROVE Spec => []ValuesApart
<1>1. Init => Base /\ Apart
  BY BaseInit, ApartInit
<1>2. Base /\ Apart /\ [Next]_vars => Base' /\ Apart'
  BY BaseStep, ApartStep
<1>3. Base /\ Apart => ValuesApart
  BY ApartValues
<1> QED
  BY <1>1, <1>2, <1>3, PTL DEF Spec

-----------------------------------------------------------------------------
(* What a lookup finds is what was stored last.                            *)

\* The recorded length is the length of the value: all values have one length,
\* or all are small, the bitmap allocator gives them equal memory and no batch
\* replaces a value without recording its length.
LengthsKnown ==
  \/ \A m, n \in Lengths : m = n
  \/ /\ ALLOCATOR_TYPE = "BITMAP" /\ "batch" \notin Ops
     /\ \A n \in Lengths : n <= SMALL_LENGTH

LEMMA KnownFixed ==
  ASSUME LengthsKnown
  PROVE  BlocksFixed /\ \A m, n \in Lengths : cap(m) = cap(n)
<1>1. CASE \A m, n \in Lengths : m = n
  <2>1. BlocksFixed
    BY <1>1 DEF BlocksFixed
  <2>2. ASSUME NEW m \in Lengths, NEW n \in Lengths PROVE cap(m) = cap(n)
    <3>1. m = n
      BY <1>1
    <3> QED BY <3>1
  <2> QED BY <2>1, <2>2
<1>2. CASE ALLOCATOR_TYPE = "BITMAP" /\ \A n \in Lengths : n <= SMALL_LENGTH
  <2>1. BlocksFixed
    BY <1>2 DEF BlocksFixed
  <2> QED BY <1>2, <2>1, SameMemory
<1> QED
  BY <1>1, <1>2 DEF LengthsKnown

\* the value in the entry s
content(tb, st, s) == [i \in 1 .. tb[s].length |-> st[tb[s].mem_offset + i - 1]]

\* the cells from off hold the value of u
Copied(st, off, u) == \A i \in 1 .. u.len : st[off + i - 1] = u.val

\* u is copied over the value of k, its length not yet recorded
Unsettled(c, k) == c.pc = "length" /\ Head(c.todo).key = k

Values_current(tb, st, c, sd) ==
  /\ \A k \in Keys : \A s \in reach(tb, Hash[k]) :
       tb[s].key = k /\ ~Unsettled(c, k) => sd[k] = content(tb, st, s)
  /\ c.pc = "length" \/ Pending(c) => Copied(st, c.offset, Head(c.todo))

Current == Values_current(kv_mapping_table, storage, cmd, stored)

\* Writing elsewhere leaves a value as it is.
LEMMA Elsewhere ==
  ASSUME NEW tb, NEW s, tb[s].mem_offset \in Offset, tb[s].length \in Lengths,
         tb[s].mem_offset + cap(tb[s].length) <= STORAGE_SIZE,
         NEW st, NEW st2, NEW p \in Offset, NEW n \in Lengths, NEW m \in Lengths, n <= cap(m), NEW v,
         Written(st, st2, p, n, v), Clear(tb[s].mem_offset, tb[s].length, p, m)
  PROVE  content(tb, st2, s) = content(tb, st, s)
<1>1. PICK o \in Offset, l \in Lengths : o = tb[s].mem_offset /\ l = tb[s].length
  OBVIOUS
<1>2. o \in Nat /\ l \in Nat /\ p \in Nat /\ n \in Nat /\ STORAGE_SIZE \in Nat
  BY Sizes
<1>3. cap(l) \in Nat /\ l <= cap(l) /\ cap(m) \in Nat
  BY CapIs
<1>4. o + cap(l) <= p \/ p + cap(m) <= o
  BY <1>1 DEF Clear
<1>5. ASSUME NEW i \in 1 .. l PROVE st2[o + i - 1] = st[o + i - 1]
  <2>1. o + i - 1 \in Offset
    <3>1. PICK c \in Nat, S \in Nat : c = cap(l) /\ S = STORAGE_SIZE
      BY <1>2, <1>3
    <3>2. o + c <= S /\ l <= c
      BY <1>1, <1>3, <3>1
    <3>3. o + i - 1 \in 0 .. S - 1
      BY <1>2, <3>2
    <3> QED BY <3>1, <3>3 DEF Offset
  <2>2. o + i - 1 \notin cells(p, n)
    BY <1>2, <1>3, <1>4 DEF cells
  <2> QED BY <2>1, <2>2 DEF Written
<1> QED
  BY <1>1, <1>5 DEF content

\* A value that fits is in memory after it is copied there.
LEMMA CopiedIs ==
  ASSUME NEW u \in Sub, NEW st, NEW st2, NEW off \in Offset, off + u.len <= STORAGE_SIZE,
         Written(st, st2, off, u.len, u.val)
  PROVE  Copied(st2, off, u)
<1>1. off \in Nat /\ u.len \in Nat /\ STORAGE_SIZE \in Nat
  <2>1. u.len \in Lengths
    BY DEF Sub
  <2>2. u.len \in Nat
    BY <2>1, Sizes
  <2> QED BY <2>2, Sizes
<1>2. ASSUME NEW i \in 1 .. u.len PROVE st2[off + i - 1] = u.val
  <2>1. off + i - 1 \in Offset
    BY <1>1, Sizes
  <2>2. off + i - 1 \in cells(off, u.len)
    BY <1>1 DEF cells
  <2> QED BY <2>1, <2>2 DEF Written
<1> QED
  BY <1>2 DEF Copied

LEMMA CopiedContent ==
  ASSUME NEW tb, NEW st, NEW s, NEW u, Copied(st, tb[s].mem_offset, u), tb[s].length = u.len
  PROVE  content(tb, st, s) = value_of(u.val, u.len)
BY DEF content, Copied, value_of

LEMMA CurrentInit ==
  ASSUME OneWorker, Init
  PROVE  Current
<1>1. PICK tb : tb = kv_mapping_table
  OBVIOUS
<1>2. tb \in [Slot -> Entry] /\ \A s \in Slot : ~in_use(tb, s)
  <2>1. Base
    BY BaseInit
  <2>2. \A s \in Slot : ~in_use(tb, s)
    BY <1>1 DEF Init, in_use, free_entry
  <2> QED BY <1>1, <2>1, <2>2 DEF Base, Table, Filled
<1>3. ASSUME NEW k \in Keys, NEW s \in reach(tb, Hash[k]) PROVE FALSE
  <2>1. Hash[k] \in Slot
    BY Sizes
  <2> QED BY <1>2, <2>1, ReachUsed
<1>4. cmd.pc = "idle"
  BY OneIs DEF Init, cmd, idle
<1> QED
  BY <1>1, <1>3, <1>4 DEF Current, Values_current, Pending

LEMMA CopyNewCurrent ==
  ASSUME LengthsKnown, Base, Apart, Current, CopyNew(W)
  PROVE  Current'
<1>1. PICK tb, c2, u : tb = kv_mapping_table /\ c2 = cmd' /\ u = sub(W)
  OBVIOUS
<1>2. PICK st, st2, off : st = storage /\ st2 = storage' /\ off = c2.offset
  OBVIOUS
<1>3. /\ cmd.pc = "copy" /\ c2.pc = "slot" /\ c2.todo = cmd.todo
      /\ NewMemory(alloc, alloc', off, u.len) /\ Written(st, st2, off, u.len, u.val)
      /\ UNCHANGED <<kv_mapping_table, stored>>
  BY <1>1, <1>2, CopyNewStep
<1>4. Head(c2.todo) = u /\ u \in Sub /\ u.len \in Lengths /\ Filled(tb)
  BY <1>1, <1>3, Running DEF Runs
<1>5. /\ off \in Offset /\ off + cap(u.len) <= STORAGE_SIZE
      /\ \A p \in Offset, n \in Lengths : Taken(alloc, p, n) => Clear(p, n, off, u.len)
  BY <1>3 DEF NewMemory
<1>6. u.len <= cap(u.len) /\ cap(u.len) \in Nat /\ off \in Nat /\ u.len \in Nat
  <2>1. u.len <= cap(u.len) /\ cap(u.len) \in Nat
    BY <1>4, CapIs
  <2>2. off \in Nat /\ u.len \in Nat
    BY <1>4, <1>5, Numbers, Zenon
  <2> QED BY <2>1, <2>2
<1>7. Copied(st2, off, u)
  <2>1. off + u.len <= STORAGE_SIZE
    BY <1>5, <1>6, Sizes
  <2> QED BY <1>3, <1>4, <1>5, <2>1, CopiedIs
<1>8. ASSUME NEW k \in Keys, NEW s \in reach(tb, Hash[k]), tb[s].key = k
      PROVE  stored[k] = content(tb, st2, s)
  <2>1. Hash[k] \in Slot
    BY Sizes
  <2>2. s \in Slot /\ in_use(tb, s) /\ tb[s].mem_offset \in Offset /\ tb[s].length \in Lengths
    BY <1>4, <2>1, ChainEntry
  <2>3. Taken(alloc, tb[s].mem_offset, tb[s].length)
        /\ tb[s].mem_offset + cap(tb[s].length) <= STORAGE_SIZE
    BY <1>1, <2>2 DEF Apart, Memory, Placed
  <2>4. Clear(tb[s].mem_offset, tb[s].length, off, u.len)
    BY <1>5, <2>2, <2>3
  <2>5. content(tb, st2, s) = content(tb, st, s)
    BY <1>3, <1>4, <1>5, <1>6, <2>2, <2>3, <2>4, Elsewhere
  <2>6. stored[k] = content(tb, st, s)
    BY <1>1, <1>2, <1>3, <1>8 DEF Current, Values_current, Unsettled
  <2> QED BY <2>5, <2>6
<1>9. Values_current(tb, st2, c2, stored)
  BY <1>2, <1>4, <1>7, <1>8 DEF Values_current
<1> QED
  BY <1>1, <1>2, <1>3, <1>9 DEF Current

LEMMA CopyOverCurrent ==
  ASSUME LengthsKnown, Base, Apart, Kept, Current, CopyOver(W)
  PROVE  Current'
<1>1. PICK tb, c2, u : tb = kv_mapping_table /\ c2 = cmd' /\ u = sub(W)
  OBVIOUS
<1>2. PICK st, st2, off : st = storage /\ st2 = storage' /\ off = cmd.offset
  OBVIOUS
<1>3. /\ cmd.pc = "copy" /\ At(tb, cmd) /\ Written(st, st2, off, u.len, u.val)
      /\ UNCHANGED kv_mapping_table
      /\ IF length_changes(W, cmd.length)
         THEN c2.pc = "length" /\ c2.todo = cmd.todo /\ c2.offset = off /\ UNCHANGED stored
         ELSE c2.pc \in {"idle", "lookup"} /\ Remembers(u.key, u)
  BY <1>1, <1>2, CopyOverStep
<1>4. /\ Head(cmd.todo) = u /\ u \in Sub /\ u.len \in Lengths /\ u.key \in Keys /\ Filled(tb)
      /\ Hash[u.key] \in Slot /\ Unique(tb) /\ cmd.op \in {"store", "batch"} /\ cmd.op \in Ops
  BY <1>1, <1>3, Running DEF Runs
<1>5. PICK e : e # None /\ Finds(tb, u.key, e) /\ tb[e].mem_offset = off /\ tb[e].length = cmd.length
  BY <1>2, <1>3, <1>4 DEF At
<1>6. e \in reach(tb, Hash[u.key]) /\ tb[e].key = u.key
  BY <1>5 DEF Finds
<1>7. e \in Slot /\ in_use(tb, e) /\ off \in Offset /\ tb[e].length \in Lengths
  BY <1>4, <1>5, <1>6, ChainEntry
<1>8. cap(tb[e].length) = cap(u.len) /\ u.len <= cap(u.len) /\ cap(u.len) \in Nat
      /\ off + cap(tb[e].length) <= STORAGE_SIZE /\ off \in Nat /\ u.len \in Nat
  <2>1. off + cap(tb[e].length) <= STORAGE_SIZE
    BY <1>1, <1>5, <1>7 DEF Apart, Memory, Placed
  <2>2. cap(tb[e].length) = cap(u.len)
    BY <1>4, <1>7, KnownFixed
  <2>3. u.len <= cap(u.len) /\ cap(u.len) \in Nat
    BY <1>4, CapIs
  <2>4. off \in Nat /\ u.len \in Nat
    BY <1>4, <1>7, Numbers, Zenon
  <2> QED BY <2>1, <2>2, <2>3, <2>4
<1>9. Copied(st2, off, u)
  <2>1. off + u.len <= STORAGE_SIZE
    <3>1. PICK a, x, y, z : a = off /\ x = u.len /\ y = cap(u.len) /\ z = STORAGE_SIZE
      OBVIOUS
    <3>2. a \in Nat /\ x \in Nat /\ y \in Nat /\ z \in Nat /\ x <= y /\ a + y <= z
      BY <1>8, <3>1, Sizes
    <3>3. a + x <= z
      BY <3>2
    <3> QED BY <3>1, <3>3
  <2> QED BY <1>3, <1>4, <1>7, <2>1, CopiedIs
<1>10. ASSUME NEW k \in Keys, k # u.key, NEW s \in reach(tb, Hash[k]), tb[s].key = k
       PROVE  stored[k] = content(tb, st2, s)
  <2>1. Hash[k] \in Slot
    BY Sizes
  <2>2. s \in Slot /\ in_use(tb, s) /\ tb[s].mem_offset \in Offset /\ tb[s].length \in Lengths
    BY <1>4, <2>1, ChainEntry
  <2>3. s # e
    BY <1>6, <1>10
  <2>4. Clear(tb[s].mem_offset, tb[s].length, off, tb[e].length)
        /\ tb[s].mem_offset + cap(tb[s].length) <= STORAGE_SIZE
    BY <1>1, <1>5, <1>7, <2>2, <2>3 DEF Apart, Memory, Placed
  <2>5. u.len <= cap(tb[e].length)
    BY <1>8
  <2>6. content(tb, st2, s) = content(tb, st, s)
    BY <1>3, <1>4, <1>7, <2>2, <2>4, <2>5, Elsewhere
  <2>7. stored[k] = content(tb, st, s)
    BY <1>1, <1>2, <1>3, <1>10 DEF Current, Values_current, Unsettled
  <2> QED BY <2>6, <2>7
<1>11. CASE length_changes(W, cmd.length)
  <2>1. c2.pc = "length" /\ Head(c2.todo) = u /\ c2.offset = off /\ UNCHANGED stored
    BY <1>3, <1>4, <1>11
  <2>2. Values_current(tb, st2, c2, stored)
    BY <1>9, <1>10, <2>1 DEF Values_current, Unsettled
  <2> QED BY <1>1, <1>2, <1>3, <2>1, <2>2 DEF Current
<1>12. CASE ~length_changes(W, cmd.length)
  <2>1. c2.pc \in {"idle", "lookup"} /\ Remembers(u.key, u)
    BY <1>3, <1>12
  <2>2. tb[e].length = u.len
    <3>1. CASE \A m, n \in Lengths : m = n
      BY <1>4, <1>7, <3>1
    <3>2. CASE "batch" \notin Ops /\ \A n \in Lengths : n <= SMALL_LENGTH
      <4>1. cmd.op = "store"
        BY <1>4, <3>2
      <4>2. cmd.length \in Lengths /\ cmd.length <= SMALL_LENGTH /\ u.len <= SMALL_LENGTH
        BY <1>4, <1>5, <1>7, <3>2
      <4>3. u.len = cmd.length
        BY <1>1, <1>12, <4>1, <4>2 DEF length_changes, cmd
      <4> QED BY <1>5, <4>3
    <3> QED BY <3>1, <3>2 DEF LengthsKnown
  <2>3. content(tb, st2, e) = value_of(u.val, u.len)
    BY <1>5, <1>9, <2>2, CopiedContent
  <2>4. PICK sd : sd = stored'
    OBVIOUS
  <2>5. sd[u.key] = value_of(u.val, u.len) /\ \A k \in Keys : k # u.key => sd[k] = stored[k]
    <3>1. stored \in [Keys -> Seq(Values)]
      BY DEF Kept
    <3> QED BY <1>4, <2>1, <2>4, <3>1 DEF Remembers
  <2>6. ASSUME NEW k \in Keys, NEW s \in reach(tb, Hash[k]), tb[s].key = k
        PROVE  sd[k] = content(tb, st2, s)
    <3>1. CASE k = u.key
      <4>1. s = e
        BY <1>4, <1>6, <2>6, <3>1 DEF Unique
      <4> QED BY <2>3, <2>5, <3>1, <4>1
    <3>2. CASE k # u.key
      BY <1>10, <2>5, <2>6, <3>2
    <3> QED BY <3>1, <3>2
  <2>7. Values_current(tb, st2, c2, sd)
    BY <2>1, <2>6 DEF Values_current, Pending
  <2> QED BY <1>1, <1>2, <1>3, <2>4, <2>7 DEF Current
<1> QED
  BY <1>11, <1>12

LEMMA UpdateLengthCurrent ==
  ASSUME Base, Kept, Current, UpdateLength(W)
  PROVE  Current'
<1>1. PICK tb, tb2, c2, u : tb = kv_mapping_table /\ tb2 = kv_mapping_table' /\ c2 = cmd' /\ u = sub(W)
  OBVIOUS
<1>2. PICK st, sd : st = storage /\ sd = stored'
  OBVIOUS
<1>3. /\ cmd.pc = "length" /\ c2.pc \in {"idle", "lookup"} /\ Remembers(u.key, u) /\ UNCHANGED storage
      /\ \E s : /\ s # None /\ Finds(tb, u.key, s) /\ tb[s].mem_offset = cmd.offset
                /\ Relabelled(tb, tb2, s, u.len)
  BY <1>1, UpdateLengthStep
<1>4. PICK e : /\ e # None /\ Finds(tb, u.key, e) /\ tb[e].mem_offset = cmd.offset
               /\ Relabelled(tb, tb2, e, u.len)
  BY <1>3
<1>5. /\ Head(cmd.todo) = u /\ u.key \in Keys /\ Filled(tb) /\ Hash[u.key] \in Slot /\ Unique(tb)
  BY <1>1, <1>3, Running DEF Runs
<1>6. e \in reach(tb, Hash[u.key]) /\ tb[e].key = u.key
  BY <1>4 DEF Finds
<1>7. e \in Slot
  BY <1>5, <1>6, ChainEntry
<1>8. content(tb2, st, e) = value_of(u.val, u.len)
  <2>1. Copied(st, cmd.offset, u)
    BY <1>1, <1>2, <1>3, <1>5 DEF Current, Values_current
  <2>2. tb2[e].mem_offset = cmd.offset /\ tb2[e].length = u.len
    BY <1>4, <1>7 DEF Relabelled
  <2> QED BY <2>1, <2>2, CopiedContent
<1>9. sd[u.key] = value_of(u.val, u.len) /\ \A k \in Keys : k # u.key => sd[k] = stored[k]
  <2>1. stored \in [Keys -> Seq(Values)]
    BY DEF Kept
  <2> QED BY <1>2, <1>3, <1>5, <2>1 DEF Remembers
<1>10. ASSUME NEW k \in Keys, NEW s \in reach(tb2, Hash[k]), tb2[s].key = k
       PROVE  sd[k] = content(tb2, st, s)
  <2>1. Hash[k] \in Slot
    BY Sizes
  <2>2. s \in reach(tb, Hash[k])
    BY <1>4, <2>1 DEF Relabelled
  <2>3. s \in Slot
    BY <1>5, <2>1, <2>2, ChainEntry
  <2>4. tb[s].key = k /\ tb2[s].mem_offset = tb[s].mem_offset
        /\ tb2[s].length = IF s = e THEN u.len ELSE tb[s].length
    BY <1>4, <1>10, <2>3 DEF Relabelled
  <2>5. CASE k = u.key
    <3>1. s = e
      BY <1>5, <1>6, <2>2, <2>4, <2>5 DEF Unique
    <3> QED BY <1>8, <1>9, <2>5, <3>1
  <2>6. CASE k # u.key
    <3>1. s # e
      BY <1>6, <2>4, <2>6
    <3>2. content(tb2, st, s) = content(tb, st, s)
      BY <2>4, <3>1 DEF content
    <3>3. stored[k] = content(tb, st, s)
      BY <1>1, <1>2, <1>5, <2>2, <2>4, <2>6 DEF Current, Values_current, Unsettled
    <3> QED BY <1>9, <2>6, <3>2, <3>3
  <2> QED BY <2>5, <2>6
<1>11. Values_current(tb2, st, c2, sd)
  BY <1>3, <1>10 DEF Values_current, Pending
<1> QED
  BY <1>1, <1>2, <1>3, <1>11 DEF Current

LEMMA InstallCurrent ==
  ASSUME Base, Kept, Current, Install(W)
  PROVE  Current'
<1>1. PICK tb, tb2, c2, u : tb = kv_mapping_table /\ tb2 = kv_mapping_table' /\ c2 = cmd' /\ u = sub(W)
  OBVIOUS
<1>2. PICK st, sd, sl, off : st = storage /\ sd = stored' /\ sl = cmd.slot /\ off = cmd.offset
  OBVIOUS
<1>3. /\ cmd.pc = "install" /\ c2.pc \in {"idle", "lookup"} /\ Remembers(u.key, u) /\ UNCHANGED storage
      /\ Added(tb, tb2, u.key, sl, off, u.len) /\ Finds(tb, u.key, None) /\ sl \in Slot
  BY <1>1, <1>2, InstallStep
<1>4. /\ Head(cmd.todo) = u /\ u.key \in Keys /\ Filled(tb)
  BY <1>1, <1>3, Running DEF Runs
<1>5. content(tb2, st, sl) = value_of(u.val, u.len)
  <2>1. Copied(st, off, u)
    BY <1>1, <1>2, <1>3, <1>4 DEF Current, Values_current, Pending
  <2>2. tb2[sl].mem_offset = off /\ tb2[sl].length = u.len
    BY <1>3 DEF Added
  <2> QED BY <2>1, <2>2, CopiedContent
<1>6. sd[u.key] = value_of(u.val, u.len) /\ \A k \in Keys : k # u.key => sd[k] = stored[k]
  <2>1. stored \in [Keys -> Seq(Values)]
    BY DEF Kept
  <2> QED BY <1>2, <1>3, <1>4, <2>1 DEF Remembers
<1>7. ASSUME NEW k \in Keys, NEW s \in reach(tb2, Hash[k]), tb2[s].key = k
      PROVE  sd[k] = content(tb2, st, s)
  <2>1. Hash[k] \in Slot
    BY Sizes
  <2>2. CASE s = sl
    <3>1. k = u.key
      BY <1>3, <1>7, <2>2 DEF Added
    <3> QED BY <1>5, <1>6, <2>2, <3>1
  <2>3. CASE s # sl
    <3>1. s \in reach(tb, Hash[k])
      BY <1>3, <2>1, <2>3 DEF Added
    <3>2. s \in Slot
      BY <1>4, <2>1, <3>1, ChainEntry
    <3>3. tb[s].key = k /\ tb2[s].mem_offset = tb[s].mem_offset /\ tb2[s].length = tb[s].length
      BY <1>3, <1>7, <2>3, <3>2 DEF Added
    <3>4. k # u.key
      BY <1>3, <3>1, <3>3 DEF Finds
    <3>5. stored[k] = content(tb, st, s)
      BY <1>1, <1>2, <1>3, <3>1, <3>3 DEF Current, Values_current, Unsettled
    <3>6. content(tb2, st, s) = content(tb, st, s)
      BY <3>3 DEF content
    <3> QED BY <1>6, <3>4, <3>5, <3>6
  <2> QED BY <2>2, <2>3
<1>8. Values_current(tb2, st, c2, sd)
  BY <1>3, <1>7 DEF Values_current, Pending
<1> QED
  BY <1>1, <1>2, <1>3, <1>8 DEF Current

\* A delete removes the only entry of its key that a lookup can find.
LEMMA DeleteCurrent ==
  ASSUME Base, Kept, Current, KvDelete(W)
  PROVE  Current'
<1>1. PICK tb, tb2, st : tb = kv_mapping_table /\ tb2 = kv_mapping_table' /\ st = storage
  OBVIOUS
<1>2. cmd = idle /\ cmd' = cmd /\ UNCHANGED storage
      /\ (UNCHANGED <<kv_mapping_table, stored>> \/ \E k \in Keys, s \in Slot : Deleted(k, s))
  BY DeleteStep
<1>3. CASE UNCHANGED <<kv_mapping_table, stored>>
  BY <1>2, <1>3 DEF Current
<1>4. ASSUME NEW k \in Keys, NEW e \in Slot, Deleted(k, e) PROVE Current'
  <2>1. Finds(tb, k, e) /\ Freed(tb, tb2, e) /\ stored' = [stored EXCEPT ![k] = <<>>]
    BY <1>1, <1>4 DEF Deleted
  <2>2. e \in reach(tb, Hash[k]) /\ tb[e].key = k
    BY <2>1, Sizes DEF Finds
  <2>3. Filled(tb) /\ Unique(tb)
    BY <1>1 DEF Base, Table
  <2>4. PICK sd : sd = stored'
    OBVIOUS
  <2>5. \A l \in Keys : l # k => sd[l] = stored[l]
    <3>1. stored \in [Keys -> Seq(Values)]
      BY DEF Kept
    <3> QED BY <2>1, <2>4, <3>1
  <2>6. idle.pc = "idle" /\ ~Pending(idle)
    BY DEF idle, Pending
  <2>7. ASSUME NEW l \in Keys, NEW s \in reach(tb2, Hash[l]), tb2[s].key = l
        PROVE  sd[l] = content(tb2, st, s)
    <3>1. Hash[l] \in Slot
      BY Sizes
    <3>2. s \in reach(tb, Hash[l]) /\ s # e
      BY <2>1, <3>1 DEF Freed
    <3>3. s \in Slot
      BY <2>3, <3>1, <3>2, ChainEntry
    <3>4. tb2[s] = tb[s]
      BY <2>1, <3>2, <3>3 DEF Freed
    <3>5. l # k
      BY <2>2, <2>3, <2>7, <3>2, <3>4 DEF Unique
    <3>6. stored[l] = content(tb, st, s)
      BY <1>1, <1>2, <2>6, <2>7, <3>2, <3>4 DEF Current, Values_current, Unsettled
    <3>7. content(tb2, st, s) = content(tb, st, s)
      BY <3>4 DEF content
    <3> QED BY <2>5, <3>5, <3>6, <3>7
  <2>8. Values_current(tb2, st, idle, sd)
    BY <2>6, <2>7 DEF Values_current
  <2> QED BY <1>1, <1>2, <2>4, <2>8 DEF Current
<1> QED
  BY <1>2, <1>3, <1>4

LEMMA CurrentStep ==
  ASSUME OneWorker, LengthsKnown, Base, Kept, Apart, Current, [Next]_vars
  PROVE  Current'
<1>1. CASE CopyNew(W)
  BY <1>1, CopyNewCurrent
<1>2. CASE CopyOver(W)
  BY <1>2, CopyOverCurrent
<1>3. CASE UpdateLength(W)
  BY <1>3, UpdateLengthCurrent
<1>4. CASE Install(W)
  BY <1>4, InstallCurrent
<1>5. CASE KvDelete(W)
  BY <1>5, DeleteCurrent
<1>6. CASE FindSlot(W)
  <2>1. /\ cmd.pc = "slot" /\ cmd'.pc = "install" /\ cmd'.todo = cmd.todo /\ cmd'.offset = cmd.offset
        /\ UNCHANGED <<kv_mapping_table, storage, stored>>
    BY <1>6, FindSlotStep
  <2> QED BY <2>1 DEF Current, Values_current, Pending, Unsettled
<1>7. CASE Lookup(W) \/ KvStore(W) \/ KvBatch(W)
  <2>1. UNCHANGED <<kv_mapping_table, storage, stored>>
    BY <1>7 DEF Lookup, KvStore, KvBatch, begin
  <2>2. cmd.pc \in {"idle", "lookup"} /\ cmd'.pc \in {"lookup", "copy"}
    BY <1>7, LookupStep, StoreStep, BatchStep
  <2> QED BY <2>1, <2>2 DEF Current, Values_current, Pending, Unsettled
<1>8. CASE KvRetrieve(W) \/ KvExist(W) \/ IterCommand(W) \/ UNCHANGED vars
  <2>1. UNCHANGED <<kv_mapping_table, storage, stored>> /\ cmd' = cmd
    BY <1>8, LookStep, IterStep DEF vars, cmd
  <2> QED BY <2>1 DEF Current
<1> QED
  BY <1>1, <1>2, <1>3, <1>4, <1>5, <1>6, <1>7, <1>8, Steps

\* A key whose new length is not yet recorded is being stored.
LEMMA UnsettledStores ==
  ASSUME OneWorker, Base, NEW k, Unsettled(cmd, k)
  PROVE  in_store(k)
<1>1. cmd.pc # "idle"
  BY DEF Unsettled
<1>2. /\ work \in [{W} -> Cmd] /\ Len(cmd.todo) \in Nat /\ Len(cmd.todo) >= 1 /\ cmd \in Cmd
      /\ cmd.todo # <<>>
  BY <1>1, Running DEF Runs
<1>3. cmd.todo[1].key = k
  <2>1. cmd.todo \in Seq(Sub) /\ Head(cmd.todo) = cmd.todo[1]
    BY <1>2 DEF Cmd
  <2> QED BY <2>1 DEF Unsettled
<1>4. 1 \in 1 .. Len(work[W].todo) /\ work[W].todo[1].key = k /\ W \in Workers
  BY <1>2, <1>3, OneIs DEF cmd
<1> QED
  BY <1>4 DEF in_store

LEMMA FoundIs ==
  ASSUME OneWorker, Base, Current, NEW k \in Keys, ~in_store(k), find(k) # None
  PROVE  /\ find(k) \in Slot /\ kv_mapping_table[find(k)].length \in Lengths
         /\ stored[k] = content(kv_mapping_table, storage, find(k))
<1>1. PICK tb, s : tb = kv_mapping_table /\ s = find(k)
  OBVIOUS
<1>2. tb \in [Slot -> Entry] /\ Filled(tb) /\ Acyclic(tb) /\ Hash[k] \in Slot
  BY <1>1, Sizes DEF Base, Table, Filled
<1>3. Finds(tb, k, s)
  BY <1>1, <1>2, FindIs
<1>4. s \in reach(tb, Hash[k]) /\ tb[s].key = k
  BY <1>1, <1>3 DEF Finds
<1>5. s \in Slot /\ tb[s].length \in Lengths
  BY <1>2, <1>4, ChainEntry
<1>6. ~Unsettled(cmd, k)
  BY UnsettledStores
<1>7. stored[k] = content(tb, storage, s)
  BY <1>1, <1>4, <1>6 DEF Current, Values_current
<1> QED
  BY <1>1, <1>5, <1>7

LEMMA CurrentFound ==
  ASSUME OneWorker, Base, Current
  PROVE  FoundIsCurrent
<1> SUFFICES ASSUME NEW k \in Keys, ~in_store(k), find(k) # None PROVE contents(k) = stored[k]
  BY DEF FoundIsCurrent
<1>1. stored[k] = content(kv_mapping_table, storage, find(k))
  BY FoundIs
<1> QED
  BY <1>1 DEF contents, value_at, content

\* What the inductive steps of the following theorems share.
Whole == Base /\ IterKept /\ Apart /\ Current

LEMMA WholeInit ==
  ASSUME OneWorker, Init
  PROVE  Whole
BY BaseInit, KeptInit, ApartInit, CurrentInit DEF Whole

LEMMA WholeStep ==
  ASSUME OneWorker, LengthsKnown, Whole, [Next]_vars
  PROVE  Whole'
<1>1. Base /\ IterKept /\ Apart /\ Current /\ Kept
  BY DEF Whole, IterKept
<1>2. Base' /\ Apart' /\ Current'
  BY <1>1, BaseStep, ApartStep, CurrentStep, KnownFixed
<1>3. IterKept'
  <2>1. Storing \/ KvDelete(W) \/ IterCommand(W)
    BY Steps DEF Storing
  <2> QED BY <1>1, <2>1, StoringKept, DeleteKept, IterKeptStep
<1> QED
  BY <1>2, <1>3 DEF Whole

\* With one worker and recorded lengths, a key that is found holds what was
\* stored last, although deletes break chains and leave entries behind: none of
\* them comes back into view, and no store writes into the value of another key.
THEOREM LookupsAreCurrent == ASSUME OneWorker, LengthsKnown PROVE Spec => []FoundIsCurrent
<1>1. Init => Whole
  BY WholeInit
<1>2. Whole /\ [Next]_vars => Whole'
  BY WholeStep
<1>3. Whole => FoundIsCurrent
  BY CurrentFound DEF Whole
<1> QED
  BY <1>1, <1>2, <1>3, PTL DEF Spec

LEMMA RetrieveAnswers ==
  ASSUME OneWorker, Base, Current, KvRetrieve(W)
  PROVE  Answers'
<1>1. PICK k \in Keys, n \in Lengths :
        LET s == find(k)
        IN  reply' = [op |-> "retrieve", key |-> k, buf |-> n, exists |-> s # None,
                      value |-> IF s = None THEN <<>> ELSE
                        [i \in 1 .. read_length(s, n) |->
                           storage[kv_mapping_table[s].mem_offset + i - 1]]]
  BY DEF KvRetrieve
<1>2. PICK tb, s : tb = kv_mapping_table /\ s = find(k)
  OBVIOUS
<1>3. PICK val : val = IF s = None THEN <<>> ELSE
                         [i \in 1 .. read_length(s, n) |-> storage[tb[s].mem_offset + i - 1]]
  OBVIOUS
<1>4. reply' = [op |-> "retrieve", key |-> k, buf |-> n, exists |-> s # None, value |-> val]
  BY <1>1, <1>2, <1>3
<1>5. reply'.key = k /\ reply'.buf = n /\ reply'.exists = (s # None) /\ reply'.value = val
  BY <1>4
<1>6. UNCHANGED <<work, stored>>
  BY LookStep
<1>7. (in_store(k))' <=> in_store(k)
  BY <1>6 DEF in_store
<1>8. SUFFICES ASSUME s # None, ~in_store(k)
               PROVE  stored[k] # <<>> /\ val = SubSeq(stored[k], 1, Min({n, Len(stored[k])}))
  BY <1>5, <1>6, <1>7 DEF Answers, in_store
<1>9. tb[s].length \in Lengths /\ stored[k] = content(tb, storage, s)
  BY <1>2, <1>8, FoundIs
<1>10. PICK L \in Nat : L = tb[s].length /\ L >= 1
  BY <1>9, Sizes
<1>11. PICK q : q = stored[k]
  OBVIOUS
<1>12. q = [i \in 1 .. L |-> storage[tb[s].mem_offset + i - 1]] /\ Len(q) = L
  BY <1>9, <1>10, <1>11 DEF content
<1>13. PICK m \in Nat : m = read_length(s, n) /\ m = Min({n, L}) /\ m <= L
  <2>1. n \in Nat
    BY Numbers
  <2>2. read_length(s, n) = Min({n, L})
    <3>1. {L, n} = {n, L}
      OBVIOUS
    <3> QED BY <1>2, <1>10, <3>1 DEF read_length
  <2>3. {n, L} \in SUBSET Nat /\ {n, L} # {}
    BY <2>1
  <2>4. Min({n, L}) \in {n, L} /\ \A y \in {n, L} : Min({n, L}) <= y
    BY <2>3, MinIs
  <2> QED BY <2>1, <2>2, <2>4
<1>14. val = [i \in 1 .. m |-> storage[tb[s].mem_offset + i - 1]]
  BY <1>3, <1>8, <1>13
<1>15. SubSeq(q, 1, m) = [i \in 1 .. m |-> q[i]]
  <2>1. PICK S : S = {q[i] : i \in 1 .. m}
    OBVIOUS
  <2>2. PICK r : r = SubSeq(q, 1, m)
    OBVIOUS
  <2>3. 1 \in Int /\ m \in Int /\ \A i \in 1 .. m : q[i] \in S
    BY <1>13, <2>1
  <2>4. /\ SubSeq(q, 1, m) \in Seq(S)
        /\ Len(SubSeq(q, 1, m)) = IF 1 <= m THEN m - 1 + 1 ELSE 0
        /\ \A i \in 1 .. m - 1 + 1 : SubSeq(q, 1, m)[i] = q[1 + i - 1]
    BY <2>3, SubSeqProperties
  <2>5. r \in Seq(S) /\ Len(r) = m /\ \A i \in 1 .. m : r[i] = q[i]
    <3>1. m - 1 + 1 = m /\ (~(1 <= m) => m = 0)
      BY <1>13
    <3>2. Len(r) = m
      BY <2>2, <2>4, <3>1
    <3>3. \A i \in 1 .. m : 1 + i - 1 = i
      BY <1>13
    <3>4. \A i \in 1 .. m : r[i] = q[1 + i - 1]
      BY <2>2, <2>4, <3>1, Zenon
    <3>5. \A i \in 1 .. m : r[i] = q[i]
      BY <3>3, <3>4
    <3> QED BY <2>2, <2>4, <3>2, <3>5
  <2>6. r = [i \in 1 .. m |-> r[i]]
    BY <2>5
  <2> QED BY <2>2, <2>5, <2>6
<1>16. \A i \in 1 .. m : q[i] = storage[tb[s].mem_offset + i - 1]
  BY <1>12, <1>13
<1>17. val = SubSeq(q, 1, m)
  BY <1>14, <1>15, <1>16
<1>18. q # <<>>
  BY <1>10, <1>12
<1> QED
  BY <1>11, <1>12, <1>13, <1>17, <1>18

LEMMA AnswersStep ==
  ASSUME OneWorker, Base, Current, Answers, [Next]_vars
  PROVE  Answers'
<1>1. CASE KvRetrieve(W)
  BY <1>1, RetrieveAnswers
<1>2. CASE KvExist(W)
  <2>1. PICK k \in Keys : reply' = [op |-> "exist", key |-> k, exists |-> find(k) # None]
    BY <1>2 DEF KvExist
  <2>2. reply'.op = "exist"
    BY <2>1
  <2> QED BY <2>2 DEF Answers
<1>3. CASE UNCHANGED vars
  BY <1>3 DEF Answers, in_store, vars
<1>4. CASE ~KvRetrieve(W) /\ ~KvExist(W) /\ ~(UNCHANGED vars)
  <2>1. reply' = no_reply
    <3>1. CASE KvStore(W) \/ KvBatch(W)
      BY <3>1 DEF KvStore, KvBatch, begin
    <3>2. CASE KvDelete(W) \/ IterCommand(W)
      BY <3>2, DeleteStep, IterStep
    <3>3. CASE \/ Lookup(W) \/ CopyNew(W) \/ CopyOver(W) \/ UpdateLength(W) \/ FindSlot(W)
               \/ Install(W)
      <4>1. UNCHANGED reply /\ cmd.pc # "idle"
        BY <3>3 DEF Lookup, CopyNew, CopyOver, UpdateLength, FindSlot, Install, cmd
      <4>2. reply = no_reply
        BY <4>1 DEF Base, Performing
      <4> QED BY <4>1, <4>2
    <3> QED BY <1>4, <3>1, <3>2, <3>3, Steps
  <2>2. reply'.op = "none"
    BY <2>1 DEF no_reply
  <2> QED BY <2>2 DEF Answers
<1> QED
  BY <1>1, <1>2, <1>3, <1>4

\* With one worker and recorded lengths, a retrieve that answers with a value
\* answers with the one stored last, cut to the host's buffer.
THEOREM AnswersAreCurrent == ASSUME OneWorker, LengthsKnown PROVE Spec => []Answers
<1>1. Init => Whole /\ Answers
  <2> SUFFICES ASSUME Init PROVE Whole /\ Answers
    OBVIOUS
  <2>1. reply.op = "none"
    BY DEF Init, no_reply
  <2> QED BY <2>1, WholeInit DEF Answers
<1>2. Whole /\ Answers /\ [Next]_vars => Whole' /\ Answers'
  BY WholeStep, AnswersStep DEF Whole
<1> QED
  BY <1>1, <1>2, PTL DEF Spec

\* Without deletes every entry stays on its chain, so what was stored is found.
LEMMA WholeRemembers ==
  ASSUME OneWorker, Whole, OnChain(kv_mapping_table)
  PROVE  Remembered
<1>0. Base /\ Current /\ Kept
  BY DEF Whole, IterKept
<1> SUFFICES ASSUME NEW k \in Keys, ~in_store(k) PROVE contents(k) = stored[k]
  BY DEF Remembered
<1>1. PICK tb, s : tb = kv_mapping_table /\ s = find(k)
  OBVIOUS
<1>2. tb \in [Slot -> Entry] /\ Filled(tb) /\ Acyclic(tb)
  BY <1>0, <1>1 DEF Base, Table, Filled
<1>3. Finds(tb, k, s)
  BY <1>1, <1>2, FindIs
<1>4. CASE s = None
  <2>1. contents(k) = <<>>
    BY <1>1, <1>4 DEF contents
  <2>2. ~Holds(tb, k, 0)
    <3> SUFFICES ASSUME NEW t \in Slot, in_use(tb, t), tb[t].key = k PROVE FALSE
      BY DEF Holds
    <3>1. t \in reach(tb, Hash[k])
      BY <1>1 DEF OnChain
    <3> QED BY <1>3, <1>4, <3>1 DEF Finds
  <2> QED BY <1>0, <1>1, <2>1, <2>2 DEF Kept
<1>5. CASE s # None
  <2>1. stored[k] = content(tb, storage, s)
    BY <1>0, <1>1, <1>5, FoundIs
  <2> QED BY <1>1, <1>5, <2>1 DEF contents, value_at, content
<1> QED
  BY <1>4, <1>5

\* With one worker, recorded lengths and no deletes, the table and the storage hold
\* for every key exactly what was stored last, colliding or not.
THEOREM StoresAreRemembered ==
  ASSUME OneWorker, LengthsKnown, NoDelete PROVE Spec => []Remembered
<1>1. Init => Whole /\ Base /\ IterFresh
  BY WholeInit, BaseInit, FreshInit
<1>2. Whole /\ Base /\ IterFresh /\ [Next]_vars => Whole' /\ Base' /\ IterFresh'
  <2> SUFFICES ASSUME Whole, Base, IterFresh, [Next]_vars PROVE Whole' /\ Base' /\ IterFresh'
    OBVIOUS
  <2>1. Storing \/ KvDelete(W) \/ IterCommand(W)
    BY Steps DEF Storing
  <2>2. ~KvDelete(W)
    BY DeleteStep DEF NoDelete
  <2>3. Whole' /\ Base'
    BY BaseStep, WholeStep
  <2> QED BY <2>1, <2>2, <2>3, StoringFresh, IterFreshStep
<1>3. Whole /\ IterFresh => Remembered
  BY WholeRemembers DEF IterFresh
<1> QED
  BY <1>1, <1>2, <1>3, PTL DEF Spec

=============================================================================
