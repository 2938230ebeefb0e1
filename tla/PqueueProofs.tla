---------------------------- MODULE PqueueProofs ----------------------------
(***************************************************************************)
(* For every set of lines and every range of priorities: the array stays a *)
(* heap, line->pos stays the index of every queued line, and the queue is  *)
(* the set of victim lines ConvFTL works with, whose minimum pqueue_pop    *)
(* takes out.                                                              *)
(*                                                                         *)
(* bubble_up and percolate_down both follow a path of indices through the  *)
(* array; what such a path does to the array is shown once for both.       *)
(***************************************************************************)
EXTENDS Pqueue, SequenceTheorems, FiniteSetTheorems, WellFoundedInduction, TLAPS

\* A set that holds 0 and, with a number below n, its successor, is all of 0 .. n.
LEMMA BoundedInduction ==
  ASSUME NEW n \in Nat, NEW G \in SUBSET (0 .. n), 0 \in G,
         \A i \in 0 .. n - 1 : i \in G => i + 1 \in G
  PROVE  G = 0 .. n
<1> DEFINE F == (0 .. n) \ G
<1>1. SUFFICES ASSUME F # {} PROVE FALSE
  OBVIOUS
<1>2. F \subseteq Nat
  OBVIOUS
<1>3. PICK c \in F : \A e \in F : ~ (<<e, c>> \in OpToRel(<, Nat))
  BY <1>1, <1>2, WFMin, NatLessThanWellFounded
<1>4. c \in 1 .. n /\ c - 1 \in 0 .. n - 1 /\ (c - 1) + 1 = c
  OBVIOUS
<1>5. c - 1 \notin G
  BY <1>4
<1>6. c - 1 \in F /\ c - 1 \in Nat /\ c \in Nat /\ c - 1 < c
  BY <1>4, <1>5
<1>7. <<c - 1, c>> \in OpToRel(<, Nat)
  BY <1>6 DEF OpToRel
<1> QED
  BY <1>3, <1>6, <1>7

\* A set of natural numbers that is not empty has a smallest element.
LEMMA Smallest ==
  ASSUME NEW S \in SUBSET Nat, S # {}
  PROVE  \E x \in S : \A y \in S : x <= y
<1>1. PICK c \in S : \A e \in S : ~ (<<e, c>> \in OpToRel(<, Nat))
  BY WFMin, NatLessThanWellFounded
<1>2. ASSUME NEW y \in S PROVE c <= y
  <2>1. y \in Nat /\ c \in Nat
    OBVIOUS
  <2>2. ~ (y < c)
    BY <1>1, <2>1 DEF OpToRel
  <2> QED BY <2>1, <2>2
<1> QED
  BY <1>2

-----------------------------------------------------------------------------
(* Paths.  nx[k] is the index a path goes to from k, 0 where it ends.      *)

\* g[k] is the set of indices on the path from k
Follows(g, nx, n) == g = [k \in 1 .. n |-> IF nx[k] # 0 THEN {k} \cup g[nx[k]] ELSE {k}]

\* paths end: the rank r falls along them
Ranked(nx, n, r) ==
  /\ n \in Nat /\ nx \in [1 .. n -> 0 .. n] /\ r \in [1 .. n -> 1 .. n]
  /\ \A j, k \in 1 .. n : r[j] = r[k] => j = k
  /\ \A k \in 1 .. n : nx[k] # 0 => r[nx[k]] < r[k]

\* T is the path from i
Path(T, nx, n, i, r) ==
  /\ T \subseteq 1 .. n /\ i \in T
  /\ \A j \in T : nx[j] # 0 => nx[j] \in T
  /\ \A j \in T : j = i \/ \E l \in T : nx[l] = j
  /\ \A j \in T : r[j] <= r[i]
  /\ \A j, l \in T : r[j] < r[l] => nx[l] # 0 /\ r[j] <= r[nx[l]]

\* The recursion that collects a path has a solution.
LEMMA TrailExists ==
  ASSUME NEW n \in Nat, NEW nx \in [1 .. n -> 0 .. n]
  PROVE  \E g : Follows(g, nx, n)
<1> DEFINE closed(S) == \A m \in S : nx[m] # 0 => nx[m] \in S
           U(k) == {j \in 1 .. n : \A S \in SUBSET (1 .. n) : k \in S /\ closed(S) => j \in S}
           g == [k \in 1 .. n |-> U(k)]
<1>1. ASSUME NEW k \in 1 .. n PROVE k \in U(k) /\ U(k) \in SUBSET (1 .. n)
  OBVIOUS
<1>2. ASSUME NEW k \in 1 .. n PROVE closed(U(k))
  <2> SUFFICES ASSUME NEW m \in U(k), nx[m] # 0 PROVE nx[m] \in U(k)
    OBVIOUS
  <2>1. nx[m] \in 1 .. n
    OBVIOUS
  <2>2. ASSUME NEW S \in SUBSET (1 .. n), k \in S, closed(S) PROVE nx[m] \in S
    <3>1. m \in S
      BY <2>2
    <3> QED BY <2>2, <3>1
  <2> QED BY <2>1, <2>2
<1>3. ASSUME NEW k \in 1 .. n, NEW S \in SUBSET (1 .. n), k \in S, closed(S) PROVE U(k) \subseteq S
  BY <1>3
<1>4. ASSUME NEW k \in 1 .. n, nx[k] # 0 PROVE U(k) = {k} \cup U(nx[k])
  <2>1. nx[k] \in 1 .. n
    BY <1>4
  <2>2. {k} \cup U(nx[k]) \subseteq U(k)
    <3>1. nx[k] \in U(k)
      <4>1. k \in U(k) /\ closed(U(k))
        BY <1>1, <1>2
      <4> HIDE DEF U
      <4> QED BY <4>1, <1>4
    <3>2. U(nx[k]) \subseteq U(k)
      <4>1. U(k) \in SUBSET (1 .. n) /\ closed(U(k))
        BY <1>1, <1>2
      <4> HIDE DEF U, closed
      <4> QED BY <1>3, <2>1, <3>1, <4>1
    <3>3. k \in U(k)
      BY <1>1
    <3> HIDE DEF U
    <3> QED BY <3>2, <3>3
  <2>3. U(k) \subseteq {k} \cup U(nx[k])
    <3> DEFINE S == {k} \cup U(nx[k])
    <3>1. S \in SUBSET (1 .. n) /\ k \in S
      BY <1>1, <2>1
    <3>2. closed(S)
      <4> SUFFICES ASSUME NEW m \in S, nx[m] # 0 PROVE nx[m] \in S
        OBVIOUS
      <4>1. nx[k] \in U(nx[k]) /\ closed(U(nx[k]))
        BY <1>1, <1>2, <2>1
      <4> HIDE DEF U
      <4> QED BY <4>1
    <3> HIDE DEF S, U, closed
    <3>3. U(k) \subseteq S
      BY <1>3, <3>1, <3>2
    <3> QED BY <3>3 DEF S
  <2> HIDE DEF U
  <2> QED BY <2>2, <2>3
<1>5. ASSUME NEW k \in 1 .. n, nx[k] = 0 PROVE U(k) = {k}
  <2>1. closed({k})
    BY <1>5
  <2>2. U(k) \subseteq {k}
    <3>1. {k} \in SUBSET (1 .. n) /\ k \in {k}
      OBVIOUS
    <3> HIDE DEF U, closed
    <3> QED BY <1>3, <2>1, <3>1
  <2> QED BY <1>1, <2>2
<1>6. ASSUME NEW k \in 1 .. n PROVE g[k] = IF nx[k] # 0 THEN {k} \cup g[nx[k]] ELSE {k}
  <2>1. CASE nx[k] # 0
    <3>1. nx[k] \in 1 .. n
      BY <2>1
    <3>2. g[k] = U(k) /\ g[nx[k]] = U(nx[k])
      <4> HIDE DEF U
      <4> QED BY <3>1
    <3> HIDE DEF U, g
    <3> QED BY <1>4, <2>1, <3>2
  <2>2. CASE nx[k] = 0
    <3>1. g[k] = U(k)
      <4> HIDE DEF U
      <4> QED OBVIOUS
    <3> HIDE DEF U, g
    <3> QED BY <1>5, <2>2, <3>1
  <2> QED BY <2>1, <2>2
<1>7. g = [k \in 1 .. n |-> g[k]]
  <2> HIDE DEF U
  <2> QED OBVIOUS
<1>8. Follows(g, nx, n)
  <2> HIDE DEF U, g
  <2> QED BY <1>6, <1>7 DEF Follows
<1> QED
  <2> HIDE DEF U, g
  <2> QED BY <1>8

\* Every solution collects paths.
LEMMA TrailPath ==
  ASSUME NEW g, NEW nx, NEW n, NEW r, Ranked(nx, n, r), Follows(g, nx, n), NEW i \in 1 .. n
  PROVE  Path(g[i], nx, n, i, r)
<1> DEFINE Good == {m \in 0 .. n : \A k \in 1 .. n : r[k] <= m => Path(g[k], nx, n, k, r)}
<1>1. /\ n \in Nat /\ \A k \in 1 .. n : nx[k] \in 0 .. n /\ r[k] \in 1 .. n
      /\ \A k \in 1 .. n : nx[k] # 0 => nx[k] \in 1 .. n /\ r[nx[k]] < r[k]
      /\ \A j, k \in 1 .. n : r[j] = r[k] => j = k
  BY DEF Ranked
<1>2. \A k \in 1 .. n : g[k] = IF nx[k] # 0 THEN {k} \cup g[nx[k]] ELSE {k}
  BY DEF Follows
<1>3. 0 \in Good
  <2>1. \A k \in 1 .. n : ~(r[k] <= 0)
    BY <1>1
  <2> QED BY <1>1, <2>1
<1>4. ASSUME NEW m \in 0 .. n - 1, m \in Good PROVE m + 1 \in Good
  <2> SUFFICES ASSUME NEW k \in 1 .. n, r[k] <= m + 1 PROVE Path(g[k], nx, n, k, r)
    BY <1>1
  <2>1. CASE nx[k] = 0
    <3>1. g[k] = {k}
      BY <1>2, <2>1
    <3>2. ~(r[k] < r[k]) /\ r[k] <= r[k]
      BY <1>1
    <3> QED BY <2>1, <3>1, <3>2 DEF Path
  <2>2. CASE nx[k] # 0
    <3> DEFINE h == nx[k]
               T == g[h]
    <3>1. h \in 1 .. n /\ r[h] < r[k] /\ r[h] <= m /\ r[h] \in 1 .. n /\ r[k] \in 1 .. n
      <4>1. h \in 1 .. n /\ r[h] < r[k] /\ r[h] \in 1 .. n /\ r[k] \in 1 .. n
        BY <1>1, <2>2
      <4> QED BY <1>1, <4>1
    <3>2. Path(T, nx, n, h, r)
      BY <1>4, <3>1
    <3>3. g[k] = {k} \cup T
      BY <1>2, <2>2
    <3>4. h \in T /\ nx[k] = h /\ h # 0
      BY <2>2, <3>2 DEF Path
    <3>5. \A j \in T : j \in 1 .. n /\ r[j] \in 1 .. n /\ r[j] <= r[h] /\ r[j] < r[k]
      <4> SUFFICES ASSUME NEW j \in T
                   PROVE  j \in 1 .. n /\ r[j] \in 1 .. n /\ r[j] <= r[h] /\ r[j] < r[k]
        OBVIOUS
      <4>1. j \in 1 .. n /\ r[j] <= r[h]
        BY <3>2 DEF Path
      <4> QED BY <1>1, <3>1, <4>1
    <3> HIDE DEF h, T
    <3> DEFINE V == {k} \cup T
    <3>6. V \subseteq 1 .. n /\ k \in V
      BY <3>5
    <3>7. \A j \in V : nx[j] # 0 => nx[j] \in V
      BY <3>2, <3>4 DEF Path
    <3>8. \A j \in V : j = k \/ \E l \in V : nx[l] = j
      BY <3>2, <3>4 DEF Path
    <3>9. \A j \in V : r[j] <= r[k]
      BY <3>1, <3>5
    <3>10. ASSUME NEW j \in V, NEW l \in V, r[j] < r[l] PROVE nx[l] # 0 /\ r[j] <= r[nx[l]]
      <4>1. CASE l = k
        <5>1. j # k
          BY <3>1, <3>10, <4>1
        <5> QED BY <3>4, <3>5, <4>1, <5>1
      <4>2. CASE l # k
        <5>1. l \in T /\ j # k
          BY <3>1, <3>5, <3>10, <4>2
        <5> QED BY <3>2, <3>10, <5>1 DEF Path
      <4> QED BY <4>1, <4>2
    <3> HIDE DEF V
    <3>11. Path(V, nx, n, k, r)
      BY <3>6, <3>7, <3>8, <3>9, <3>10 DEF Path
    <3> QED BY <3>3, <3>11 DEF V
  <2> QED BY <2>1, <2>2
<1>5. Good = 0 .. n
  <2>1. Good \in SUBSET (0 .. n)
    OBVIOUS
  <2> HIDE DEF Good
  <2> QED BY <1>1, <1>3, <1>4, <2>1, BoundedInduction
<1>6. n \in Good /\ r[i] <= n
  BY <1>1, <1>5
<1> QED
  BY <1>6

\* e is the one end of T, where the rank is lowest
End(T, nx, r, e) ==
  /\ e \in T /\ nx[e] = 0
  /\ \A j \in T : r[e] <= r[j]
  /\ \A j \in T : j # e => nx[j] # 0

\* T visits no index twice, and i only at its start
Simple(T, nx, i) ==
  /\ \A j, l \in T : nx[j] = nx[l] /\ nx[j] # 0 => j = l
  /\ \A j \in T : nx[j] # i \/ nx[j] = 0

\* A path has one end and visits no index twice.
LEMMA PathEnd ==
  ASSUME NEW T, NEW nx, NEW n, NEW i, NEW r, Ranked(nx, n, r), Path(T, nx, n, i, r)
  PROVE  Simple(T, nx, i) /\ \E e : End(T, nx, r, e)
<1>1. /\ n \in Nat /\ i \in T
      /\ \A j \in T : j \in 1 .. n /\ r[j] \in 1 .. n /\ r[j] <= r[i]
      /\ \A j \in T : nx[j] # 0 => nx[j] \in T /\ r[nx[j]] < r[j]
      /\ \A j, k \in T : r[j] = r[k] => j = k
      /\ \A j, l \in T : r[j] < r[l] => nx[l] # 0 /\ r[j] <= r[nx[l]]
  BY DEF Ranked, Path
<1> DEFINE R == {r[j] : j \in T}
<1>2. PICK x \in R : \A y \in R : x <= y
  <2>1. R \in SUBSET Nat /\ R # {}
    BY <1>1
  <2> HIDE DEF R
  <2> QED BY <2>1, Smallest
<1>3. PICK e \in T : r[e] = x
  BY <1>2
<1>4. \A j \in T : r[e] <= r[j]
  BY <1>2, <1>3
<1>5. nx[e] = 0
  <2> SUFFICES ASSUME nx[e] # 0 PROVE FALSE
    OBVIOUS
  <2>1. nx[e] \in T /\ r[nx[e]] < r[e] /\ r[e] \in Nat /\ r[nx[e]] \in Nat
    BY <1>1
  <2>2. r[e] <= r[nx[e]]
    BY <1>4, <2>1
  <2> QED BY <2>1, <2>2
<1>6. \A j \in T : j # e => nx[j] # 0
  <2> SUFFICES ASSUME NEW j \in T, j # e PROVE nx[j] # 0
    OBVIOUS
  <2>1. r[e] < r[j]
    <3>1. r[e] <= r[j] /\ r[e] # r[j] /\ r[e] \in Nat /\ r[j] \in Nat
      BY <1>1, <1>4
    <3> QED BY <3>1
  <2> QED BY <1>1, <2>1
<1>7. ASSUME NEW j \in T, NEW l \in T, nx[j] = nx[l], nx[j] # 0 PROVE j = l
  <2>0. /\ r[j] \in Nat /\ r[l] \in Nat /\ nx[j] \in T /\ r[nx[j]] \in Nat
        /\ r[nx[j]] < r[j] /\ r[nx[l]] < r[l]
    BY <1>1, <1>7
  <2>1. CASE r[j] < r[l]
    <3>1. r[j] <= r[nx[l]]
      BY <1>1, <2>1
    <3> QED BY <1>7, <2>0, <3>1
  <2>2. CASE r[l] < r[j]
    <3>1. r[l] <= r[nx[j]]
      BY <1>1, <2>2
    <3> QED BY <1>7, <2>0, <3>1
  <2>3. CASE r[j] = r[l]
    BY <1>1, <2>3
  <2> QED BY <2>0, <2>1, <2>2, <2>3
<1>8. ASSUME NEW j \in T, nx[j] = i, nx[j] # 0 PROVE FALSE
  <2>1. r[nx[j]] < r[j] /\ r[j] <= r[i] /\ r[j] \in Nat /\ r[i] \in Nat
    BY <1>1, <1>8
  <2> QED BY <1>8, <2>1
<1>9. Simple(T, nx, i)
  BY <1>7, <1>8 DEF Simple
<1>10. End(T, nx, r, e)
  BY <1>4, <1>5, <1>6 DEF End
<1> QED
  BY <1>9, <1>10

\* The array after everything on the path from i to e has moved up by one place
\* along it and the element of i has taken the place e.
moved(a, T, nx, n, i, e) ==
  [k \in 1 .. n |-> IF k \notin T THEN a[k] ELSE IF k = e THEN a[i] ELSE a[nx[k]]]

\* an array of n different lines
Array(a, n) ==
  /\ n \in Nat /\ a \in [1 .. n -> Lines]
  /\ \A j, k \in 1 .. n : a[j] = a[k] => j = k

\* b has the lines of a, and on T those a has on T
Permuted(a, b, T, n) ==
  /\ Array(b, n)
  /\ {b[k] : k \in 1 .. n} = {a[k] : k \in 1 .. n}
  /\ {b[k] : k \in T} = {a[k] : k \in T}

\* The lines are permuted, those of the path among themselves.
LEMMA MovedArray ==
  ASSUME NEW a, NEW T, NEW nx, NEW n, NEW i, NEW r, NEW e, NEW b,
         Ranked(nx, n, r), Path(T, nx, n, i, r), Array(a, n),
         End(T, nx, r, e), b = moved(a, T, nx, n, i, e)
  PROVE  Permuted(a, b, T, n)
<1>1. /\ n \in Nat /\ i \in T /\ T \subseteq 1 .. n
      /\ \A j \in T : j = i \/ \E l \in T : nx[l] = j
      /\ \A j \in T : nx[j] # 0 => nx[j] \in T
      /\ a \in [1 .. n -> Lines] /\ \A j, k \in 1 .. n : a[j] = a[k] => j = k
      /\ \A k \in 1 .. n : nx[k] # 0 => nx[k] \in 1 .. n
      /\ i \in 1 .. n
      /\ e \in T /\ nx[e] = 0 /\ \A j \in T : j # e => nx[j] # 0
  <2>1. n \in Nat /\ i \in T /\ T \subseteq 1 .. n /\ i \in 1 .. n
    BY DEF Ranked, Path
  <2>2. /\ \A j \in T : j = i \/ \E l \in T : nx[l] = j
        /\ \A j \in T : nx[j] # 0 => nx[j] \in T
    BY DEF Path
  <2>3. a \in [1 .. n -> Lines] /\ \A j, k \in 1 .. n : a[j] = a[k] => j = k
    BY DEF Array
  <2>4. \A k \in 1 .. n : nx[k] # 0 => nx[k] \in 1 .. n
    BY DEF Ranked
  <2>5. e \in T /\ nx[e] = 0 /\ \A j \in T : j # e => nx[j] # 0
    BY DEF End
  <2> QED BY ONLY <2>1, <2>2, <2>3, <2>4, <2>5
<1>2. /\ \A j, l \in T : nx[j] = nx[l] /\ nx[j] # 0 => j = l
      /\ \A j \in T : nx[j] # i \/ nx[j] = 0
  <2>1. Simple(T, nx, i)
    BY PathEnd
  <2> QED BY <2>1 DEF Simple
<1> DEFINE s == [k \in 1 .. n |-> IF k \notin T THEN k ELSE IF k = e THEN i ELSE nx[k]]
<1>3. \A k \in 1 .. n : s[k] \in 1 .. n /\ b[k] = a[s[k]] /\ (k \in T <=> s[k] \in T)
  <2> TAKE k \in 1 .. n
  <2>1. CASE k \notin T
    BY <2>1 DEF moved
  <2>2. CASE k \in T /\ k = e
    BY <1>1, <2>2 DEF moved
  <2>3. CASE k \in T /\ k # e
    <3>1. nx[k] # 0 /\ nx[k] \in T /\ s[k] = nx[k]
      BY <1>1, <2>3
    <3> QED BY <1>1, <2>3, <3>1 DEF moved
  <2> QED BY <2>1, <2>2, <2>3
<1>4. ASSUME NEW j \in 1 .. n, NEW k \in 1 .. n, s[j] = s[k] PROVE j = k
  <2>1. j \in T <=> k \in T
    BY <1>3, <1>4
  <2>2. CASE j \notin T
    <3>1. k \notin T
      BY <2>1, <2>2
    <3> QED BY <1>4, <2>2, <3>1
  <2>3. CASE j \in T
    <3>0. k \in T
      BY <2>1, <2>3
    <3>1. CASE j = e
      <4>1. k # e => nx[k] = i /\ nx[k] # 0
        BY <1>1, <1>4, <2>3, <3>0, <3>1
      <4> QED BY <1>2, <3>0, <3>1, <4>1
    <3>2. CASE j # e
      <4>1. s[j] = nx[j] /\ nx[j] # 0
        BY <1>1, <2>3, <3>2
      <4>2. CASE k = e
        <5>1. nx[j] = i
          BY <1>4, <3>0, <4>1, <4>2
        <5> QED BY <1>2, <2>3, <4>1, <5>1
      <4>3. CASE k # e
        <5>1. s[k] = nx[k]
          BY <3>0, <4>3
        <5> QED BY <1>2, <1>4, <2>3, <3>0, <4>1, <5>1
      <4> QED BY <4>2, <4>3
    <3> QED BY <3>1, <3>2
  <2> QED BY <2>2, <2>3
<1>5. ASSUME NEW j \in 1 .. n PROVE \E k \in 1 .. n : s[k] = j /\ (j \in T => k \in T)
  <2>1. CASE j \notin T
    BY <2>1
  <2>2. CASE j = i
    <3>1. e \in 1 .. n /\ s[e] = i
      BY <1>1
    <3> QED BY <2>2, <3>1
  <2>3. CASE j \in T /\ j # i
    <3>1. PICK l \in T : nx[l] = j
      BY <1>1, <2>3
    <3>2. l # e /\ l \in 1 .. n
      <4>1. j # 0 /\ l \in 1 .. n
        BY <1>1
      <4> QED BY <1>1, <3>1, <4>1
    <3>3. s[l] = j
      BY <3>1, <3>2
    <3> QED BY <3>2, <3>3
  <2> QED BY <2>1, <2>2, <2>3
<1> HIDE DEF s
<1>6. Array(b, n)
  <2>1. b = [k \in 1 .. n |-> b[k]]
    BY DEF moved
  <2>2. \A k \in 1 .. n : b[k] \in Lines
    BY <1>1, <1>3
  <2>3. b \in [1 .. n -> Lines]
    BY <2>1, <2>2
  <2>4. ASSUME NEW j \in 1 .. n, NEW k \in 1 .. n, b[j] = b[k] PROVE j = k
    <3>1. s[j] = s[k]
      BY <1>1, <1>3, <2>4
    <3> QED BY <1>4, <3>1
  <2> QED BY <1>1, <2>3, <2>4 DEF Array
<1>7. {b[k] : k \in 1 .. n} = {a[k] : k \in 1 .. n}
  <2>1. \A k \in 1 .. n : b[k] \in {a[j] : j \in 1 .. n}
    BY <1>3
  <2>2. \A j \in 1 .. n : a[j] \in {b[k] : k \in 1 .. n}
    BY <1>3, <1>5
  <2> QED BY <2>1, <2>2
<1>8. {b[k] : k \in T} = {a[k] : k \in T}
  <2>1. \A k \in T : b[k] \in {a[j] : j \in T}
    BY <1>1, <1>3
  <2>2. \A j \in T : a[j] \in {b[k] : k \in T}
    <3> TAKE j \in T
    <3>1. PICK k \in 1 .. n : s[k] = j /\ k \in T
      BY <1>1, <1>5
    <3> QED BY <1>3, <3>1
  <2> QED BY <2>1, <2>2
<1> QED
  BY <1>6, <1>7, <1>8 DEF Permuted

-----------------------------------------------------------------------------
(* Sifting.                                                                *)

Heap(a, n, v) == \A k \in 2 .. n : v[a[k \div 2]] <= v[a[k]]

\* what a sift of the element of i makes of the array a, along the path T
Sifted(a, n, v, i, b, T) ==
  /\ Permuted(a, b, T, n) /\ Heap(b, n, v) /\ T \subseteq 1 .. n /\ i \in T
  /\ \A k \in 1 .. n : k \notin T => b[k] = a[k]

\* a heap but for the element of i, whose children are not before its parent
AlmostHeap(a, n, v, i) ==
  /\ \A k \in 2 .. n : k # i /\ k \div 2 # i => v[a[k \div 2]] <= v[a[k]]
  /\ i > 1 => \A k \in 2 .. n : k \div 2 = i => v[a[i \div 2]] <= v[a[k]]

LEMMA Half ==
  ASSUME NEW k \in Nat
  PROVE  k \div 2 \in Nat /\ 2 * (k \div 2) <= k /\ k <= 2 * (k \div 2) + 1
OBVIOUS

\* A child has its parent in the array, before it.
LEMMA Parent ==
  ASSUME NEW n \in Nat, NEW k \in 2 .. n
  PROVE  k \div 2 \in 1 .. n /\ k \div 2 < k /\ k \in 1 .. n
BY Half

same(n) == [k \in 1 .. n |-> k]

\* where the element of i goes from k, on its way up
up_to(a, v, n, i) ==
  [k \in 1 .. n |-> IF k > 1 /\ v[a[k \div 2]] > v[a[i]] THEN k \div 2 ELSE 0]

LEMMA UpPath ==
  ASSUME NEW a, NEW n, NEW v, NEW i, Array(a, n), i \in 1 .. n
  PROVE  /\ Ranked(up_to(a, v, n, i), n, same(n))
         /\ Path(up_path(a, v, i), up_to(a, v, n, i), n, i, same(n))
<1> DEFINE nx == up_to(a, v, n, i)
           body(g, k) == IF k > 1 /\ cmppri(v[a[k \div 2]], v[a[i]])
                         THEN {k} \cup g[k \div 2] ELSE {k}
           up == CHOOSE g : g = [k \in 1 .. n |-> body(g, k)]
<1>1. n \in Nat /\ DOMAIN a = 1 .. n
  BY DEF Array
<1>2. \A k \in 1 .. n : nx[k] = IF k > 1 /\ v[a[k \div 2]] > v[a[i]] THEN k \div 2 ELSE 0
  BY DEF up_to
<1>3. \A k \in 1 .. n : k > 1 => k \div 2 \in 1 .. n /\ k \div 2 < k
  BY <1>1, Half
<1>4. Ranked(nx, n, same(n))
  <2>1. nx = [k \in 1 .. n |-> nx[k]] /\ \A k \in 1 .. n : nx[k] \in 0 .. n
    <3>1. nx = [k \in 1 .. n |-> nx[k]]
      BY DEF up_to
    <3> HIDE DEF nx
    <3>2. \A k \in 1 .. n : nx[k] \in 0 .. n
      BY <1>1, <1>2, <1>3
    <3> QED BY <3>1, <3>2
  <2> HIDE DEF nx
  <2>2. nx \in [1 .. n -> 0 .. n]
    BY <2>1
  <2>3. \A k \in 1 .. n : nx[k] # 0 => nx[k] \in 1 .. n /\ nx[k] < k
    BY <1>1, <1>2, <1>3
  <2>4. same(n) \in [1 .. n -> 1 .. n] /\ \A k \in 1 .. n : same(n)[k] = k
    BY DEF same
  <2> QED BY <1>1, <2>2, <2>3, <2>4 DEF Ranked
<1>5. ASSUME NEW g, NEW k \in 1 .. n
      PROVE  body(g, k) = IF nx[k] # 0 THEN {k} \cup g[nx[k]] ELSE {k}
  <2> HIDE DEF nx
  <2>1. CASE k > 1 /\ v[a[k \div 2]] > v[a[i]]
    <3>1. nx[k] = k \div 2 /\ nx[k] # 0
      BY <1>1, <1>2, <1>3, <2>1
    <3> QED BY <2>1, <3>1 DEF cmppri
  <2>2. CASE ~(k > 1 /\ v[a[k \div 2]] > v[a[i]])
    <3>1. nx[k] = 0
      BY <1>2, <2>2
    <3> QED BY <2>2, <3>1 DEF cmppri
  <2> QED BY <2>1, <2>2
<1>6. ASSUME NEW g PROVE g = [k \in 1 .. n |-> body(g, k)] <=> Follows(g, nx, n)
  <2>1. \A k \in 1 .. n : body(g, k) = IF nx[k] # 0 THEN {k} \cup g[nx[k]] ELSE {k}
    BY <1>5
  <2> HIDE DEF body, nx
  <2> QED BY <2>1 DEF Follows
<1>7. \E g : g = [k \in 1 .. n |-> body(g, k)]
  <2>1. nx \in [1 .. n -> 0 .. n]
    BY <1>4 DEF Ranked
  <2>2. \E g : Follows(g, nx, n)
    <3> HIDE DEF nx
    <3> QED BY <1>1, <2>1, TrailExists
  <2> HIDE DEF body, nx
  <2> QED BY <1>6, <2>2
<1>8. Follows(up, nx, n)
  <2>1. up = [k \in 1 .. n |-> body(up, k)]
    <3> HIDE DEF body
    <3> QED BY <1>7
  <2> HIDE DEF body, nx, up
  <2> QED BY <1>6, <2>1
<1>9. up_path(a, v, i) = up[i]
  BY <1>1 DEF up_path
<1> HIDE DEF up, nx, body
<1>10. Path(up[i], nx, n, i, same(n))
  BY <1>4, <1>8, TrailPath
<1> QED
  BY <1>4, <1>9, <1>10 DEF nx

\* bubble_up restores the heap when the element of i may be before its parent,
\* but not after a child.
LEMMA BubbleUp ==
  ASSUME NEW a, NEW n, NEW v, NEW i, Array(a, n), i \in 1 .. n, v \in [Lines -> Nat],
         AlmostHeap(a, n, v, i),
         \A k \in 2 .. n : k \div 2 = i => v[a[i]] <= v[a[k]]
  PROVE  Sifted(a, n, v, i, bubble_up(a, v, i).d, bubble_up(a, v, i).touched)
<1>1. PICK T : T = up_path(a, v, i)
  OBVIOUS
<1>2. PICK nx : nx = up_to(a, v, n, i)
  OBVIOUS
<1>3. PICK r : r = same(n)
  OBVIOUS
<1>4. Ranked(nx, n, r) /\ Path(T, nx, n, i, r)
  BY <1>1, <1>2, <1>3, UpPath
<1>5. PICK e : End(T, nx, r, e)
  BY <1>4, PathEnd
<1>6. /\ n \in Nat /\ T \subseteq 1 .. n /\ e \in T /\ i \in T
      /\ \A k \in 1 .. n : r[k] = k
      /\ a \in [1 .. n -> Lines]
  <2>1. n \in Nat /\ a \in [1 .. n -> Lines]
    BY DEF Array
  <2>2. T \subseteq 1 .. n /\ i \in T
    BY <1>4 DEF Path
  <2>3. e \in T
    BY <1>5 DEF End
  <2>4. \A k \in 1 .. n : r[k] = k
    BY <1>3 DEF same
  <2> QED BY <2>1, <2>2, <2>3, <2>4
<1>7. Min(T) = e
  <2>1. \A j \in T : e <= j
    BY <1>5, <1>6 DEF End
  <2>2. \A x \in T : (\A y \in T : x <= y) => x = e
    BY <1>6, <2>1
  <2> QED BY <1>6, <2>1, <2>2 DEF Min
<1>8. \A k \in 1 .. n : nx[k] = IF k > 1 /\ v[a[k \div 2]] > v[a[i]] THEN k \div 2 ELSE 0
  BY <1>2 DEF up_to
<1>9. \A k \in T : k # e => nx[k] = k \div 2 /\ k > 1 /\ v[a[k \div 2]] > v[a[i]]
  <2> SUFFICES ASSUME NEW k \in T, k # e
               PROVE  nx[k] = k \div 2 /\ k > 1 /\ v[a[k \div 2]] > v[a[i]]
    OBVIOUS
  <2>1. nx[k] # 0
    BY <1>5 DEF End
  <2> QED BY <1>6, <1>8, <2>1
<1>10. PICK b : b = moved(a, T, nx, n, i, e)
  OBVIOUS
<1>11. bubble_up(a, v, i).d = b /\ bubble_up(a, v, i).touched = T
  <2>1. DOMAIN a = 1 .. n
    BY <1>6
  <2>2. \A k \in 1 .. n : (IF k \notin T THEN a[k] ELSE IF k = Min(T) THEN a[i] ELSE a[k \div 2])
                        = (IF k \notin T THEN a[k] ELSE IF k = e THEN a[i] ELSE a[nx[k]])
    BY <1>7, <1>9
  <2>3. bubble_up(a, v, i).d = [k \in 1 .. n |-> IF k \notin T THEN a[k]
                                                 ELSE IF k = Min(T) THEN a[i] ELSE a[k \div 2]]
    BY <1>1, <2>1 DEF bubble_up
  <2>4. bubble_up(a, v, i).touched = T
    BY <1>1 DEF bubble_up
  <2> HIDE DEF Min
  <2> QED BY <1>10, <2>2, <2>3, <2>4 DEF moved
<1>12. Permuted(a, b, T, n)
  BY <1>4, <1>5, <1>10, MovedArray
<1>13. \A k \in 1 .. n : b[k] = IF k \notin T THEN a[k] ELSE IF k = e THEN a[i] ELSE a[nx[k]]
  BY <1>10 DEF moved
<1>14. ASSUME NEW k \in 2 .. n PROVE v[b[k \div 2]] <= v[b[k]]
  <2> DEFINE p == k \div 2
             w(j) == v[a[j]]
  <2>1. p \in 1 .. n /\ p < k /\ k \in 1 .. n
    BY <1>6, Parent
  <2>2. \A j \in 1 .. n : w(j) \in Nat
    BY <1>6
  <2>3. k # i /\ p # i => w(p) <= w(k)
    BY DEF AlmostHeap
  <2>4. \A j \in T : j # i => \E l \in T : nx[l] = j /\ l # e
    <3> SUFFICES ASSUME NEW j \in T, j # i PROVE \E l \in T : nx[l] = j /\ l # e
      OBVIOUS
    <3>1. PICK l \in T : nx[l] = j
      BY <1>4 DEF Path
    <3>2. l # e
      BY <1>5, <1>6, <3>1 DEF End
    <3> QED BY <3>1, <3>2
  <2>5. \A j \in T : j <= i /\ e <= j
    <3> SUFFICES ASSUME NEW j \in T PROVE j <= i /\ e <= j
      OBVIOUS
    <3>1. r[j] <= r[i]
      BY <1>4 DEF Path
    <3>2. r[e] <= r[j]
      BY <1>5 DEF End
    <3>3. r[j] = j /\ r[i] = i /\ r[e] = e
      BY <1>6
    <3> QED BY <3>1, <3>2, <3>3
  <2>6. CASE k \notin T /\ p \notin T
    BY <1>6, <1>13, <2>1, <2>3, <2>6
  <2>7. CASE k \in T /\ k # e
    <3>1. nx[k] = p /\ w(p) > w(i) /\ b[k] = a[p]
      BY <1>9, <1>13, <2>1, <2>7
    <3>2. p \in T /\ p # i
      <4>1. p \in T
        BY <1>4, <2>1, <2>7, <3>1 DEF Path
      <4> QED BY <1>6, <2>1, <2>5, <2>7, <4>1
    <3>3. CASE p = e
      <4>1. b[p] = a[i] /\ w(i) \in Nat /\ w(p) \in Nat
        BY <1>6, <1>13, <2>1, <2>2, <3>2, <3>3
      <4> QED BY <3>1, <4>1
    <3>4. CASE p # e
      <4>1. b[p] = a[p \div 2] /\ p > 1
        BY <1>9, <1>13, <2>1, <3>2, <3>4
      <4>2. p \in 2 .. n /\ p \div 2 # i
        <5>1. p \in 2 .. n
          BY <1>6, <2>1, <4>1
        <5>2. p \div 2 < p
          BY <1>6, <5>1, Parent
        <5>3. p <= i /\ p \in Nat /\ i \in Nat
          BY <1>6, <2>5, <3>2
        <5> QED BY <5>1, <5>2, <5>3, Half
      <4>3. w(p \div 2) <= w(p)
        BY <3>2, <4>2 DEF AlmostHeap
      <4> QED BY <3>1, <4>1, <4>3
    <3> QED BY <3>3, <3>4
  <2>8. CASE k = e
    <3>1. p \notin T
      BY <1>6, <2>1, <2>5, <2>8
    <3>2. nx[e] = 0 /\ p # 0 /\ k > 1
      BY <1>5, <1>6, <2>1 DEF End
    <3>3. ~(w(p) > w(i))
      BY <1>8, <2>1, <2>8, <3>2
    <3>4. b[k] = a[i] /\ b[p] = a[p]
      BY <1>6, <1>13, <2>1, <2>8, <3>1
    <3>5. w(p) \in Nat /\ w(i) \in Nat
      BY <2>1, <2>2
    <3> QED BY <3>3, <3>4, <3>5
  <2>9. CASE k \notin T /\ p \in T
    <3>0. b[k] = a[k] /\ k # i
      BY <1>6, <1>13, <2>1, <2>9
    <3>1. CASE p = e /\ p = i
      <4>1. b[p] = a[i] /\ w(i) <= w(k)
        BY <1>13, <2>1, <2>9, <3>1
      <4> QED BY <3>0, <4>1
    <3>2. CASE p = e /\ p # i
      <4>1. PICK l \in T : nx[l] = p /\ l # e
        BY <2>4, <2>9, <3>2
      <4>2. w(p) > w(i)
        BY <1>9, <4>1
      <4>3. w(p) <= w(k) /\ w(p) \in Nat /\ w(i) \in Nat /\ w(k) \in Nat
        BY <2>1, <2>2, <2>3, <3>0, <3>2
      <4>4. b[p] = a[i]
        BY <1>13, <2>1, <2>9, <3>2
      <4> QED BY <3>0, <4>2, <4>3, <4>4
    <3>3. CASE p # e
      <4>1. b[p] = a[p \div 2] /\ p > 1
        BY <1>9, <1>13, <2>1, <2>9, <3>3
      <4>2. p \in 2 .. n /\ p \div 2 \in 1 .. n /\ p \div 2 < p
        <5>1. p \in 2 .. n
          BY <1>6, <2>1, <4>1
        <5> QED BY <1>6, <5>1, Parent
      <4>3. CASE p = i
        <5>1. w(i \div 2) <= w(k)
          BY <4>1, <4>3 DEF AlmostHeap
        <5> QED BY <3>0, <4>1, <4>3, <5>1
      <4>4. CASE p # i
        <5>1. p \div 2 # i
          BY <1>6, <2>5, <2>9, <4>2
        <5>2. w(p \div 2) <= w(p)
          BY <4>2, <4>4, <5>1 DEF AlmostHeap
        <5>3. w(p) <= w(k) /\ w(p) \in Nat /\ w(k) \in Nat /\ w(p \div 2) \in Nat
          BY <2>1, <2>2, <2>3, <3>0, <4>2, <4>4
        <5> QED BY <3>0, <4>1, <5>2, <5>3
      <4> QED BY <4>3, <4>4
    <3> QED BY <3>1, <3>2, <3>3
  <2> QED BY <2>6, <2>7, <2>8, <2>9
<1>15. \A k \in 1 .. n : k \notin T => b[k] = a[k]
  BY <1>13
<1>16. Sifted(a, n, v, i, b, T)
  BY <1>6, <1>12, <1>14, <1>15 DEF Sifted, Heap
<1> QED
  BY <1>11, <1>16

\* An array is a sequence, and the other way round.
LEMMA ArraySeq ==
  ASSUME NEW a, NEW n, Array(a, n)
  PROVE  a \in Seq(Lines) /\ Len(a) = n /\ DOMAIN a = 1 .. n
<1>1. n \in Nat /\ a \in [1 .. n -> Lines]
  BY DEF Array
<1>2. a \in Seq(Lines)
  BY <1>1
<1>3. DOMAIN a = 1 .. n /\ DOMAIN a = 1 .. Len(a) /\ Len(a) \in Nat
  BY <1>1, <1>2
<1> QED
  BY <1>1, <1>2, <1>3

\* c is the child of k that ranks first, 0 if k has none
FirstChild(a, v, n, k, c) ==
  /\ c \in 0 .. n
  /\ c = 0 => \A j \in 2 .. n : j \div 2 # k
  /\ c # 0 => /\ c \in 2 .. n /\ c \div 2 = k /\ k < c
              /\ \A j \in 2 .. n : j \div 2 = k => v[a[c]] <= v[a[j]]

LEMMA MaxChild ==
  ASSUME NEW a, NEW n, NEW v, NEW k, Array(a, n), k \in 1 .. n, v \in [Lines -> Nat]
  PROVE  FirstChild(a, v, n, k, maxchild(a, v, k))
<1>1. n \in Nat /\ a \in [1 .. n -> Lines] /\ Len(a) = n /\ k \in Nat /\ k >= 1
  BY ArraySeq DEF Array
<1>2. \A j \in 1 .. n : v[a[j]] \in Nat
  BY <1>1
<1>3. \A j \in 2 .. n : j \div 2 = k => j = 2 * k \/ j = 2 * k + 1
  <2> SUFFICES ASSUME NEW j \in 2 .. n, j \div 2 = k PROVE j = 2 * k \/ j = 2 * k + 1
    OBVIOUS
  <2>1. j \in Nat /\ 2 * k <= j /\ j <= 2 * k + 1
    BY <1>1, Half
  <2> QED BY <1>1, <2>1
<1>4. (2 * k) \div 2 = k /\ (2 * k + 1) \div 2 = k /\ 2 * k \in Nat /\ k < 2 * k /\ 2 <= 2 * k
  BY <1>1
<1>5. CASE 2 * k > n
  <2>1. maxchild(a, v, k) = 0
    BY <1>1, <1>5 DEF maxchild
  <2>2. \A j \in 2 .. n : j \div 2 # k
    BY <1>1, <1>3, <1>4, <1>5
  <2> QED BY <1>1, <2>1, <2>2 DEF FirstChild
<1>6. CASE 2 * k <= n /\ 2 * k + 1 <= n /\ v[a[2 * k]] > v[a[2 * k + 1]]
  <2>1. maxchild(a, v, k) = 2 * k + 1
    BY <1>1, <1>4, <1>6 DEF maxchild, cmppri
  <2>2. 2 * k \in 1 .. n /\ 2 * k + 1 \in 2 .. n /\ 2 * k + 1 # 0 /\ k < 2 * k + 1
    BY <1>1, <1>4, <1>6
  <2>3. v[a[2 * k]] \in Nat /\ v[a[2 * k + 1]] \in Nat
    BY <1>1, <1>2, <2>2
  <2>4. \A j \in 2 .. n : j \div 2 = k => v[a[2 * k + 1]] <= v[a[j]]
    BY <1>3, <1>6, <2>3
  <2> QED BY <1>1, <1>4, <2>1, <2>2, <2>4 DEF FirstChild
<1>7. CASE 2 * k <= n /\ ~(2 * k + 1 <= n /\ v[a[2 * k]] > v[a[2 * k + 1]])
  <2>1. maxchild(a, v, k) = 2 * k
    BY <1>1, <1>4, <1>7 DEF maxchild, cmppri
  <2>2. 2 * k \in 1 .. n /\ 2 * k \in 2 .. n /\ 2 * k # 0
    BY <1>1, <1>4, <1>7
  <2>4. ASSUME NEW j \in 2 .. n, j \div 2 = k PROVE v[a[2 * k]] <= v[a[j]]
    <3>1. v[a[2 * k]] \in Nat /\ v[a[j]] \in Nat
      BY <1>1, <1>2, <2>2
    <3>2. CASE j = 2 * k
      BY <3>1, <3>2
    <3>3. CASE j = 2 * k + 1
      <4>1. 2 * k + 1 <= n
        BY <1>1, <3>3
      <4> QED BY <1>7, <3>1, <3>3, <4>1
    <3> QED BY <1>3, <2>4, <3>2, <3>3
  <2> QED BY <1>1, <1>4, <2>1, <2>2, <2>4 DEF FirstChild
<1> QED
  BY <1>1, <1>4, <1>5, <1>6, <1>7

\* the rank of an index on a path that goes down
downwards(n) == [k \in 1 .. n |-> n + 1 - k]

\* where the element of i goes from k, on its way down
down_to(a, v, n, i) ==
  [k \in 1 .. n |-> IF maxchild(a, v, k) # 0 /\ v[a[i]] > v[a[maxchild(a, v, k)]]
                    THEN maxchild(a, v, k) ELSE 0]

LEMMA DownPath ==
  ASSUME NEW a, NEW n, NEW v, NEW i, Array(a, n), i \in 1 .. n, v \in [Lines -> Nat]
  PROVE  /\ Ranked(down_to(a, v, n, i), n, downwards(n))
         /\ Path(down_path(a, v, i), down_to(a, v, n, i), n, i, downwards(n))
<1> DEFINE nx == down_to(a, v, n, i)
           mc(k) == maxchild(a, v, k)
           body(g, k) == IF mc(k) # 0 /\ cmppri(v[a[i]], v[a[mc(k)]])
                         THEN {k} \cup g[mc(k)] ELSE {k}
           down == CHOOSE g : g = [k \in 1 .. n |-> body(g, k)]
<1>1. n \in Nat /\ DOMAIN a = 1 .. n
  BY DEF Array
<1>2. \A k \in 1 .. n : nx[k] = IF mc(k) # 0 /\ v[a[i]] > v[a[mc(k)]] THEN mc(k) ELSE 0
  BY DEF down_to
<1>3. \A k \in 1 .. n : mc(k) \in 0 .. n /\ (mc(k) # 0 => mc(k) \in 1 .. n /\ k < mc(k))
  <2> TAKE k \in 1 .. n
  <2>1. FirstChild(a, v, n, k, mc(k))
    BY MaxChild
  <2> HIDE DEF mc
  <2> QED BY <1>1, <2>1 DEF FirstChild
<1>4. Ranked(nx, n, downwards(n))
  <2>1. nx = [k \in 1 .. n |-> nx[k]] /\ \A k \in 1 .. n : nx[k] \in 0 .. n
    <3>1. nx = [k \in 1 .. n |-> nx[k]]
      BY DEF down_to
    <3> HIDE DEF nx, mc
    <3>2. \A k \in 1 .. n : nx[k] \in 0 .. n
      BY <1>1, <1>2, <1>3
    <3> QED BY <3>1, <3>2
  <2> HIDE DEF nx, mc
  <2>2. nx \in [1 .. n -> 0 .. n]
    BY <2>1
  <2>3. \A k \in 1 .. n : nx[k] # 0 => nx[k] \in 1 .. n /\ k < nx[k]
    BY <1>1, <1>2, <1>3
  <2>4. downwards(n) \in [1 .. n -> 1 .. n] /\ \A k \in 1 .. n : downwards(n)[k] = n + 1 - k
    BY <1>1 DEF downwards
  <2> QED BY <1>1, <2>2, <2>3, <2>4 DEF Ranked
<1>5. ASSUME NEW g, NEW k \in 1 .. n
      PROVE  body(g, k) = IF nx[k] # 0 THEN {k} \cup g[nx[k]] ELSE {k}
  <2> HIDE DEF nx, mc
  <2>1. CASE mc(k) # 0 /\ v[a[i]] > v[a[mc(k)]]
    <3>1. nx[k] = mc(k) /\ nx[k] # 0
      BY <1>2, <2>1
    <3> QED BY <2>1, <3>1 DEF cmppri
  <2>2. CASE ~(mc(k) # 0 /\ v[a[i]] > v[a[mc(k)]])
    <3>1. nx[k] = 0
      BY <1>2, <2>2
    <3> QED BY <2>2, <3>1 DEF cmppri
  <2> QED BY <2>1, <2>2
<1>6. ASSUME NEW g PROVE g = [k \in 1 .. n |-> body(g, k)] <=> Follows(g, nx, n)
  <2>1. \A k \in 1 .. n : body(g, k) = IF nx[k] # 0 THEN {k} \cup g[nx[k]] ELSE {k}
    BY <1>5
  <2> HIDE DEF body, nx
  <2> QED BY <2>1 DEF Follows
<1>7. \E g : g = [k \in 1 .. n |-> body(g, k)]
  <2>1. nx \in [1 .. n -> 0 .. n]
    BY <1>4 DEF Ranked
  <2>2. \E g : Follows(g, nx, n)
    <3> HIDE DEF nx
    <3> QED BY <1>1, <2>1, TrailExists
  <2> HIDE DEF body, nx
  <2> QED BY <1>6, <2>2
<1>8. Follows(down, nx, n)
  <2>1. down = [k \in 1 .. n |-> body(down, k)]
    <3> HIDE DEF body
    <3> QED BY <1>7
  <2> HIDE DEF body, nx, down
  <2> QED BY <1>6, <2>1
<1>9. down_path(a, v, i) = down[i]
  BY <1>1 DEF down_path
<1> HIDE DEF down, nx, body
<1>10. Path(down[i], nx, n, i, downwards(n))
  BY <1>4, <1>8, TrailPath
<1> QED
  BY <1>4, <1>9, <1>10 DEF nx

\* percolate_down restores the heap when the element of i may be after its
\* children, but not before its parent.
LEMMA PercolateDown ==
  ASSUME NEW a, NEW n, NEW v, NEW i, Array(a, n), i \in 1 .. n, v \in [Lines -> Nat],
         AlmostHeap(a, n, v, i),
         i > 1 => v[a[i \div 2]] <= v[a[i]]
  PROVE  Sifted(a, n, v, i, percolate_down(a, v, i).d, percolate_down(a, v, i).touched)
<1>1. PICK T : T = down_path(a, v, i)
  OBVIOUS
<1>2. PICK nx : nx = down_to(a, v, n, i)
  OBVIOUS
<1>3. PICK r : r = downwards(n)
  OBVIOUS
<1>4. Ranked(nx, n, r) /\ Path(T, nx, n, i, r)
  BY <1>1, <1>2, <1>3, DownPath
<1>5. PICK e : End(T, nx, r, e)
  BY <1>4, PathEnd
<1> DEFINE mc(k) == maxchild(a, v, k)
           w(j) == v[a[j]]
<1>6. /\ n \in Nat /\ T \subseteq 1 .. n /\ e \in T /\ i \in T
      /\ \A k \in 1 .. n : r[k] = n + 1 - k
      /\ a \in [1 .. n -> Lines]
  <2>1. n \in Nat /\ a \in [1 .. n -> Lines]
    BY DEF Array
  <2>2. T \subseteq 1 .. n /\ i \in T
    BY <1>4 DEF Path
  <2>3. e \in T
    BY <1>5 DEF End
  <2>4. \A k \in 1 .. n : r[k] = n + 1 - k
    BY <1>3 DEF downwards
  <2> QED BY <2>1, <2>2, <2>3, <2>4
<1>7. \A j \in T : i <= j /\ j <= e
  <2> SUFFICES ASSUME NEW j \in T PROVE i <= j /\ j <= e
    OBVIOUS
  <2>1. r[j] <= r[i]
    BY <1>4 DEF Path
  <2>2. r[e] <= r[j]
    BY <1>5 DEF End
  <2>3. r[j] = n + 1 - j /\ r[i] = n + 1 - i /\ r[e] = n + 1 - e
    BY <1>6
  <2>4. j \in Nat /\ i \in Nat /\ e \in Nat
    BY <1>6
  <2> QED BY <1>6, <2>1, <2>2, <2>3, <2>4
<1>8. Max(T) = e
  <2>1. \A x \in T : (\A y \in T : x >= y) => x = e
    BY <1>6, <1>7
  <2>2. \A y \in T : e >= y
    BY <1>6, <1>7
  <2> QED BY <1>6, <2>1, <2>2 DEF Max
<1>9. \A k \in 1 .. n : nx[k] = IF mc(k) # 0 /\ w(i) > w(mc(k)) THEN mc(k) ELSE 0
  BY <1>2 DEF down_to
<1>10. \A k \in 1 .. n : FirstChild(a, v, n, k, mc(k))
  BY MaxChild
<1> HIDE DEF mc
<1>11. \A k \in T : k # e => nx[k] = mc(k) /\ mc(k) # 0 /\ w(i) > w(mc(k)) /\ mc(k) \in T
  <2> SUFFICES ASSUME NEW k \in T, k # e
               PROVE  nx[k] = mc(k) /\ mc(k) # 0 /\ w(i) > w(mc(k)) /\ mc(k) \in T
    OBVIOUS
  <2>1. nx[k] # 0
    BY <1>5 DEF End
  <2>2. nx[k] \in T
    BY <1>4, <2>1 DEF Path
  <2> QED BY <1>6, <1>9, <2>1, <2>2
<1>12. PICK b : b = moved(a, T, nx, n, i, e)
  OBVIOUS
<1>13. percolate_down(a, v, i).d = b /\ percolate_down(a, v, i).touched = T
  <2>1. DOMAIN a = 1 .. n
    BY <1>6
  <2>2. \A k \in 1 .. n : (IF k \notin T THEN a[k] ELSE IF k = Max(T) THEN a[i] ELSE a[mc(k)])
                        = (IF k \notin T THEN a[k] ELSE IF k = e THEN a[i] ELSE a[nx[k]])
    BY <1>8, <1>11
  <2>3. percolate_down(a, v, i).d = [k \in 1 .. n |-> IF k \notin T THEN a[k]
                                                 ELSE IF k = Max(T) THEN a[i] ELSE a[mc(k)]]
    BY <1>1, <2>1 DEF percolate_down, mc
  <2>4. percolate_down(a, v, i).touched = T
    BY <1>1 DEF percolate_down
  <2> HIDE DEF Max
  <2> QED BY <1>12, <2>2, <2>3, <2>4 DEF moved
<1>14. Permuted(a, b, T, n)
  BY <1>4, <1>5, <1>12, MovedArray
<1>15. \A k \in 1 .. n : b[k] = IF k \notin T THEN a[k] ELSE IF k = e THEN a[i] ELSE a[nx[k]]
  BY <1>12 DEF moved
<1>16. \A j \in T : j # i => \E l \in T : l # e /\ mc(l) = j /\ l = j \div 2
  <2> SUFFICES ASSUME NEW j \in T, j # i PROVE \E l \in T : l # e /\ mc(l) = j /\ l = j \div 2
    OBVIOUS
  <2>1. PICK l \in T : nx[l] = j
    BY <1>4 DEF Path
  <2>2. l # e
    BY <1>5, <1>6, <2>1 DEF End
  <2>3. mc(l) = j /\ mc(l) # 0
    BY <1>11, <2>1, <2>2
  <2>4. mc(l) \div 2 = l
    BY <1>6, <1>10, <2>3 DEF FirstChild
  <2> QED BY <2>2, <2>3, <2>4
<1>17. ASSUME NEW k \in 2 .. n PROVE v[b[k \div 2]] <= v[b[k]]
  <2> DEFINE p == k \div 2
  <2>1. p \in 1 .. n /\ p < k /\ k \in 1 .. n
    BY <1>6, Parent
  <2>2. \A j \in 1 .. n : w(j) \in Nat
    BY <1>6
  <2>3. k # i /\ p # i => w(p) <= w(k)
    BY DEF AlmostHeap
  <2>4. CASE k \notin T /\ p \notin T
    BY <1>6, <1>15, <2>1, <2>3, <2>4
  <2>5. CASE k \in T /\ k = i
    <3>1. p \notin T
      BY <1>6, <1>7, <2>1, <2>5
    <3>2. b[p] = a[p] /\ i > 1
      BY <1>6, <1>15, <2>1, <2>5, <3>1
    <3>3. CASE k = e
      <4>1. b[k] = a[i]
        BY <1>15, <2>1, <2>5, <3>3
      <4> QED BY <2>5, <3>2, <4>1
    <3>4. CASE k # e
      <4>1. mc(k) # 0 /\ b[k] = a[mc(k)]
        BY <1>11, <1>15, <2>1, <2>5, <3>4
      <4>2. mc(k) \in 2 .. n /\ mc(k) \div 2 = i
        BY <1>10, <2>1, <2>5, <4>1 DEF FirstChild
      <4>3. w(i \div 2) <= w(mc(k))
        BY <3>2, <4>2 DEF AlmostHeap
      <4> QED BY <2>5, <3>2, <4>1, <4>3
    <3> QED BY <3>3, <3>4
  <2>6. CASE k \in T /\ k # i
    <3>1. p \in T /\ p # e /\ mc(p) = k
      BY <1>16, <2>6
    <3>2. b[p] = a[k] /\ w(i) > w(k)
      BY <1>11, <1>15, <2>1, <3>1
    <3>3. CASE k = e
      <4>1. b[k] = a[i] /\ w(i) \in Nat /\ w(k) \in Nat
        BY <1>6, <1>15, <2>1, <2>2, <2>6, <3>3
      <4> QED BY <3>2, <4>1
    <3>4. CASE k # e
      <4>1. mc(k) # 0 /\ b[k] = a[mc(k)]
        BY <1>11, <1>15, <2>1, <2>6, <3>4
      <4>2. mc(k) \in 2 .. n /\ mc(k) \div 2 = k /\ k < mc(k)
        BY <1>10, <2>1, <4>1 DEF FirstChild
      <4>3. mc(k) # i
        <5>1. i <= k /\ i \in Nat /\ k \in Nat
          BY <1>6, <1>7, <2>1, <2>6
        <5> QED BY <1>6, <4>2, <5>1
      <4>4. w(k) <= w(mc(k))
        BY <2>6, <4>2, <4>3 DEF AlmostHeap
      <4> QED BY <3>2, <4>1, <4>4
    <3> QED BY <3>3, <3>4
  <2>7. CASE k \notin T /\ p \in T
    <3>1. b[k] = a[k] /\ k # i /\ w(k) \in Nat
      BY <1>6, <1>15, <2>1, <2>2, <2>7
    <3>2. FirstChild(a, v, n, p, mc(p))
      BY <1>10, <2>1
    <3>3. mc(p) # 0 /\ w(mc(p)) <= w(k) /\ mc(p) \in 1 .. n
      <4>1. mc(p) # 0
        BY <3>2 DEF FirstChild
      <4>2. mc(p) \in 2 .. n /\ w(mc(p)) <= w(k)
        BY <3>2, <4>1 DEF FirstChild
      <4> QED BY <1>6, <4>1, <4>2
    <3>4. CASE p = e
      <4>1. b[p] = a[i]
        BY <1>15, <2>1, <2>7, <3>4
      <4>2. nx[p] = 0
        BY <1>5, <3>4 DEF End
      <4>3. ~(w(i) > w(mc(p)))
        BY <1>9, <2>1, <3>3, <4>2
      <4>4. w(i) \in Nat /\ w(mc(p)) \in Nat
        BY <2>2, <3>3
      <4>5. w(i) <= w(k)
        <5> HIDE DEF w
        <5> QED BY <3>1, <3>3, <4>3, <4>4
      <4> QED BY <3>1, <4>1, <4>5
    <3>5. CASE p # e
      <4>1. b[p] = a[mc(p)]
        BY <1>11, <1>15, <2>1, <2>7, <3>5
      <4> QED BY <3>1, <3>3, <4>1
    <3> QED BY <3>4, <3>5
  <2> QED BY <2>4, <2>5, <2>6, <2>7
<1>18. \A k \in 1 .. n : k \notin T => b[k] = a[k]
  BY <1>15
<1>19. Sifted(a, n, v, i, b, T)
  BY <1>6, <1>14, <1>17, <1>18 DEF Sifted, Heap
<1> QED
  BY <1>13, <1>19

\* a is a heap if the element of i has priority old
HeapBut(a, n, v, i, old) ==
  /\ \A k \in 2 .. n : k # i /\ k \div 2 # i => v[a[k \div 2]] <= v[a[k]]
  /\ i > 1 => v[a[i \div 2]] <= old
  /\ \A k \in 2 .. n : k \div 2 = i => old <= v[a[k]]

\* When one element's priority changes, or another element takes its place,
\* pqueue_change_priority and pqueue_remove sift it in the right direction.
LEMMA SiftEither ==
  ASSUME NEW a, NEW n, NEW v, NEW i, NEW old, Array(a, n), i \in 1 .. n, v \in [Lines -> Nat],
         old \in Nat, HeapBut(a, n, v, i, old)
  PROVE  Sifted(a, n, v, i, sift(a, v, i, old, v[a[i]]).d, sift(a, v, i, old, v[a[i]]).touched)
<1>1. n \in Nat /\ i \in Nat /\ \A k \in 1 .. n : v[a[k]] \in Nat
  BY DEF Array
<1>2. AlmostHeap(a, n, v, i)
  <2>1. \A k \in 2 .. n : k # i /\ k \div 2 # i => v[a[k \div 2]] <= v[a[k]]
    BY DEF HeapBut
  <2>2. ASSUME i > 1, NEW k \in 2 .. n, k \div 2 = i PROVE v[a[i \div 2]] <= v[a[k]]
    <3>1. i \div 2 \in 1 .. n /\ k \in 1 .. n
      BY <1>1, <2>2, Parent
    <3>2. v[a[i \div 2]] <= old /\ old <= v[a[k]]
      BY <2>2 DEF HeapBut
    <3>3. v[a[i \div 2]] \in Nat /\ v[a[k]] \in Nat
      BY <1>1, <3>1
    <3> QED BY <3>2, <3>3
  <2> QED BY <2>1, <2>2 DEF AlmostHeap
<1>3. CASE old > v[a[i]]
  <2>1. sift(a, v, i, old, v[a[i]]) = bubble_up(a, v, i)
    BY <1>3 DEF sift, cmppri
  <2>2. \A k \in 2 .. n : k \div 2 = i => v[a[i]] <= v[a[k]]
    <3> SUFFICES ASSUME NEW k \in 2 .. n, k \div 2 = i PROVE v[a[i]] <= v[a[k]]
      OBVIOUS
    <3>1. old <= v[a[k]] /\ v[a[k]] \in Nat /\ v[a[i]] \in Nat
      BY <1>1 DEF HeapBut
    <3> QED BY <1>3, <3>1
  <2> QED BY <1>2, <2>1, <2>2, BubbleUp
<1>4. CASE ~(old > v[a[i]])
  <2>1. sift(a, v, i, old, v[a[i]]) = percolate_down(a, v, i)
    BY <1>4 DEF sift, cmppri
  <2>2. i > 1 => v[a[i \div 2]] <= v[a[i]]
    <3> SUFFICES ASSUME i > 1 PROVE v[a[i \div 2]] <= v[a[i]]
      OBVIOUS
    <3>1. i \div 2 \in 1 .. n
      BY <1>1, Parent
    <3>2. v[a[i \div 2]] <= old /\ v[a[i \div 2]] \in Nat /\ v[a[i]] \in Nat
      BY <1>1, <3>1 DEF HeapBut
    <3> QED BY <1>4, <3>2
  <2> QED BY <1>2, <2>1, <2>2, PercolateDown
<1> QED
  BY <1>3, <1>4

-----------------------------------------------------------------------------
(* Positions.                                                              *)

lines(a, n) == {a[k] : k \in 1 .. n}

\* p gives every line of the array its index
Placed(a, n, p) == p \in [Lines -> Nat] /\ \A k \in 1 .. n : p[a[k]] = k

\* p and q agree on the lines that are not in the array
Elsewhere(a, n, p, q) == \A m \in Lines : m \notin lines(a, n) => q[m] = p[m]

\* p gives every line of the array its index, but for the one at i
PlacedBut(a, n, p, i) == p \in [Lines -> Nat] /\ \A k \in 1 .. n : k # i => p[a[k]] = k

\* The calls of setpos during a sift leave every line with its index.
LEMMA SetPos ==
  ASSUME NEW a, NEW n, NEW v, NEW i, NEW r, NEW l, Array(a, n),
         Sifted(a, n, v, i, r.d, r.touched), PlacedBut(a, n, pos, i)
  PROVE  Placed(r.d, n, set_pos(r, l)) /\ Elsewhere(a, n, pos, set_pos(r, l))
<1>1. PICK b : b = r.d
  OBVIOUS
<1>2. PICK T : T = r.touched
  OBVIOUS
<1>3. Array(b, n) /\ lines(b, n) = lines(a, n) /\ {b[k] : k \in T} = {a[k] : k \in T}
  BY <1>1, <1>2 DEF Sifted, Permuted, lines
<1>4. T \subseteq 1 .. n /\ i \in T /\ \A k \in 1 .. n : k \notin T => b[k] = a[k]
  BY <1>1, <1>2 DEF Sifted
<1>5. /\ n \in Nat /\ b \in [1 .. n -> Lines] /\ a \in [1 .. n -> Lines]
      /\ \A j, k \in 1 .. n : b[j] = b[k] => j = k
      /\ \A j, k \in 1 .. n : a[j] = a[k] => j = k
      /\ pos \in [Lines -> Nat] /\ \A k \in 1 .. n : k # i => pos[a[k]] = k
  BY <1>3 DEF Array, PlacedBut
<1>6. PICK q : q = set_pos(r, l)
  OBVIOUS
<1>7. q = [m \in Lines |-> IF \E k \in T : b[k] = m THEN CHOOSE k \in T : b[k] = m ELSE pos[m]]
  BY <1>1, <1>2, <1>6 DEF set_pos
<1>8. \A k \in T : q[b[k]] = k
  <2> TAKE k \in T
  <2>1. b[k] \in Lines
    BY <1>4, <1>5
  <2>2. q[b[k]] = CHOOSE j \in T : b[j] = b[k]
    BY <1>7, <2>1
  <2>3. \A j \in T : b[j] = b[k] => j = k
    BY <1>4, <1>5
  <2> QED BY <2>2, <2>3
<1>9. \A k \in 1 .. n : k \notin T => q[b[k]] = k
  <2> SUFFICES ASSUME NEW k \in 1 .. n, k \notin T PROVE q[b[k]] = k
    OBVIOUS
  <2>1. ~ \E j \in T : b[j] = b[k]
    BY <1>4, <1>5
  <2>2. b[k] \in Lines /\ b[k] = a[k] /\ k # i
    BY <1>4, <1>5
  <2>3. q[b[k]] = pos[b[k]]
    BY <1>7, <2>1, <2>2
  <2> QED BY <1>5, <2>2, <2>3
<1>10. q \in [Lines -> Nat]
  <2>1. \A m \in Lines : q[m] \in Nat
    <3> TAKE m \in Lines
    <3>1. CASE \E k \in T : b[k] = m
      <4>1. PICK k \in T : b[k] = m
        BY <3>1
      <4>2. q[m] = k /\ k \in Nat
        BY <1>4, <1>8, <4>1
      <4> QED BY <4>2
    <3>2. CASE ~ \E k \in T : b[k] = m
      BY <1>5, <1>7, <3>2
    <3> QED BY <3>1, <3>2
  <2>2. q = [m \in Lines |-> q[m]]
    BY <1>7
  <2> QED BY <2>1, <2>2
<1>11. Placed(b, n, q)
  BY <1>8, <1>9, <1>10 DEF Placed
<1>12. Elsewhere(a, n, pos, q)
  <2> SUFFICES ASSUME NEW m \in Lines, m \notin lines(a, n) PROVE q[m] = pos[m]
    BY DEF Elsewhere
  <2>1. ~ \E k \in T : b[k] = m
    BY <1>3, <1>4 DEF lines
  <2> QED BY <1>7, <2>1
<1> QED
  BY <1>1, <1>6, <1>11, <1>12

-----------------------------------------------------------------------------
(* The invariant.                                                          *)

\* the array is a heap of different lines, each at the index its position says,
\* and every other line has position 0
Queued(a, n, v, p) ==
  /\ Array(a, n) /\ v \in [Lines -> Nat] /\ Heap(a, n, v)
  /\ Placed(a, n, p)
  /\ \A m \in Lines : m \notin lines(a, n) => p[m] = 0

IInv == Queued(d, Len(d), vpc, pos)

\* A step to a queue leaves the invariant.
LEMMA Arrived ==
  ASSUME NEW b, NEW n, NEW v, NEW q, Queued(b, n, v, q), d' = b, vpc' = v, pos' = q
  PROVE  IInv' /\ members' = lines(b, n)
<1>1. Array(b, n)
  BY DEF Queued
<1>2. Len(b) = n /\ DOMAIN b = 1 .. n
  BY <1>1, ArraySeq
<1>3. Queued(d', Len(d'), vpc', pos')
  BY <1>2
<1>4. ToSet(b) = lines(b, n)
  BY <1>2 DEF ToSet, lines
<1> QED
  BY <1>3, <1>4 DEF IInv, members

\* What the invariant says in the terms of the model.
LEMMA InvFacts ==
  ASSUME IInv
  PROVE  /\ Len(d) \in Nat /\ d \in [1 .. Len(d) -> Lines] /\ d \in Seq(Lines)
         /\ Array(d, Len(d)) /\ members = lines(d, Len(d))
         /\ \A j, k \in 1 .. Len(d) : d[j] = d[k] => j = k
         /\ vpc \in [Lines -> Nat] /\ pos \in [Lines -> Nat]
         /\ Heap(d, Len(d), vpc)
         /\ \A k \in 1 .. Len(d) : pos[d[k]] = k
         /\ \A m \in Lines : IF pos[m] = 0 THEN m \notin members
                             ELSE pos[m] \in 1 .. Len(d) /\ d[pos[m]] = m
<1> DEFINE n == Len(d)
<1>1. Array(d, n) /\ Heap(d, n, vpc) /\ Placed(d, n, pos) /\ vpc \in [Lines -> Nat]
  BY DEF IInv, Queued
<1>2. \A m \in Lines : m \notin lines(d, n) => pos[m] = 0
  BY DEF IInv, Queued
<1>3. d \in Seq(Lines) /\ DOMAIN d = 1 .. n
  BY <1>1, ArraySeq
<1>4. members = lines(d, n)
  BY <1>3 DEF members, ToSet, lines
<1>5. /\ n \in Nat /\ d \in [1 .. n -> Lines]
      /\ \A j, k \in 1 .. n : d[j] = d[k] => j = k
  BY <1>1 DEF Array
<1>6. pos \in [Lines -> Nat] /\ \A k \in 1 .. n : pos[d[k]] = k
  BY <1>1 DEF Placed
<1>7. ASSUME NEW m \in Lines
      PROVE  IF pos[m] = 0 THEN m \notin members ELSE pos[m] \in 1 .. n /\ d[pos[m]] = m
  <2>1. CASE m \in lines(d, n)
    <3>1. PICK k \in 1 .. n : m = d[k]
      BY <2>1 DEF lines
    <3>2. pos[m] = k /\ k # 0
      BY <1>5, <1>6, <3>1
    <3> QED BY <3>1, <3>2
  <2>2. CASE m \notin lines(d, n)
    BY <1>2, <1>4, <2>2
  <2> QED BY <2>1, <2>2
<1> HIDE DEF n
<1>8. /\ n \in Nat /\ d \in [1 .. n -> Lines] /\ d \in Seq(Lines)
      /\ Array(d, n) /\ members = lines(d, n)
      /\ \A j, k \in 1 .. n : d[j] = d[k] => j = k
      /\ vpc \in [Lines -> Nat] /\ pos \in [Lines -> Nat]
      /\ Heap(d, n, vpc)
      /\ \A k \in 1 .. n : pos[d[k]] = k
      /\ \A m \in Lines : IF pos[m] = 0 THEN m \notin members
                          ELSE pos[m] \in 1 .. n /\ d[pos[m]] = m
  BY <1>1, <1>3, <1>4, <1>5, <1>6, <1>7
<1> QED
  BY <1>8 DEF n

LEMMA PriNat == Pri \subseteq Nat
BY PqueueAssumption DEF Pri

\* pqueue_insert: the line joins the queue.
LEMMA InsertStep ==
  ASSUME IInv, NEW l \in Lines, NEW x \in Pri, pqueue_insert(l, x)
  PROVE  IInv' /\ l \notin members /\ members' = members \cup {l}
<1>1. PICK n : n = Len(d)
  OBVIOUS
<1>2. /\ n \in Nat /\ d \in [1 .. n -> Lines] /\ d \in Seq(Lines)
      /\ members = lines(d, n)
      /\ \A j, k \in 1 .. n : d[j] = d[k] => j = k
      /\ vpc \in [Lines -> Nat] /\ pos \in [Lines -> Nat]
      /\ \A k \in 1 .. n : pos[d[k]] = k
      /\ \A m \in Lines : m \notin lines(d, n) => pos[m] = 0
  <2>1. \A m \in Lines : m \notin lines(d, n) => pos[m] = 0
    BY <1>1 DEF IInv, Queued
  <2> QED BY <1>1, <2>1, InvFacts
<1>3. \A k \in 2 .. n : vpc[d[k \div 2]] <= vpc[d[k]]
  BY <1>1, InvFacts DEF Heap
<1>4. l \notin members
  BY InvFacts DEF pqueue_insert
<1>5. PICK a : a = Append(d, l)
  OBVIOUS
<1>6. PICK v : v = [vpc EXCEPT ![l] = x]
  OBVIOUS
<1>7. v \in [Lines -> Nat] /\ \A m \in Lines : m # l => v[m] = vpc[m]
  BY <1>2, <1>6, PriNat
<1>8. a \in [1 .. n + 1 -> Lines] /\ a[n + 1] = l /\ \A k \in 1 .. n : a[k] = d[k]
  <2>1. /\ a \in Seq(Lines) /\ Len(a) = n + 1 /\ a[n + 1] = l
        /\ \A k \in 1 .. n : a[k] = d[k]
    BY <1>1, <1>2, <1>5, AppendProperties
  <2>2. a \in [1 .. n + 1 -> Lines]
    BY <1>2, <2>1
  <2> QED BY <2>1, <2>2
<1>9. \A k \in 1 .. n : d[k] # l
  BY <1>2, <1>4 DEF lines
<1>10. Array(a, n + 1)
  <2>1. ASSUME NEW j \in 1 .. n + 1, NEW k \in 1 .. n + 1, a[j] = a[k] PROVE j = k
    BY <1>2, <1>8, <1>9, <2>1
  <2> QED BY <1>2, <1>8, <2>1 DEF Array
<1>11. AlmostHeap(a, n + 1, v, n + 1)
  <2>1. ASSUME NEW k \in 2 .. n + 1, k # n + 1 PROVE v[a[k \div 2]] <= v[a[k]]
    <3>1. k \in 2 .. n
      BY <1>2, <2>1
    <3>2. k \div 2 \in 1 .. n /\ k \in 1 .. n
      BY <1>2, <3>1, Parent
    <3>3. v[a[k \div 2]] = vpc[d[k \div 2]] /\ v[a[k]] = vpc[d[k]]
      BY <1>2, <1>7, <1>8, <1>9, <3>2
    <3> QED BY <1>3, <3>1, <3>3
  <2>2. ASSUME NEW k \in 2 .. n + 1 PROVE k \div 2 # n + 1
    BY <1>2, Parent
  <2> QED BY <2>1, <2>2 DEF AlmostHeap
<1>12. \A k \in 2 .. n + 1 : k \div 2 = n + 1 => v[a[n + 1]] <= v[a[k]]
  BY <1>2, Parent
<1>13. PICK r : r = bubble_up(a, v, n + 1)
  OBVIOUS
<1>14. PICK m : m = n + 1
  OBVIOUS
<1>15. Sifted(a, m, v, m, r.d, r.touched) /\ Array(a, m)
  <2>1. m \in 1 .. m
    BY <1>2, <1>14
  <2>2. Sifted(a, m, v, m, bubble_up(a, v, m).d, bubble_up(a, v, m).touched)
    BY <1>7, <1>10, <1>11, <1>12, <1>14, <2>1, BubbleUp
  <2> QED BY <1>10, <1>13, <1>14, <2>2
<1>16. PlacedBut(a, m, pos, m)
  BY <1>2, <1>8, <1>14 DEF PlacedBut
<1>17. Placed(r.d, m, set_pos(r, l)) /\ Elsewhere(a, m, pos, set_pos(r, l))
  BY <1>15, <1>16, SetPos
<1>18. Array(r.d, m) /\ Heap(r.d, m, v) /\ lines(r.d, m) = lines(a, m)
  BY <1>15 DEF Sifted, Permuted, lines
<1>19. lines(a, m) = lines(d, n) \cup {l}
  <2>1. \A k \in 1 .. m : k \in 1 .. n \/ k = m
    BY <1>2, <1>14
  <2>2. \A k \in 1 .. n : k \in 1 .. m
    BY <1>2, <1>14
  <2>3. m \in 1 .. m /\ a[m] = l
    BY <1>2, <1>8, <1>14
  <2>4. lines(a, m) \subseteq lines(d, n) \cup {l}
    BY <1>8, <2>1, <2>3 DEF lines
  <2>5. lines(d, n) \cup {l} \subseteq lines(a, m)
    BY <1>8, <2>2, <2>3 DEF lines
  <2> QED BY <2>4, <2>5
<1>20. \A y \in Lines : y \notin lines(r.d, m) => set_pos(r, l)[y] = 0
  BY <1>2, <1>17, <1>18, <1>19 DEF Elsewhere
<1>21. Queued(r.d, m, v, set_pos(r, l))
  BY <1>7, <1>17, <1>18, <1>20 DEF Queued
<1>22. d' = r.d /\ vpc' = v /\ pos' = set_pos(r, l)
  BY <1>1, <1>5, <1>6, <1>13 DEF pqueue_insert
<1>23. IInv' /\ members' = lines(r.d, m)
  BY <1>21, <1>22, Arrived
<1> QED
  BY <1>2, <1>4, <1>18, <1>19, <1>23

\* mark_page_invalid on a queued line: the same lines stay queued.
LEMMA ChangeStep ==
  ASSUME IInv, NEW l \in Lines, NEW x \in Pri, pqueue_change_priority(l, x)
  PROVE  IInv' /\ l \in members /\ members' = members
<1>1. PICK n : n = Len(d)
  OBVIOUS
<1>2. /\ n \in Nat /\ d \in [1 .. n -> Lines] /\ Array(d, n)
      /\ members = lines(d, n)
      /\ \A j, k \in 1 .. n : d[j] = d[k] => j = k
      /\ vpc \in [Lines -> Nat] /\ pos \in [Lines -> Nat]
      /\ \A k \in 1 .. n : pos[d[k]] = k
      /\ \A m \in Lines : m \notin lines(d, n) => pos[m] = 0
  <2>1. \A m \in Lines : m \notin lines(d, n) => pos[m] = 0
    BY <1>1 DEF IInv, Queued
  <2> QED BY <1>1, <2>1, InvFacts
<1>3. \A k \in 2 .. n : vpc[d[k \div 2]] <= vpc[d[k]]
  BY <1>1, InvFacts DEF Heap
<1>4. PICK i : i = pos[l]
  OBVIOUS
<1>5. i \in 1 .. n /\ d[i] = l
  BY <1>1, <1>4, InvFacts DEF pqueue_change_priority
<1>6. PICK v : v = [vpc EXCEPT ![l] = x]
  OBVIOUS
<1>7. v \in [Lines -> Nat] /\ v[l] = x /\ \A m \in Lines : m # l => v[m] = vpc[m]
  BY <1>2, <1>6, PriNat
<1>8. \A k \in 1 .. n : k # i => v[d[k]] = vpc[d[k]]
  BY <1>2, <1>5, <1>7
<1>9. HeapBut(d, n, v, i, vpc[l])
  <2>1. ASSUME NEW k \in 2 .. n, k # i, k \div 2 # i PROVE v[d[k \div 2]] <= v[d[k]]
    <3>1. k \div 2 \in 1 .. n /\ k \in 1 .. n
      BY <1>2, Parent
    <3> QED BY <1>3, <1>8, <2>1, <3>1
  <2>2. ASSUME i > 1 PROVE v[d[i \div 2]] <= vpc[l]
    <3>1. i \in 2 .. n
      BY <1>2, <1>5, <2>2
    <3>2. i \div 2 \in 1 .. n /\ i \div 2 # i
      BY <1>2, <3>1, Parent
    <3> QED BY <1>3, <1>5, <1>8, <3>1, <3>2
  <2>3. ASSUME NEW k \in 2 .. n, k \div 2 = i PROVE vpc[l] <= v[d[k]]
    <3>1. k \in 1 .. n /\ k # i
      BY <1>2, <2>3, Parent
    <3> QED BY <1>3, <1>5, <1>8, <2>3, <3>1
  <2> QED BY <2>1, <2>2, <2>3 DEF HeapBut
<1>10. PICK r : r = sift(d, v, i, vpc[l], v[d[i]])
  OBVIOUS
<1>11. Sifted(d, n, v, i, r.d, r.touched)
  <2>1. vpc[l] \in Nat
    BY <1>2
  <2> QED BY <1>2, <1>5, <1>7, <1>9, <1>10, <2>1, SiftEither
<1>12. PlacedBut(d, n, pos, i)
  BY <1>2 DEF PlacedBut
<1>13. Placed(r.d, n, set_pos(r, l)) /\ Elsewhere(d, n, pos, set_pos(r, l))
  BY <1>2, <1>11, <1>12, SetPos
<1>14. Array(r.d, n) /\ Heap(r.d, n, v) /\ lines(r.d, n) = lines(d, n)
  BY <1>11 DEF Sifted, Permuted, lines
<1>15. \A y \in Lines : y \notin lines(r.d, n) => set_pos(r, l)[y] = 0
  BY <1>2, <1>13, <1>14 DEF Elsewhere
<1>16. Queued(r.d, n, v, set_pos(r, l))
  BY <1>7, <1>13, <1>14, <1>15 DEF Queued
<1>17. d' = r.d /\ vpc' = v /\ pos' = set_pos(r, l)
  BY <1>4, <1>5, <1>6, <1>7, <1>10 DEF pqueue_change_priority
<1>18. IInv' /\ members' = lines(r.d, n)
  BY <1>16, <1>17, Arrived
<1>19. l \in members
  BY <1>2, <1>5 DEF lines
<1> QED
  BY <1>2, <1>14, <1>18, <1>19

LEMMA FrontIs ==
  ASSUME NEW s \in Seq(Lines), NEW n \in Nat, Len(s) = n + 1
  PROVE  /\ Front(s) \in Seq(Lines) /\ Len(Front(s)) = n
         /\ Front(s) \in [1 .. n -> Lines] /\ \A k \in 1 .. n : Front(s)[k] = s[k]
<1>1. Front(s) = SubSeq(s, 1, n)
  BY DEF Front
<1>2. \A k \in 1 .. n : s[k] \in Lines
  OBVIOUS
<1>3. /\ SubSeq(s, 1, n) \in Seq(Lines)
      /\ Len(SubSeq(s, 1, n)) = IF 1 <= n THEN n - 1 + 1 ELSE 0
      /\ \A k \in 1 .. n - 1 + 1 : SubSeq(s, 1, n)[k] = s[1 + k - 1]
  <2>1. 1 \in Int /\ n \in Int
    OBVIOUS
  <2> QED BY <1>2, <2>1, SubSeqProperties
<1> HIDE DEF Front
<1>4. PICK f : f = Front(s)
  OBVIOUS
<1>5. f \in Seq(Lines) /\ Len(f) = n
  BY <1>1, <1>3, <1>4
<1>6. \A k \in 1 .. n : f[k] = s[k]
  <2> TAKE k \in 1 .. n
  <2>1. k \in 1 .. n - 1 + 1 /\ 1 + k - 1 = k
    OBVIOUS
  <2> QED BY <1>1, <1>3, <1>4, <2>1
<1>7. f \in [1 .. n -> Lines]
  BY <1>5
<1> QED
  BY <1>4, <1>5, <1>6, <1>7

\* The array of m lines that is left when the last line has taken the place i.
Replaced(a, m, i) ==
  /\ Array(a, m) /\ i \in 1 .. m
  /\ HeapBut(a, m, vpc, i, vpc[d[i]])
  /\ PlacedBut(a, m, pos, i)
  /\ lines(a, m) = members \ {d[i]}

LEMMA LastReplaces ==
  ASSUME IInv, NEW m \in Nat, Len(d) = m + 1, NEW i \in 1 .. m
  PROVE  Replaced(Front([d EXCEPT ![i] = Last(d)]), m, i)
<1>1. PICK n : n = m + 1
  OBVIOUS
<1>2. /\ n \in Nat /\ d \in [1 .. n -> Lines] /\ d \in Seq(Lines) /\ Len(d) = n
      /\ members = lines(d, n)
      /\ \A j, k \in 1 .. n : d[j] = d[k] => j = k
      /\ vpc \in [Lines -> Nat] /\ pos \in [Lines -> Nat]
      /\ \A k \in 1 .. n : pos[d[k]] = k
  BY <1>1, InvFacts
<1>3. \A k \in 2 .. n : vpc[d[k \div 2]] <= vpc[d[k]]
  BY <1>2, InvFacts DEF Heap
<1>4. PICK s : s = [d EXCEPT ![i] = Last(d)]
  OBVIOUS
<1>5. Last(d) = d[n] /\ d[n] \in Lines /\ n \in 1 .. n /\ i \in 1 .. n /\ i # n
  BY <1>1, <1>2 DEF Last
<1>6. s \in [1 .. n -> Lines] /\ \A k \in 1 .. n : s[k] = IF k = i THEN d[n] ELSE d[k]
  BY <1>2, <1>4, <1>5
<1>7. s \in Seq(Lines) /\ Len(s) = m + 1
  <2>1. s \in Seq(Lines) /\ DOMAIN s = 1 .. n
    BY <1>2, <1>6
  <2>2. Len(s) = n
    BY <1>2, <2>1
  <2> QED BY <1>1, <2>1, <2>2
<1>8. PICK a : a = Front(s)
  OBVIOUS
<1>9. a \in [1 .. m -> Lines] /\ \A k \in 1 .. m : a[k] = IF k = i THEN d[n] ELSE d[k]
  <2>1. \A k \in 1 .. m : k \in 1 .. n
    BY <1>1
  <2>2. a \in [1 .. m -> Lines] /\ \A k \in 1 .. m : a[k] = s[k]
    BY <1>7, <1>8, FrontIs
  <2> QED BY <1>6, <2>1, <2>2
<1>10. \A k \in 1 .. m : k \in 1 .. n /\ k # n
  BY <1>1
<1>11. Array(a, m)
  <2>1. ASSUME NEW j \in 1 .. m, NEW k \in 1 .. m, a[j] = a[k] PROVE j = k
    <3>1. /\ j \in 1 .. n /\ k \in 1 .. n /\ j # n /\ k # n /\ n \in 1 .. n
          /\ \A h \in 1 .. n : h # n => d[h] # d[n]
      BY <1>2, <1>5, <1>10
    <3>2. a[j] = (IF j = i THEN d[n] ELSE d[j]) /\ a[k] = IF k = i THEN d[n] ELSE d[k]
      BY <1>9
    <3>3. CASE j = i \/ k = i
      BY <2>1, <3>1, <3>2, <3>3
    <3>4. CASE j # i /\ k # i
      <4>1. d[j] = d[k]
        BY <2>1, <3>2, <3>4
      <4> QED BY <1>2, <3>1, <4>1
    <3> QED BY <3>3, <3>4
  <2> QED BY <1>9, <2>1 DEF Array
<1>12. HeapBut(a, m, vpc, i, vpc[d[i]])
  <2>0. \A k \in 1 .. m : k # i => a[k] = d[k]
    BY <1>9
  <2>1. ASSUME NEW k \in 2 .. m PROVE k \in 2 .. n /\ k \div 2 \in 1 .. m /\ k \in 1 .. m /\ k \div 2 < k
    BY <1>1, Parent
  <2>2. ASSUME NEW k \in 2 .. m, k # i, k \div 2 # i PROVE vpc[a[k \div 2]] <= vpc[a[k]]
    BY <1>3, <2>0, <2>1, <2>2
  <2>3. ASSUME i > 1 PROVE vpc[a[i \div 2]] <= vpc[d[i]]
    <3>1. i \in 2 .. m
      BY <2>3
    <3>2. i \in 2 .. n /\ i \div 2 \in 1 .. m /\ i \div 2 # i
      BY <2>1, <3>1
    <3> QED BY <1>3, <2>0, <3>2
  <2>4. ASSUME NEW k \in 2 .. m, k \div 2 = i PROVE vpc[d[i]] <= vpc[a[k]]
    <3>1. k \in 2 .. n /\ k \in 1 .. m /\ k # i
      BY <2>1, <2>4
    <3> QED BY <1>3, <2>0, <2>4, <3>1
  <2> QED BY <2>2, <2>3, <2>4 DEF HeapBut
<1>13. PlacedBut(a, m, pos, i)
  BY <1>2, <1>9, <1>10 DEF PlacedBut
<1>14. lines(a, m) = members \ {d[i]}
  <2>1. ASSUME NEW k \in 1 .. m PROVE a[k] \in members \ {d[i]}
    <3>1. k \in 1 .. n /\ k # n
      BY <1>10
    <3>2. CASE k = i
      <4>1. a[k] = d[n]
        BY <1>9, <3>2
      <4>2. d[n] # d[i] /\ d[n] \in members
        BY <1>2, <1>5 DEF lines
      <4> QED BY <4>1, <4>2
    <3>3. CASE k # i
      <4>1. a[k] = d[k]
        BY <1>9, <3>3
      <4>2. d[k] # d[i] /\ d[k] \in members
        BY <1>2, <1>5, <3>1, <3>3 DEF lines
      <4> QED BY <4>1, <4>2
    <3> QED BY <3>2, <3>3
  <2>2. ASSUME NEW k \in 1 .. n, d[k] # d[i] PROVE d[k] \in lines(a, m)
    <3>1. CASE k = n
      BY <1>9, <3>1 DEF lines
    <3>2. CASE k # n
      <4>1. k \in 1 .. m /\ k # i
        BY <1>1, <2>2, <3>2
      <4> QED BY <1>9, <4>1 DEF lines
    <3> QED BY <3>1, <3>2
  <2>3. lines(a, m) \subseteq members \ {d[i]}
    BY <2>1 DEF lines
  <2>4. members \ {d[i]} \subseteq lines(a, m)
    <3> SUFFICES ASSUME NEW y \in members, y # d[i] PROVE y \in lines(a, m)
      OBVIOUS
    <3>1. PICK k \in 1 .. n : y = d[k]
      BY <1>2 DEF lines
    <3> QED BY <2>2, <3>1
  <2> QED BY <2>3, <2>4
<1> QED
  BY <1>4, <1>8, <1>11, <1>12, <1>13, <1>14 DEF Replaced

\* The array of m lines that is left when the last one goes.
Shortened(a, m) ==
  /\ Array(a, m) /\ Heap(a, m, vpc) /\ Placed(a, m, pos)
  /\ lines(a, m) = members \ {d[m + 1]}

LEMMA LastGoes ==
  ASSUME IInv, NEW m \in Nat, Len(d) = m + 1
  PROVE  Shortened(Front(d), m)
<1>1. PICK n : n = m + 1
  OBVIOUS
<1>2. /\ n \in Nat /\ d \in [1 .. n -> Lines] /\ d \in Seq(Lines)
      /\ members = lines(d, n)
      /\ \A j, k \in 1 .. n : d[j] = d[k] => j = k
      /\ vpc \in [Lines -> Nat] /\ pos \in [Lines -> Nat]
      /\ \A k \in 1 .. n : pos[d[k]] = k
  BY <1>1, InvFacts
<1>3. \A k \in 2 .. n : vpc[d[k \div 2]] <= vpc[d[k]]
  BY <1>1, InvFacts DEF Heap
<1>4. PICK a : a = Front(d)
  OBVIOUS
<1>5. a \in [1 .. m -> Lines] /\ \A k \in 1 .. m : a[k] = d[k]
  BY <1>2, <1>4, FrontIs
<1>6. \A k \in 1 .. m : k \in 1 .. n /\ k # n
  BY <1>1
<1>7. Array(a, m) /\ Placed(a, m, pos)
  BY <1>2, <1>5, <1>6 DEF Array, Placed
<1>8. Heap(a, m, vpc)
  <2> SUFFICES ASSUME NEW k \in 2 .. m PROVE vpc[a[k \div 2]] <= vpc[a[k]]
    BY DEF Heap
  <2>1. k \in 2 .. n /\ k \div 2 \in 1 .. m /\ k \in 1 .. m
    BY <1>1, Parent
  <2> QED BY <1>3, <1>5, <2>1
<1>9. lines(a, m) = members \ {d[n]}
  <2>1. ASSUME NEW k \in 1 .. m PROVE a[k] \in members \ {d[n]}
    <3>1. n \in 1 .. n
      BY <1>1
    <3> QED BY <1>2, <1>5, <1>6, <3>1 DEF lines
  <2>2. ASSUME NEW k \in 1 .. n, d[k] # d[n] PROVE d[k] \in lines(a, m)
    <3>1. k \in 1 .. m
      BY <1>1, <2>2
    <3> QED BY <1>5, <3>1 DEF lines
  <2>3. lines(a, m) \subseteq members \ {d[n]}
    BY <2>1 DEF lines
  <2>4. members \ {d[n]} \subseteq lines(a, m)
    <3> SUFFICES ASSUME NEW y \in members, y # d[n] PROVE y \in lines(a, m)
      OBVIOUS
    <3>1. PICK k \in 1 .. n : y = d[k]
      BY <1>2 DEF lines
    <3> QED BY <2>2, <3>1
  <2> QED BY <2>3, <2>4
<1> QED
  BY <1>1, <1>4, <1>7, <1>8, <1>9 DEF Shortened

\* The line at i has left, and its caller has cleared its position.
LEMMA Departed ==
  ASSUME IInv, NEW x \in members, NEW b, NEW m, NEW q,
         Array(b, m), Heap(b, m, vpc), Placed(b, m, q), Elsewhere(b, m, pos, q),
         lines(b, m) = members \ {x},
         d' = b, pos' = leave_queue(x, q), vpc' = [vpc EXCEPT ![x] = 0]
  PROVE  IInv' /\ members' = members \ {x}
<1>1. /\ m \in Nat /\ b \in [1 .. m -> Lines] /\ q \in [Lines -> Nat]
      /\ \A k \in 1 .. m : q[b[k]] = k
  BY DEF Array, Placed
<1>2. vpc \in [Lines -> Nat] /\ \A y \in Lines : y \notin members => pos[y] = 0
  <2>1. members = lines(d, Len(d)) /\ vpc \in [Lines -> Nat]
    BY InvFacts
  <2> QED BY <2>1 DEF IInv, Queued
<1>3. x \in Lines
  BY InvFacts DEF lines
<1>4. \A k \in 1 .. m : b[k] # x
  BY DEF lines
<1>5. PICK p : p = [q EXCEPT ![x] = 0]
  OBVIOUS
<1>6. PICK v : v = [vpc EXCEPT ![x] = 0]
  OBVIOUS
<1>7. /\ p \in [Lines -> Nat] /\ v \in [Lines -> Nat]
      /\ p[x] = 0 /\ \A y \in Lines : y # x => p[y] = q[y] /\ v[y] = vpc[y]
  BY <1>1, <1>2, <1>3, <1>5, <1>6
<1>8. Heap(b, m, v)
  <2> SUFFICES ASSUME NEW k \in 2 .. m PROVE v[b[k \div 2]] <= v[b[k]]
    BY DEF Heap
  <2>1. k \div 2 \in 1 .. m /\ k \in 1 .. m
    BY <1>1, Parent
  <2>2. v[b[k \div 2]] = vpc[b[k \div 2]] /\ v[b[k]] = vpc[b[k]]
    BY <1>1, <1>4, <1>7, <2>1
  <2> QED BY <2>2 DEF Heap
<1>9. Placed(b, m, p)
  BY <1>1, <1>4, <1>7 DEF Placed
<1>10. \A y \in Lines : y \notin lines(b, m) => p[y] = 0
  <2> SUFFICES ASSUME NEW y \in Lines, y \notin lines(b, m) PROVE p[y] = 0
    OBVIOUS
  <2>1. CASE y = x
    BY <1>7, <2>1
  <2>2. CASE y # x
    <3>1. q[y] = pos[y]
      BY DEF Elsewhere
    <3> QED BY <1>2, <1>7, <2>2, <3>1
  <2> QED BY <2>1, <2>2
<1>11. Queued(b, m, v, p)
  BY <1>7, <1>8, <1>9, <1>10 DEF Queued
<1>12. pos' = p /\ vpc' = v
  BY <1>5, <1>6 DEF leave_queue
<1>13. IInv' /\ members' = lines(b, m)
  BY <1>11, <1>12, Arrived
<1> QED
  BY <1>13

\* The line at i has left, another one has been sifted from its place.
LEMMA SiftedAway ==
  ASSUME IInv, NEW a, NEW m, NEW i, NEW r, Replaced(a, m, i),
         Sifted(a, m, vpc, i, r.d, r.touched), NEW x \in members, x = d[i],
         d' = r.d, pos' = leave_queue(x, set_pos(r, x)), vpc' = [vpc EXCEPT ![x] = 0]
  PROVE  IInv' /\ members' = members \ {x}
<1>1. Array(a, m) /\ PlacedBut(a, m, pos, i) /\ lines(a, m) = members \ {x}
  BY DEF Replaced
<1>2. PICK q : q = set_pos(r, x)
  OBVIOUS
<1>3. Placed(r.d, m, q) /\ Elsewhere(a, m, pos, q)
  BY <1>1, <1>2, SetPos
<1>4. Array(r.d, m) /\ Heap(r.d, m, vpc) /\ lines(r.d, m) = lines(a, m)
  BY DEF Sifted, Permuted, lines
<1>5. Elsewhere(r.d, m, pos, q)
  BY <1>3, <1>4 DEF Elsewhere
<1>6. PICK b : b = r.d
  OBVIOUS
<1>7. /\ Array(b, m) /\ Heap(b, m, vpc) /\ Placed(b, m, q) /\ Elsewhere(b, m, pos, q)
      /\ lines(b, m) = members \ {x} /\ d' = b /\ pos' = leave_queue(x, q)
  BY <1>1, <1>2, <1>3, <1>4, <1>5, <1>6
<1> QED
  BY <1>7, Departed

\* The last line has left, nothing is sifted.
LEMMA CutOff ==
  ASSUME IInv, NEW m \in Nat, Len(d) = m + 1, NEW x \in members, x = d[m + 1],
         NEW r, r.d = Front(d), r.touched = {},
         d' = r.d, pos' = leave_queue(x, set_pos(r, x)), vpc' = [vpc EXCEPT ![x] = 0]
  PROVE  IInv' /\ members' = members \ {x}
<1>1. PICK b : b = Front(d)
  OBVIOUS
<1>2. Shortened(b, m)
  BY <1>1, LastGoes
<1>3. Array(b, m) /\ Heap(b, m, vpc) /\ Placed(b, m, pos) /\ lines(b, m) = members \ {x}
  BY <1>2 DEF Shortened
<1>4. set_pos(r, x) = pos
  <2>1. pos \in [Lines -> Nat]
    BY InvFacts
  <2> QED BY <2>1 DEF set_pos
<1>5. Elsewhere(b, m, pos, pos)
  BY DEF Elsewhere
<1>6. d' = b /\ pos' = leave_queue(x, pos)
  BY <1>1, <1>4
<1> QED
  BY <1>3, <1>5, <1>6, Departed

\* pqueue_remove: the line leaves the queue.
LEMMA RemoveStep ==
  ASSUME IInv, NEW l \in Lines, pqueue_remove(l)
  PROVE  IInv' /\ l \in members /\ members' = members \ {l}
<1>1. PICK n : n = Len(d)
  OBVIOUS
<1>2. n \in Nat /\ d \in [1 .. n -> Lines] /\ members = lines(d, n) /\ vpc \in [Lines -> Nat]
  BY <1>1, InvFacts
<1>3. PICK i : i = pos[l]
  OBVIOUS
<1>4. i \in 1 .. n /\ d[i] = l
  BY <1>1, <1>3, InvFacts DEF pqueue_remove
<1>5. l \in members
  BY <1>2, <1>4 DEF lines
<1>6. PICK m \in Nat : n = m + 1
  <2>1. n - 1 \in Nat /\ n = (n - 1) + 1
    BY <1>2, <1>4
  <2> QED BY <2>1
<1>7. PICK r : r = replace_by_last(i, vpc[l])
  OBVIOUS
<1>8. d' = r.d /\ pos' = leave_queue(l, set_pos(r, l)) /\ vpc' = [vpc EXCEPT ![l] = 0]
  BY <1>3, <1>7 DEF pqueue_remove
<1>9. CASE i = n
  <2>1. r.d = Front(d) /\ r.touched = {}
    BY <1>1, <1>7, <1>9 DEF replace_by_last
  <2>2. Len(d) = m + 1 /\ l = d[m + 1]
    BY <1>1, <1>4, <1>6, <1>9
  <2>3. IInv' /\ members' = members \ {l}
    BY <1>5, <1>8, <2>1, <2>2, CutOff
  <2> QED BY <1>5, <2>3
<1>10. CASE i # n
  <2>1. PICK a : a = Front([d EXCEPT ![i] = Last(d)])
    OBVIOUS
  <2>2. r = sift(a, vpc, i, vpc[l], vpc[a[i]])
    BY <1>1, <1>7, <1>10, <2>1 DEF replace_by_last
  <2>3. Replaced(a, m, i)
    <3>1. i \in 1 .. m /\ Len(d) = m + 1
      BY <1>1, <1>4, <1>6, <1>10
    <3> QED BY <2>1, <3>1, LastReplaces
  <2>4. Sifted(a, m, vpc, i, r.d, r.touched)
    <3>1. Array(a, m) /\ i \in 1 .. m /\ HeapBut(a, m, vpc, i, vpc[l]) /\ vpc[l] \in Nat
      BY <1>2, <1>4, <2>3 DEF Replaced
    <3> QED BY <1>2, <2>2, <3>1, SiftEither
  <2>5. IInv' /\ members' = members \ {l}
    BY <1>4, <1>5, <1>8, <2>3, <2>4, SiftedAway
  <2> QED BY <1>5, <2>5
<1> QED
  BY <1>9, <1>10

\* The root ranks before every line of a heap.
LEMMA RootFirst ==
  ASSUME NEW a, NEW n, NEW v, Array(a, n), Heap(a, n, v), v \in [Lines -> Nat],
         NEW j \in 1 .. n
  PROVE  v[a[1]] <= v[a[j]]
<1> DEFINE G == {m \in 0 .. n : \A k \in 1 .. n : k <= m => v[a[1]] <= v[a[k]]}
<1>1. n \in Nat /\ a \in [1 .. n -> Lines] /\ 1 \in 1 .. n
  BY DEF Array
<1>2. \A k \in 1 .. n : v[a[k]] \in Nat
  BY <1>1
<1>3. 0 \in G
  BY <1>1
<1>4. ASSUME NEW m \in 0 .. n - 1, m \in G PROVE m + 1 \in G
  <2> SUFFICES ASSUME NEW k \in 1 .. n, k <= m + 1 PROVE v[a[1]] <= v[a[k]]
    BY <1>1
  <2>1. CASE k = 1
    BY <1>1, <1>2, <2>1
  <2>2. CASE k # 1
    <3>1. k \in 2 .. n
      BY <1>1, <2>2
    <3>2. k \div 2 \in 1 .. n /\ k \div 2 < k
      BY <1>1, <3>1, Parent
    <3>3. k \div 2 <= m
      <4>1. k \div 2 \in Nat /\ k \in Nat /\ m \in Nat
        BY <1>1, <3>1, <3>2
      <4> QED BY <3>2, <4>1
    <3>4. v[a[1]] <= v[a[k \div 2]]
      BY <1>4, <3>2, <3>3
    <3>5. v[a[k \div 2]] <= v[a[k]]
      BY <3>1 DEF Heap
    <3>6. v[a[1]] \in Nat /\ v[a[k \div 2]] \in Nat /\ v[a[k]] \in Nat
      BY <1>1, <1>2, <3>2
    <3> QED BY <3>4, <3>5, <3>6
  <2> QED BY <2>1, <2>2
<1>5. G = 0 .. n
  <2>1. G \in SUBSET (0 .. n)
    OBVIOUS
  <2> HIDE DEF G
  <2> QED BY <1>1, <1>3, <1>4, <2>1, BoundedInduction
<1>6. n \in G
  <2> HIDE DEF G
  <2> QED BY <1>1, <1>5
<1> QED
  BY <1>6

\* pqueue_pop: the line with the fewest valid pages leaves the queue.
LEMMA PopStep ==
  ASSUME IInv, pqueue_pop
  PROVE  /\ IInv' /\ d[1] \in members /\ members' = members \ {d[1]}
         /\ \A y \in members : vpc[d[1]] <= vpc[y]
<1>1. PICK n : n = Len(d)
  OBVIOUS
<1>2. /\ n \in Nat /\ d \in [1 .. n -> Lines] /\ d \in Seq(Lines)
      /\ members = lines(d, n) /\ vpc \in [Lines -> Nat] /\ Array(d, n) /\ Heap(d, n, vpc)
  BY <1>1, InvFacts
<1>3. n # 0
  BY <1>1, <1>2 DEF pqueue_pop
<1>4. PICK m \in Nat : n = m + 1
  <2>1. n - 1 \in Nat /\ n = (n - 1) + 1
    BY <1>2, <1>3
  <2> QED BY <2>1
<1>5. PICK x : x = d[1]
  OBVIOUS
<1>6. 1 \in 1 .. n /\ x \in members /\ Len(d) = m + 1
  BY <1>1, <1>2, <1>4, <1>5 DEF lines
<1>7. PICK a : a = Front([d EXCEPT ![1] = Last(d)])
  OBVIOUS
<1>8. PICK r : r = IF a = <<>> THEN [d |-> <<>>, touched |-> {}] ELSE percolate_down(a, vpc, 1)
  OBVIOUS
<1>9. d' = r.d /\ pos' = leave_queue(x, set_pos(r, x)) /\ vpc' = [vpc EXCEPT ![x] = 0]
  BY <1>5, <1>7, <1>8 DEF pqueue_pop
<1>10. ASSUME m = 0 PROVE IInv' /\ members' = members \ {x}
  <2>1. PICK s : s = [d EXCEPT ![1] = Last(d)]
    OBVIOUS
  <2>2. s = d
    <3>1. Last(d) = d[1]
      BY <1>6, <1>10 DEF Last
    <3> QED BY <1>2, <1>6, <2>1, <3>1
  <2>3. a = Front(d)
    BY <1>7, <2>1, <2>2
  <2>4. a \in Seq(Lines) /\ Len(a) = 0
    BY <1>2, <1>6, <1>10, <2>3, FrontIs
  <2>5. a = <<>>
    BY <2>4
  <2>6. r.d = Front(d) /\ r.touched = {}
    BY <1>8, <2>3, <2>5
  <2>7. x = d[m + 1]
    BY <1>5, <1>10
  <2> QED BY <1>6, <1>9, <2>6, <2>7, CutOff
<1>11. ASSUME m # 0 PROVE IInv' /\ members' = members \ {x}
  <2>1. 1 \in 1 .. m
    BY <1>11
  <2>2. Replaced(a, m, 1)
    BY <1>6, <1>7, <2>1, LastReplaces
  <2>3. Array(a, m) /\ HeapBut(a, m, vpc, 1, vpc[x])
    BY <1>5, <2>2 DEF Replaced
  <2>4. a # <<>>
    <3>1. Len(a) = m
      BY <2>3, ArraySeq
    <3> QED BY <1>11, <3>1
  <2>5. r = percolate_down(a, vpc, 1)
    BY <1>8, <2>4
  <2>6. AlmostHeap(a, m, vpc, 1)
    BY <2>3 DEF HeapBut, AlmostHeap
  <2>7. Sifted(a, m, vpc, 1, r.d, r.touched)
    BY <1>2, <2>1, <2>3, <2>5, <2>6, PercolateDown
  <2> QED BY <1>5, <1>6, <1>9, <2>2, <2>7, SiftedAway
<1>12. IInv' /\ members' = members \ {x}
  BY <1>10, <1>11
<1>13. \A y \in members : vpc[x] <= vpc[y]
  <2> TAKE y \in members
  <2>1. PICK k \in 1 .. n : y = d[k]
    BY <1>2 DEF lines
  <2> QED BY <1>2, <1>5, <2>1, RootFirst
<1> QED
  BY <1>5, <1>6, <1>12, <1>13

LEMMA InitInv == Init => IInv
<1> SUFFICES ASSUME Init PROVE IInv
  OBVIOUS
<1>1. d = <<>> /\ Len(d) = 0 /\ d \in [1 .. 0 -> Lines]
  BY DEF Init
<1>2. Array(d, 0) /\ Heap(d, 0, vpc) /\ Placed(d, 0, pos) /\ vpc \in [Lines -> Nat]
  <2>1. \A k \in 1 .. 0 : FALSE
    OBVIOUS
  <2>2. \A k \in 2 .. 0 : FALSE
    OBVIOUS
  <2>3. vpc \in [Lines -> Nat] /\ pos \in [Lines -> Nat]
    BY DEF Init
  <2> QED BY <1>1, <2>1, <2>2, <2>3 DEF Array, Heap, Placed
<1>3. \A m \in Lines : pos[m] = 0
  BY DEF Init
<1> QED
  BY <1>1, <1>2, <1>3 DEF IInv, Queued

LEMMA NextInv ==
  ASSUME IInv, [Next]_vars
  PROVE  IInv'
<1>1. ASSUME NEW l \in Lines, NEW p \in Pri, pqueue_insert(l, p) PROVE IInv'
  BY <1>1, InsertStep
<1>2. ASSUME NEW l \in Lines, NEW p \in Pri, pqueue_change_priority(l, p) PROVE IInv'
  BY <1>2, ChangeStep
<1>3. ASSUME pqueue_pop PROVE IInv'
  BY <1>3, PopStep
<1>4. ASSUME NEW l \in Lines, pqueue_remove(l) PROVE IInv'
  BY <1>4, RemoveStep
<1>5. CASE UNCHANGED vars
  BY <1>5 DEF vars, IInv
<1> QED
  BY <1>1, <1>2, <1>3, <1>4, <1>5 DEF Next

\* The inductive invariant of the heap.
THEOREM Invariance == Spec => []IInv
<1>1. IInv /\ [Next]_vars => IInv'
  BY NextInv
<1> QED
  BY <1>1, InitInv, PTL DEF Spec

\* pqueue_insert, pqueue_change_priority, pqueue_pop and pqueue_remove leave no
\* child before its parent.
THEOREM HeapStaysOrdered == Spec => []HeapOrder
<1>1. IInv => HeapOrder
  <2> SUFFICES ASSUME IInv, NEW i \in 2 .. Len(d) PROVE ~cmppri(vpc[d[i \div 2]], vpc[d[i]])
    BY DEF HeapOrder
  <2>1. /\ Len(d) \in Nat /\ d \in [1 .. Len(d) -> Lines] /\ vpc \in [Lines -> Nat]
        /\ Heap(d, Len(d), vpc)
    BY InvFacts
  <2>2. i \div 2 \in 1 .. Len(d) /\ i \in 1 .. Len(d)
    BY <2>1, Parent
  <2>3. vpc[d[i \div 2]] <= vpc[d[i]]
    BY <2>1 DEF Heap
  <2>4. vpc[d[i \div 2]] \in Nat /\ vpc[d[i]] \in Nat
    BY <2>1, <2>2
  <2> QED BY <2>3, <2>4 DEF cmppri
<1> QED
  BY <1>1, Invariance, PTL

\* line->pos is the index of every queued line and 0 for every other, and the
\* array never outgrows what pqueue_init allocated.
THEOREM PositionsAgree == Spec => []PosAgrees
<1>1. IInv => PosAgrees
  <2> SUFFICES ASSUME IInv PROVE PosAgrees
    OBVIOUS
  <2>1. PICK n : n = Len(d)
    OBVIOUS
  <2>2. /\ n \in Nat /\ d \in [1 .. n -> Lines] /\ pos \in [Lines -> Nat]
        /\ \A j, k \in 1 .. n : d[j] = d[k] => j = k
        /\ \A m \in Lines : IF pos[m] = 0 THEN m \notin members
                            ELSE pos[m] \in 1 .. n /\ d[pos[m]] = m
    BY <2>1, InvFacts
  <2>3. n <= N
    <3>1. d \in Injection(1 .. n, Lines)
      BY <2>2 DEF Injection, IsInjective
    <3>2. Cardinality(1 .. n) <= Cardinality(Lines)
      BY <3>1, FS_Injection, PqueueAssumption
    <3>3. Cardinality(1 .. n) = n
      <4>1. Cardinality(1 .. n) = IF 1 > n THEN 0 ELSE n - 1 + 1
        BY <2>2, FS_Interval
      <4> QED BY <2>2, <4>1
    <3> QED BY <3>2, <3>3 DEF N
  <2>4. \A m \in Lines : IF pos[m] = 0 THEN m \notin members ELSE pos[m] <= n /\ d[pos[m]] = m
    BY <2>2
  <2> HIDE DEF members
  <2> QED BY <2>1, <2>3, <2>4 DEF PosAgrees
<1> QED
  BY <1>1, Invariance, PTL

\* The heap is the set of victim lines ConvFTL works with: every operation adds,
\* keeps or removes exactly its line, and pqueue_pop takes one with the fewest
\* valid pages.
THEOREM QueueRefinement == Spec => ImplementsVictimQueue
<1>1. Init => Queue!QueueInit
  <2> SUFFICES ASSUME Init PROVE Queue!QueueInit
    OBVIOUS
  <2>1. d = <<>> /\ vpc = [l \in Lines |-> 0] /\ popped = {}
    BY DEF Init
  <2>2. members = {}
    BY <2>1 DEF members, ToSet
  <2> QED BY <2>1, <2>2 DEF Queue!QueueInit
<1>2. ASSUME IInv, [Next]_vars
      PROVE  [Queue!QueueNext]_<<members, vpc, popped>>
  <2>1. ASSUME NEW l \in Lines, NEW p \in Pri, pqueue_insert(l, p) PROVE Queue!Insert
    <3>1. l \in Lines \ members /\ members' = members \cup {l}
      BY <1>2, <2>1, InsertStep
    <3>2. vpc' = [vpc EXCEPT ![l] = p] /\ popped' = {}
      BY <2>1 DEF pqueue_insert
    <3> HIDE DEF members
    <3> QED BY <3>1, <3>2 DEF Queue!Insert
  <2>2. ASSUME NEW l \in Lines, NEW p \in Pri, pqueue_change_priority(l, p)
        PROVE  Queue!ChangePriority
    <3>1. l \in members /\ members' = members
      BY <1>2, <2>2, ChangeStep
    <3>2. vpc' = [vpc EXCEPT ![l] = p] /\ popped' = {}
      BY <2>2 DEF pqueue_change_priority
    <3> HIDE DEF members
    <3> QED BY <3>1, <3>2 DEF Queue!ChangePriority
  <2>3. ASSUME pqueue_pop PROVE Queue!Pop
    <3>1. /\ d[1] \in members /\ members' = members \ {d[1]}
          /\ \A y \in members : vpc[d[1]] <= vpc[y]
      BY <1>2, <2>3, PopStep
    <3>2. vpc' = [vpc EXCEPT ![d[1]] = 0] /\ popped' = {d[1]}
      BY <2>3 DEF pqueue_pop
    <3> HIDE DEF members
    <3> QED BY <3>1, <3>2 DEF Queue!Pop
  <2>4. ASSUME NEW l \in Lines, pqueue_remove(l) PROVE Queue!Remove
    <3>1. l \in members /\ members' = members \ {l}
      BY <1>2, <2>4, RemoveStep
    <3>2. vpc' = [vpc EXCEPT ![l] = 0] /\ popped' = {}
      BY <2>4 DEF pqueue_remove
    <3> HIDE DEF members
    <3> QED BY <3>1, <3>2 DEF Queue!Remove
  <2>5. CASE UNCHANGED vars
    <3>1. members' = members /\ vpc' = vpc /\ popped' = popped
      BY <2>5 DEF vars, members
    <3> HIDE DEF members
    <3> QED BY <3>1
  <2>6. CASE Next
    <3>1. Queue!QueueNext
      BY <2>1, <2>2, <2>3, <2>4, <2>6 DEF Next, Queue!QueueNext
    <3> QED BY <3>1
  <2> QED BY <1>2, <2>5, <2>6
<1>3. IInv /\ [Next]_vars => [Queue!QueueNext]_<<members, vpc, popped>>
  BY <1>2
<1> QED
  BY <1>1, <1>3, Invariance, PTL DEF Spec, ImplementsVictimQueue, Queue!QueueSpec

=============================================================================
