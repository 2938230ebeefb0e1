---------------------------- MODULE ZnsFTLProofs ----------------------------
(***************************************************************************)
(* The zoned namespace keeps its books: for any number of zones, any zone, *)
(* page and buffer sizes, the write pointers agree with the states of the  *)
(* zones, the resource counters count them and the space of the write      *)
(* buffers is conserved.  The three invariants and the types are inductive *)
(* only together: a counter stays a natural number because it counts, the  *)
(* space of a buffer is conserved because an empty zone has nothing in it, *)
(* and a write stays in its zone because a zone at its end is full.        *)
(***************************************************************************)
EXTENDS ZnsFTL, FiniteSetTheorems, WellFoundedInduction, TLAPS

\* A set that holds 0 and, with a number below n, its successor, is all of 0 .. n.
LEMMA BoundedInduction ==
  ASSUME NEW n \in Nat, NEW G \in SUBSET (0 .. n), 0 \in G,
         \A i \in 0 .. n - 1 : i \in G => i + 1 \in G
  PROVE  G = 0 .. n
<1> DEFINE F == (0 .. n) \ G
<1>1. SUFFICES ASSUME F # {} PROVE FALSE
  OBVIOUS
<1>2. F \subseteq Nat
  OBVIOUS
<1>3. PICK c \in F : \A d \in F : ~ (<<d, c>> \in OpToRel(<, Nat))
  BY <1>1, <1>2, WFMin, NatLessThanWellFounded
<1>4. c \in 1 .. n /\ c - 1 \in 0 .. n - 1 /\ (c - 1) + 1 = c
  OBVIOUS
<1>5. c - 1 \notin G
  BY <1>4
<1>6. c - 1 \in F /\ c - 1 \in Nat /\ c \in Nat /\ c - 1 < c
  BY <1>4, <1>5
<1>7. <<c - 1, c>> \in OpToRel(<, Nat)
  BY <1>6 DEF OpToRel
<1> QED
  BY <1>3, <1>6, <1>7

\* A number is its quotient and its remainder.
LEMMA DivMod ==
  ASSUME NEW a \in Nat, NEW m \in Nat \ {0}
  PROVE  /\ a \div m \in Nat /\ a % m \in 0 .. m - 1
         /\ a = m * (a \div m) + (a % m)
OBVIOUS

\* The quotient is the number of the interval of length m that holds a.
LEMMA QuotientIs ==
  ASSUME NEW m \in Nat \ {0}, NEW q \in Nat, NEW r \in 0 .. m - 1
  PROVE  (q * m + r) \div m = q /\ (q * m + r) % m = r
OBVIOUS

\* Taking a part of a finite set away.
LEMMA CardRemove ==
  ASSUME NEW A, IsFiniteSet(A), NEW B \in SUBSET A
  PROVE  /\ IsFiniteSet(B) /\ IsFiniteSet(A \ B)
         /\ Cardinality(A) \in Nat /\ Cardinality(B) \in Nat
         /\ Cardinality(A \ B) \in Nat
         /\ Cardinality(A \ B) = Cardinality(A) - Cardinality(B)
<1>1. IsFiniteSet(B) /\ IsFiniteSet(A \ B)
  BY FS_Subset
<1>2. A \intersect B = B
  OBVIOUS
<1>3. Cardinality(A \ B) = Cardinality(A) - Cardinality(A \intersect B)
  BY FS_Difference
<1>4. Cardinality(A) \in Nat /\ Cardinality(B) \in Nat /\ Cardinality(A \ B) \in Nat
  BY <1>1, FS_CardinalityType
<1> QED
  BY <1>1, <1>2, <1>3, <1>4

\* Adding elements that were not there.
LEMMA CardAdd ==
  ASSUME NEW A, NEW B, IsFiniteSet(A), IsFiniteSet(B), A \intersect B = {}
  PROVE  /\ IsFiniteSet(A \union B)
         /\ Cardinality(A) \in Nat /\ Cardinality(B) \in Nat
         /\ Cardinality(A \union B) = Cardinality(A) + Cardinality(B)
<1>1. IsFiniteSet(A \union B)
  BY FS_Union
<1>2. Cardinality(A \union B)
        = Cardinality(A) + Cardinality(B) - Cardinality(A \intersect B)
  BY FS_Union
<1>3. Cardinality(A \intersect B) = 0
  BY FS_EmptySet
<1>4. Cardinality(A) \in Nat /\ Cardinality(B) \in Nat
  BY FS_CardinalityType
<1> QED
  BY <1>1, <1>2, <1>3, <1>4

ZoneState == {"EMPTY", "OPENED_IMPL", "OPENED_EXPL", "CLOSED", "FULL"}

IInv == WritePointer /\ ResourceCounts /\ BufferConserved

-----------------------------------------------------------------------------
(* Addresses and zones.                                                    *)

\* The zones lie one behind the other in the address space.
LEMMA Geometry ==
  ASSUME NEW z \in Zone
  PROVE  /\ zone_to_slba(z) \in Nat /\ zone_end(z) \in Nat
         /\ zone_end(z) = zone_to_slba(z) + ZONE_SIZE
         /\ zone_to_slba(z) < zone_end(z)
         /\ zone_end(z) <= NR_ZONES * ZONE_SIZE
<1>1. z \in Nat /\ z + 1 <= NR_ZONES /\ NR_ZONES \in Nat /\ ZONE_SIZE \in Nat /\ ZONE_SIZE > 0
  BY ZnsAssumption DEF Zone
<1>2. z * ZONE_SIZE \in Nat /\ NR_ZONES * ZONE_SIZE \in Nat
  BY <1>1
<1>3. (z + 1) * ZONE_SIZE = z * ZONE_SIZE + ZONE_SIZE
  BY <1>1
<1>4. (z + 1) * ZONE_SIZE <= NR_ZONES * ZONE_SIZE
  BY <1>1
<1> QED
  BY <1>1, <1>2, <1>3, <1>4 DEF zone_to_slba, zone_end

\* An address is in the zone lba_to_zone says, ...
LEMMA ZoneOf ==
  ASSUME NEW a \in Lba
  PROVE  lba_to_zone(a) \in Zone
         /\ a \in zone_to_slba(lba_to_zone(a)) .. zone_end(lba_to_zone(a)) - 1
<1> DEFINE z == a \div ZONE_SIZE
           r == a % ZONE_SIZE
<1>1. a \in Nat /\ a < NR_ZONES * ZONE_SIZE /\ NR_ZONES \in Nat /\ ZONE_SIZE \in Nat \ {0}
  BY ZnsAssumption DEF Lba
<1>2. z \in Nat /\ r \in 0 .. ZONE_SIZE - 1 /\ a = ZONE_SIZE * z + r
  BY <1>1, DivMod
<1> HIDE DEF z, r
<1>3. ZONE_SIZE * z = z * ZONE_SIZE /\ z * ZONE_SIZE \in Nat
  BY <1>1, <1>2
<1>4. z < NR_ZONES
  <2>1. SUFFICES ASSUME NR_ZONES <= z PROVE FALSE
    BY <1>1, <1>2
  <2>2. NR_ZONES * ZONE_SIZE <= z * ZONE_SIZE
    BY <2>1, <1>1, <1>2
  <2> QED
    BY <2>2, <1>1, <1>2, <1>3
<1>5. lba_to_zone(a) = z
  BY DEF lba_to_zone, z
<1> QED
  BY <1>1, <1>2, <1>3, <1>4, <1>5 DEF Zone, zone_to_slba, zone_end

\* ... and in no other.
LEMMA InZone ==
  ASSUME NEW z \in Zone, NEW a \in zone_to_slba(z) .. zone_end(z) - 1
  PROVE  a \in Lba /\ lba_to_zone(a) = z
<1> DEFINE r == a - z * ZONE_SIZE
<1>1. z \in Nat /\ ZONE_SIZE \in Nat \ {0} /\ z * ZONE_SIZE \in Nat
  BY ZnsAssumption DEF Zone
<1>2. r \in 0 .. ZONE_SIZE - 1 /\ a = z * ZONE_SIZE + r
  BY <1>1 DEF zone_to_slba, zone_end
<1>3. (z * ZONE_SIZE + r) \div ZONE_SIZE = z
  <2> HIDE DEF r
  <2> QED BY <1>1, <1>2, QuotientIs
<1>4. a \in Lba
  BY Geometry, ZnsAssumption DEF Lba
<1> QED
  BY <1>2, <1>3, <1>4 DEF lba_to_zone

\* A transfer without a boundary error ends in the zone where it starts.
LEMMA StaysInZone ==
  ASSUME NEW a \in Lba, NEW n \in Nat \ {0}, ~boundary_error(a, n)
  PROVE  a + n <= zone_end(lba_to_zone(a))
<1> DEFINE z == a \div ZONE_SIZE
           e == a + n - 1
           r == e % ZONE_SIZE
<1>1. a \in Nat /\ e \in Nat /\ ZONE_SIZE \in Nat \ {0} /\ a + n = e + 1
  BY ZnsAssumption DEF Lba
<1>2. e \div ZONE_SIZE = z
  BY DEF boundary_error, lba_to_zone
<1>3. e \div ZONE_SIZE \in Nat /\ r \in 0 .. ZONE_SIZE - 1
      /\ e = ZONE_SIZE * (e \div ZONE_SIZE) + r
  <2> HIDE DEF e
  <2> QED BY <1>1, DivMod DEF r
<1>4. lba_to_zone(a) = z
  BY DEF lba_to_zone
<1> HIDE DEF z, r, e
<1>5. ZONE_SIZE * z = z * ZONE_SIZE /\ z * ZONE_SIZE \in Nat
  BY <1>1, <1>2, <1>3
<1> QED
  BY <1>1, <1>2, <1>3, <1>4, <1>5 DEF zone_to_slba, zone_end

-----------------------------------------------------------------------------
(* Counting zones.                                                         *)

InState(st, S) == {z \in Zone : st[z] \in S}
WithArea(st, zv) == {z \in Zone : st[z] \in active /\ zv[z]}

\* the counters ac are right for zones in the states st, with the areas zv
Counts(st, zv, ac) ==
  /\ ac["OPEN_ZONE"] = Cardinality(InState(st, opened))
  /\ ac["ACTIVE_ZONE"] = Cardinality(InState(st, active))
  /\ ac["ZRWA_ZONE"] >= Cardinality(WithArea(st, zv))

LEMMA CountsForm ==
  /\ ResourceCounts <=> (~panic => Counts(state, zrwav, acquired_cnt))
  /\ ResourceCounts' <=> (~panic' => Counts(state', zrwav', acquired_cnt'))
<1>1. /\ in_state(Zone, opened) = InState(state, opened)
      /\ in_state(Zone, active) = InState(state, active)
      /\ {z \in in_state(Zone, active) : zrwav[z]} = WithArea(state, zrwav)
  BY DEF in_state, InState, WithArea
<1>2. /\ in_state(Zone, opened)' = InState(state', opened)
      /\ in_state(Zone, active)' = InState(state', active)
      /\ {z \in in_state(Zone, active) : zrwav[z]}' = WithArea(state', zrwav')
  BY DEF in_state, InState, WithArea
<1>3. ResourceCounts <=> (~panic => Counts(state, zrwav, acquired_cnt))
  BY <1>1 DEF ResourceCounts, Counts
<1>4. ResourceCounts' <=> (~panic' => Counts(state', zrwav', acquired_cnt'))
  BY <1>2 DEF ResourceCounts, Counts
<1> QED
  BY <1>3, <1>4

LEMMA FiniteZones ==
  ASSUME NEW Z \in SUBSET Zone
  PROVE  IsFiniteSet(Z) /\ Cardinality(Z) \in Nat
<1>1. IsFiniteSet(Zone)
  BY FS_Interval, ZnsAssumption DEF Zone
<1>2. IsFiniteSet(Z)
  BY <1>1, FS_Subset
<1> QED
  BY <1>2, FS_CardinalityType

\* Zones leave the counted sets, and release_zone_resource is called for each.
LEMMA CountsRelease ==
  ASSUME NEW st, NEW zv, NEW ac \in [Resource -> Nat], Counts(st, zv, ac),
         NEW st2, NEW zv2, NEW ac2,
         NEW act \in SUBSET InState(st, active), NEW opn \in SUBSET InState(st, opened),
         NEW zr \in SUBSET WithArea(st, zv),
         InState(st2, opened) = InState(st, opened) \ opn,
         InState(st2, active) = InState(st, active) \ act,
         WithArea(st2, zv2) = WithArea(st, zv) \ zr,
         ac2 = [r \in Resource |-> ac2[r]],
         ac2["ACTIVE_ZONE"] = ac["ACTIVE_ZONE"] - Cardinality(act),
         ac2["OPEN_ZONE"] = ac["OPEN_ZONE"] - Cardinality(opn),
         ac2["ZRWA_ZONE"] = ac["ZRWA_ZONE"] - Cardinality(zr)
  PROVE  Counts(st2, zv2, ac2) /\ ac2 \in [Resource -> Nat]
<1>1. /\ IsFiniteSet(InState(st, opened)) /\ IsFiniteSet(InState(st, active))
      /\ IsFiniteSet(WithArea(st, zv))
  BY FiniteZones DEF InState, WithArea
<1>2. /\ Cardinality(InState(st2, opened)) \in Nat
      /\ Cardinality(InState(st2, opened)) = Cardinality(InState(st, opened)) - Cardinality(opn)
  BY <1>1, CardRemove
<1>3. /\ Cardinality(InState(st2, active)) \in Nat
      /\ Cardinality(InState(st2, active)) = Cardinality(InState(st, active)) - Cardinality(act)
  BY <1>1, CardRemove
<1>4. /\ Cardinality(WithArea(st2, zv2)) \in Nat
      /\ Cardinality(WithArea(st, zv)) \in Nat /\ Cardinality(zr) \in Nat
      /\ Cardinality(WithArea(st2, zv2)) = Cardinality(WithArea(st, zv)) - Cardinality(zr)
  BY <1>1, CardRemove
<1>5. /\ ac2["ACTIVE_ZONE"] = ac["ACTIVE_ZONE"] - Cardinality(act)
      /\ ac2["OPEN_ZONE"] = ac["OPEN_ZONE"] - Cardinality(opn)
      /\ ac2["ZRWA_ZONE"] = ac["ZRWA_ZONE"] - Cardinality(zr)
      /\ ac["ZRWA_ZONE"] \in Nat
  BY DEF Resource
<1>6. Counts(st2, zv2, ac2)
  BY <1>2, <1>3, <1>4, <1>5 DEF Counts
<1>7. ac2["ACTIVE_ZONE"] \in Nat /\ ac2["OPEN_ZONE"] \in Nat /\ ac2["ZRWA_ZONE"] \in Nat
  BY <1>2, <1>3, <1>4, <1>5 DEF Counts
<1>8. ac2 \in [Resource -> Nat]
  <2>1. \A r \in Resource : ac2[r] \in Nat
    BY <1>7 DEF Resource
  <2> QED
    BY <2>1
<1> QED
  BY <1>6, <1>8

one(s, S) == IF s \in S THEN 1 ELSE 0

\* One zone changes its state.
LEMMA CountOne ==
  ASSUME NEW st \in [Zone -> ZoneState], NEW z \in Zone, NEW s \in ZoneState, NEW S,
         NEW st2, st2 = [st EXCEPT ![z] = s]
  PROVE  /\ Cardinality(InState(st, S)) \in Nat
         /\ Cardinality(InState(st2, S)) \in Nat
         /\ Cardinality(InState(st2, S))
              = Cardinality(InState(st, S)) + one(s, S)
                                            - one(st[z], S)
<1> DEFINE A == InState(st, S)
           B == InState(st2, S)
<1>1. A \in SUBSET Zone /\ B \in SUBSET Zone
  BY DEF InState
<1>2. IsFiniteSet(A) /\ IsFiniteSet(B) /\ Cardinality(A) \in Nat /\ Cardinality(B) \in Nat
  BY <1>1, FiniteZones
<1>3. \A x \in Zone : x \in B <=> IF x = z THEN s \in S ELSE x \in A
  BY DEF InState
<1>4. z \in A <=> st[z] \in S
  BY DEF InState
<1>5. IsFiniteSet({z}) /\ Cardinality({z}) = 1
  BY FS_Singleton
<1>6. CASE s \in S /\ st[z] \notin S
  <2>1. B = A \union {z} /\ A \intersect {z} = {}
    BY <1>1, <1>3, <1>4, <1>6
  <2>2. Cardinality(B) = Cardinality(A) + Cardinality({z})
    <3> HIDE DEF A, B
    <3> QED BY <2>1, <1>2, <1>5, CardAdd
  <2> QED
    BY <2>2, <1>2, <1>5, <1>6 DEF one
<1>7. CASE s \notin S /\ st[z] \in S
  <2>1. B = A \ {z} /\ {z} \in SUBSET A
    BY <1>1, <1>3, <1>4, <1>7
  <2>2. Cardinality(B) = Cardinality(A) - Cardinality({z})
    <3> HIDE DEF A, B
    <3> QED BY <2>1, <1>2, CardRemove
  <2> QED
    BY <2>2, <1>2, <1>5, <1>7 DEF one
<1>8. CASE (s \in S) = (st[z] \in S)
  <2>1. B = A
    BY <1>1, <1>3, <1>4, <1>8
  <2> QED
    BY <2>1, <1>2, <1>8 DEF one
<1> QED
  BY <1>6, <1>7, <1>8

-----------------------------------------------------------------------------
(* Opening zones one after the other.                                      *)

closable == {"EMPTY", "CLOSED"} \union opened

\* What opening one zone does to the counters.
LEMMA OpenOne ==
  ASSUME NEW s \in ZoneState, NEW acq \in [Resource -> Nat], NEW zr \in BOOLEAN
  PROVE  LET o == open_zone(s, acq, zr) IN
         /\ o.acq \in [Resource -> Nat]
         /\ o.ok => s \in closable
         /\ ~o.ok => o.acq = acq
         /\ o.ok => o.acq["OPEN_ZONE"] = acq["OPEN_ZONE"] + (IF s \in {"EMPTY", "CLOSED"} THEN 1 ELSE 0)
         /\ o.ok => o.acq["ACTIVE_ZONE"] = acq["ACTIVE_ZONE"] + (IF s = "EMPTY" THEN 1 ELSE 0)
         /\ o.ok => o.acq["ZRWA_ZONE"] = acq["ZRWA_ZONE"] + (IF s = "EMPTY" /\ zr THEN 1 ELSE 0)
<1> DEFINE o == open_zone(s, acq, zr)
<1>1. ASSUME NEW a \in Nat, NEW p \in Nat, NEW w \in Nat
      PROVE  /\ acquire(acq, a, p, w) \in [Resource -> Nat]
             /\ acquire(acq, a, p, w)["ACTIVE_ZONE"] = acq["ACTIVE_ZONE"] + a
             /\ acquire(acq, a, p, w)["OPEN_ZONE"] = acq["OPEN_ZONE"] + p
             /\ acquire(acq, a, p, w)["ZRWA_ZONE"] = acq["ZRWA_ZONE"] + w
  BY DEF Resource, acquire
<1> DEFINE Goal(x) ==
             /\ x.acq \in [Resource -> Nat]
             /\ x.ok => s \in closable
             /\ ~x.ok => x.acq = acq
             /\ x.ok => x.acq["OPEN_ZONE"] = acq["OPEN_ZONE"] + (IF s \in {"EMPTY", "CLOSED"} THEN 1 ELSE 0)
             /\ x.ok => x.acq["ACTIVE_ZONE"] = acq["ACTIVE_ZONE"] + (IF s = "EMPTY" THEN 1 ELSE 0)
             /\ x.ok => x.acq["ZRWA_ZONE"] = acq["ZRWA_ZONE"] + (IF s = "EMPTY" /\ zr THEN 1 ELSE 0)
<1>2. Goal([ok |-> FALSE, acq |-> acq])
  OBVIOUS
<1>3. ASSUME s = "EMPTY" PROVE Goal(o)
  <2> DEFINE w == IF zr THEN 1 ELSE 0
  <2>1. \/ o = [ok |-> FALSE, acq |-> acq]
        \/ o = [ok |-> TRUE, acq |-> acquire(acq, 1, 1, w)]
    BY <1>3, Zenon DEF open_zone, opened
  <2>2. w \in Nat /\ w = IF s = "EMPTY" /\ zr THEN 1 ELSE 0
    BY <1>3
  <2>3. Goal([ok |-> TRUE, acq |-> acquire(acq, 1, 1, w)])
    <3> HIDE DEF w
    <3>1. /\ acquire(acq, 1, 1, w) \in [Resource -> Nat]
          /\ acquire(acq, 1, 1, w)["ACTIVE_ZONE"] = acq["ACTIVE_ZONE"] + 1
          /\ acquire(acq, 1, 1, w)["OPEN_ZONE"] = acq["OPEN_ZONE"] + 1
          /\ acquire(acq, 1, 1, w)["ZRWA_ZONE"] = acq["ZRWA_ZONE"] + w
      BY <1>1, <2>2
    <3> QED BY <2>2, <1>3, <3>1 DEF closable
  <2> HIDE DEF Goal, o, w
  <2> QED
    BY <2>1, <2>3, <1>2
<1>4. ASSUME s = "CLOSED" PROVE Goal(o)
  <2>1. \/ o = [ok |-> FALSE, acq |-> acq]
        \/ o = [ok |-> TRUE, acq |-> acquire(acq, 0, 1, 0)]
    BY <1>4, Zenon DEF open_zone, opened
  <2>2. Goal([ok |-> TRUE, acq |-> acquire(acq, 0, 1, 0)])
    <3>1. /\ acquire(acq, 0, 1, 0) \in [Resource -> Nat]
          /\ acquire(acq, 0, 1, 0)["ACTIVE_ZONE"] = acq["ACTIVE_ZONE"] + 0
          /\ acquire(acq, 0, 1, 0)["OPEN_ZONE"] = acq["OPEN_ZONE"] + 1
          /\ acquire(acq, 0, 1, 0)["ZRWA_ZONE"] = acq["ZRWA_ZONE"] + 0
      BY DEF Resource, acquire
    <3> QED BY <1>4, <3>1 DEF closable
  <2> HIDE DEF Goal, o
  <2> QED
    BY <2>1, <2>2, <1>2
<1>5. ASSUME s \in opened PROVE Goal(o)
  <2>1. o = [ok |-> TRUE, acq |-> acq]
    BY <1>5 DEF open_zone, opened
  <2>2. s # "EMPTY" /\ s # "CLOSED" /\ s \in closable
    BY <1>5 DEF opened, closable
  <2>3. acq["OPEN_ZONE"] \in Nat /\ acq["ACTIVE_ZONE"] \in Nat /\ acq["ZRWA_ZONE"] \in Nat
    BY DEF Resource
  <2>4. Goal([ok |-> TRUE, acq |-> acq])
    BY <2>2, <2>3
  <2> HIDE DEF Goal, o
  <2> QED
    BY <2>1, <2>4
<1>6. ASSUME s = "FULL" PROVE Goal(o)
  <2>1. o = [ok |-> FALSE, acq |-> acq]
    BY <1>6 DEF open_zone, opened
  <2> HIDE DEF Goal, o
  <2> QED
    BY <2>1, <1>2
<1>7. Goal(o)
  <2> HIDE DEF Goal, o
  <2> QED
    BY <1>3, <1>4, <1>5, <1>6 DEF ZoneState, opened
<1> QED
  BY <1>7

\* The function that describes the loop satisfies its definition.
LEMMA OpenLoop ==
  ASSUME NEW Z, NEW zr
  PROVE  LET f == open_zones(Z, zr) IN
         /\ f[0] = [acq |-> acquired_cnt, done |-> {}]
         /\ \A i \in 0 .. NR_ZONES - 1 :
              f[i + 1] = IF i \notin Z THEN f[i]
                         ELSE LET o == open_zone(state[i], f[i].acq, zr)
                              IN  [acq |-> o.acq,
                                   done |-> IF o.ok THEN f[i].done \union {i}
                                            ELSE f[i].done]
<1> DEFINE body(g, i) ==
             IF i = 0 THEN [acq |-> acquired_cnt, done |-> {}]
             ELSE IF i - 1 \notin Z THEN g[i - 1]
             ELSE LET before == g[i - 1]
                      o == open_zone(state[i - 1], before.acq, zr)
                  IN  [acq |-> o.acq,
                       done |-> IF o.ok THEN before.done \union {i - 1} ELSE before.done]
           Good == {k \in 0 .. NR_ZONES : \E g : g = [i \in 0 .. k |-> body(g, i)]}
<1>1. NR_ZONES \in Nat
  BY ZnsAssumption
<1>2. 0 \in Good
  <2> DEFINE g == [i \in 0 .. 0 |-> [acq |-> acquired_cnt, done |-> {}]]
  <2>1. g = [i \in 0 .. 0 |-> body(g, i)]
    OBVIOUS
  <2>2. 0 \in 0 .. NR_ZONES
    BY <1>1
  <2> HIDE DEF body, g
  <2> QED
    BY <2>1, <2>2
<1>3. ASSUME NEW k \in 0 .. NR_ZONES - 1, k \in Good
      PROVE  k + 1 \in Good
  <2>1. PICK g : g = [i \in 0 .. k |-> body(g, i)]
    BY <1>3
  <2> DEFINE h == [i \in 0 .. k + 1 |-> body(g, i)]
  <2>2. ASSUME NEW i \in 0 .. k PROVE h[i] = g[i]
    <3>1. h[i] = body(g, i) /\ g[i] = body(g, i)
      <4> HIDE DEF body
      <4> QED BY <2>1
    <3> QED BY <3>1
  <2>3. ASSUME NEW i \in 0 .. k + 1 PROVE body(h, i) = body(g, i)
    <3>1. CASE i = 0
      BY <3>1
    <3>2. CASE i # 0
      <4>1. i - 1 \in 0 .. k
        BY <3>2
      <4>2. h[i - 1] = g[i - 1]
        BY <4>1, <2>2
      <4> HIDE DEF h
      <4> QED
        BY <3>2, <4>2
    <3> QED
      BY <3>1, <3>2
  <2>4. h = [i \in 0 .. k + 1 |-> body(h, i)]
    <3> HIDE DEF body
    <3> QED BY <2>3
  <2>5. k + 1 \in 0 .. NR_ZONES
    BY <1>1
  <2> QED
    BY <2>4, <2>5
<1>4. Good = 0 .. NR_ZONES
  <2>1. Good \in SUBSET (0 .. NR_ZONES)
    OBVIOUS
  <2> HIDE DEF Good
  <2> QED
    BY <1>1, <1>2, <1>3, <2>1, BoundedInduction
<1>5. \E g : g = [i \in 0 .. NR_ZONES |-> body(g, i)]
  <2>1. NR_ZONES \in Good
    <3> HIDE DEF Good
    <3> QED BY <1>4, <1>1
  <2> QED BY <2>1
<1> DEFINE f == open_zones(Z, zr)
<1>6. f = CHOOSE g : g = [i \in 0 .. NR_ZONES |-> body(g, i)]
  BY DEF open_zones
<1>7. f = [i \in 0 .. NR_ZONES |-> body(f, i)]
  <2> HIDE DEF f, body
  <2> QED BY <1>5, <1>6
<1>8. \A i \in 0 .. NR_ZONES : f[i] = body(f, i)
  <2> HIDE DEF f, body
  <2> QED BY <1>7
<1>9. f[0] = body(f, 0)
  <2> HIDE DEF f, body
  <2> QED BY <1>8, <1>1
<1>10. ASSUME NEW i \in 0 .. NR_ZONES - 1
       PROVE  f[i + 1] = body(f, i + 1) /\ (i + 1) - 1 = i /\ i + 1 # 0
  <2>1. i + 1 \in 0 .. NR_ZONES
    BY <1>1
  <2>2. (i + 1) - 1 = i /\ i + 1 # 0
    BY <1>1
  <2> HIDE DEF f, body
  <2> QED BY <1>8, <2>1, <2>2
<1> HIDE DEF f
<1> QED
  BY <1>9, <1>10 DEF f

LEMMA OneMore ==
  ASSUME NEW D \in SUBSET Zone, NEW i \in Zone, i \notin D, NEW S
  PROVE  /\ Cardinality(in_state(D, S)) \in Nat
         /\ Cardinality(in_state(D \union {i}, S))
              = Cardinality(in_state(D, S)) + (IF state[i] \in S THEN 1 ELSE 0)
<1> DEFINE A == in_state(D, S)
           B == in_state(D \union {i}, S)
<1>1. A \in SUBSET Zone /\ i \notin A
  BY DEF in_state
<1>2. IsFiniteSet(A) /\ Cardinality(A) \in Nat
  BY <1>1, FiniteZones
<1>3. CASE state[i] \in S
  <2>1. B = A \union {i}
    BY <1>3 DEF in_state
  <2>2. Cardinality(B) = Cardinality(A) + 1
    <3> HIDE DEF A, B
    <3> QED BY <2>1, <1>1, <1>2, FS_AddElement
  <2> QED
    BY <2>2, <1>2, <1>3
<1>4. CASE state[i] \notin S
  <2>1. B = A
    BY <1>4 DEF in_state
  <2> QED
    BY <2>1, <1>2, <1>4
<1> QED
  BY <1>3, <1>4

\* After the loop the counters have grown by the zones that were opened.
LEMMA OpenCounts ==
  ASSUME state \in [Zone -> ZoneState], acquired_cnt \in [Resource -> Nat],
         NEW Z \in SUBSET Zone, NEW zr \in BOOLEAN
  PROVE  LET all == open_zones(Z, zr)[NR_ZONES] IN
         /\ all.done \in SUBSET Z
         /\ \A z \in all.done : state[z] \in closable
         /\ all.acq \in [Resource -> Nat]
         /\ all.acq["OPEN_ZONE"]
              = acquired_cnt["OPEN_ZONE"] + Cardinality(in_state(all.done, {"EMPTY", "CLOSED"}))
         /\ all.acq["ACTIVE_ZONE"]
              = acquired_cnt["ACTIVE_ZONE"] + Cardinality(in_state(all.done, {"EMPTY"}))
         /\ all.acq["ZRWA_ZONE"]
              = acquired_cnt["ZRWA_ZONE"]
                + (IF zr THEN Cardinality(in_state(all.done, {"EMPTY"})) ELSE 0)
<1> DEFINE f == open_zones(Z, zr)
           closed(D) == Cardinality(in_state(D, {"EMPTY", "CLOSED"}))
           empty(D) == Cardinality(in_state(D, {"EMPTY"}))
           P(x, i) == /\ x.done \in SUBSET Z /\ x.done \subseteq 0 .. i - 1
                      /\ \A z \in x.done : state[z] \in closable
                      /\ x.acq \in [Resource -> Nat]
                      /\ x.acq["OPEN_ZONE"] = acquired_cnt["OPEN_ZONE"] + closed(x.done)
                      /\ x.acq["ACTIVE_ZONE"] = acquired_cnt["ACTIVE_ZONE"] + empty(x.done)
                      /\ x.acq["ZRWA_ZONE"] = acquired_cnt["ZRWA_ZONE"]
                                                + (IF zr THEN empty(x.done) ELSE 0)
           Good == {i \in 0 .. NR_ZONES : P(f[i], i)}
<1>1. NR_ZONES \in Nat
  BY ZnsAssumption
<1>2. f[0] = [acq |-> acquired_cnt, done |-> {}]
  BY OpenLoop
<1>3. \A i \in 0 .. NR_ZONES - 1 :
        f[i + 1] = IF i \notin Z THEN f[i]
                   ELSE LET o == open_zone(state[i], f[i].acq, zr)
                        IN  [acq |-> o.acq,
                             done |-> IF o.ok THEN f[i].done \union {i} ELSE f[i].done]
  BY OpenLoop
<1> HIDE DEF f
<1>4. 0 \in Good
  <2>1. closed({}) = 0 /\ empty({}) = 0
    <3>1. in_state({}, {"EMPTY", "CLOSED"}) = {} /\ in_state({}, {"EMPTY"}) = {}
      BY DEF in_state
    <3> QED BY <3>1, FS_EmptySet
  <2> HIDE DEF closed, empty
  <2>2. /\ acquired_cnt["OPEN_ZONE"] \in Nat /\ acquired_cnt["ACTIVE_ZONE"] \in Nat
        /\ acquired_cnt["ZRWA_ZONE"] \in Nat
    BY DEF Resource
  <2>3. P([acq |-> acquired_cnt, done |-> {}], 0)
    BY <2>1, <2>2
  <2> HIDE DEF P
  <2> QED
    BY <2>3, <1>1, <1>2
<1>5. ASSUME NEW i \in 0 .. NR_ZONES - 1, i \in Good
      PROVE  i + 1 \in Good
  <2>1. P(f[i], i) /\ i \in Zone /\ i + 1 \in 0 .. NR_ZONES /\ i \in Nat
    BY <1>5, <1>1 DEF Zone
  <2>2. PICK x : x = f[i]
    OBVIOUS
  <2>3. PICK o : o = open_zone(state[i], x.acq, zr)
    OBVIOUS
  <2>4. P(x, i)
    BY <2>1, <2>2
  <2>5. f[i + 1] = IF i \notin Z THEN x
                   ELSE [acq |-> o.acq, done |-> IF o.ok THEN x.done \union {i} ELSE x.done]
    BY <1>3, <2>2, <2>3
  <2>6. P(x, i + 1)
    BY <2>4, <2>1
  <2>7. /\ o.acq \in [Resource -> Nat]
        /\ o.ok => state[i] \in closable
        /\ ~o.ok => o.acq = x.acq
        /\ o.ok => o.acq["OPEN_ZONE"] = x.acq["OPEN_ZONE"] + (IF state[i] \in {"EMPTY", "CLOSED"} THEN 1 ELSE 0)
        /\ o.ok => o.acq["ACTIVE_ZONE"] = x.acq["ACTIVE_ZONE"] + (IF state[i] = "EMPTY" THEN 1 ELSE 0)
        /\ o.ok => o.acq["ZRWA_ZONE"] = x.acq["ZRWA_ZONE"] + (IF state[i] = "EMPTY" /\ zr THEN 1 ELSE 0)
    <3>1. state[i] \in ZoneState /\ x.acq \in [Resource -> Nat]
      BY <2>1, <2>4
    <3> QED BY <2>3, <3>1, OpenOne
  <2>8. ASSUME o.ok, i \in Z
        PROVE  P([acq |-> o.acq, done |-> x.done \union {i}], i + 1)
    <3>1. PICK D : D = x.done
      OBVIOUS
    <3>2. D \in SUBSET Zone /\ i \notin D /\ D \in SUBSET Z /\ D \subseteq 0 .. i - 1
      BY <3>1, <2>4, <2>1
    <3>3. /\ closed(D) \in Nat /\ empty(D) \in Nat
          /\ closed(D \union {i}) = closed(D) + (IF state[i] \in {"EMPTY", "CLOSED"} THEN 1 ELSE 0)
          /\ empty(D \union {i}) = empty(D) + (IF state[i] = "EMPTY" THEN 1 ELSE 0)
      BY <3>2, <2>1, OneMore
    <3>4. /\ acquired_cnt["OPEN_ZONE"] \in Nat /\ acquired_cnt["ACTIVE_ZONE"] \in Nat
          /\ acquired_cnt["ZRWA_ZONE"] \in Nat
      BY DEF Resource
    <3>5. D \union {i} \in SUBSET Z /\ D \union {i} \subseteq 0 .. (i + 1) - 1
      <4>1. D \union {i} \in SUBSET Z
        BY <3>2, <2>8
      <4>2. i \in 0 .. (i + 1) - 1 /\ 0 .. i - 1 \subseteq 0 .. (i + 1) - 1
        BY <2>1
      <4> QED BY <4>1, <4>2, <3>2
    <3> HIDE DEF closed, empty
    <3>6. /\ o.acq["OPEN_ZONE"] = acquired_cnt["OPEN_ZONE"] + closed(D \union {i})
          /\ o.acq["ACTIVE_ZONE"] = acquired_cnt["ACTIVE_ZONE"] + empty(D \union {i})
      BY <2>4, <2>7, <2>8, <3>1, <3>3, <3>4
    <3>7. o.acq["ZRWA_ZONE"] = acquired_cnt["ZRWA_ZONE"] + (IF zr THEN empty(D \union {i}) ELSE 0)
      BY <2>4, <2>7, <2>8, <3>1, <3>3, <3>4
    <3>8. \A z \in D \union {i} : state[z] \in closable
      BY <2>4, <2>7, <2>8, <3>1
    <3> QED
      BY <3>1, <3>5, <3>6, <3>7, <3>8, <2>7
  <2>9. ASSUME ~o.ok
        PROVE  P([acq |-> o.acq, done |-> x.done], i + 1)
    <3>1. o.acq = x.acq
      BY <2>7, <2>9
    <3> HIDE DEF closed, empty
    <3> QED BY <3>1, <2>6
  <2>10. P(f[i + 1], i + 1)
    <3> HIDE DEF P
    <3>1. CASE i \notin Z
      BY <3>1, <2>5, <2>6
    <3>2. CASE i \in Z /\ o.ok
      BY <3>2, <2>5, <2>8
    <3>3. CASE i \in Z /\ ~o.ok
      BY <3>3, <2>5, <2>9
    <3> QED
      BY <3>1, <3>2, <3>3
  <2> HIDE DEF P
  <2> QED
    BY <2>1, <2>10
<1>6. Good = 0 .. NR_ZONES
  <2>1. Good \in SUBSET (0 .. NR_ZONES)
    OBVIOUS
  <2> HIDE DEF Good
  <2> QED
    BY <1>1, <1>4, <1>5, <2>1, BoundedInduction
<1>7. P(f[NR_ZONES], NR_ZONES)
  <2>1. NR_ZONES \in Good
    <3> HIDE DEF Good
    <3> QED BY <1>1, <1>6
  <2> HIDE DEF P
  <2> QED BY <2>1
<1> QED
  BY <1>7 DEF f

-----------------------------------------------------------------------------
(* Zone management.                                                        *)

Conserved ==
  \A z \in Zone :
    wb[z] + flushing[z] * ONESHOT + tail[z] * unaligned_space + residue(z) + lost[z]
      = ZONE_WB_SIZE

LEMMA Parts ==
  /\ IInv <=> TypeOK /\ WritePointer /\ ResourceCounts /\ Conserved
  /\ IInv' <=> TypeOK' /\ WritePointer' /\ ResourceCounts' /\ Conserved'
BY DEF IInv, BufferConserved, Conserved

LEMMA SelectionsAreZones ==
  ASSUME NEW Z \in selections
  PROVE  Z \in SUBSET Zone
BY DEF selections

LEMMA NoRet == no_ret \in [zone : Zone, lba : Lba \union {-1}]
BY ZnsAssumption DEF no_ret, Zone

LEMMA InitInv == Init => IInv
<1> SUFFICES ASSUME Init PROVE IInv
  OBVIOUS
<1>1. TypeOK
  <2>1. \A z \in Zone : zone_to_slba(z) \in Nat
    BY Geometry
  <2>2. ZONE_WB_SIZE \in Nat /\ ZRWA_BUFFER_SIZE \in Nat
    BY ZnsAssumption
  <2> QED
    BY <2>1, <2>2, NoRet DEF Init, TypeOK
<1>2. WritePointer
  BY Geometry DEF Init, WritePointer
<1>3. ResourceCounts
  <2>1. in_state(Zone, opened) = {} /\ in_state(Zone, active) = {}
    BY DEF Init, in_state, opened, active
  <2>2. {z \in in_state(Zone, active) : zrwav[z]} = {}
    BY <2>1
  <2>3. Cardinality({}) = 0
    BY FS_EmptySet
  <2>4. acquired_cnt["OPEN_ZONE"] = 0 /\ acquired_cnt["ACTIVE_ZONE"] = 0 /\ acquired_cnt["ZRWA_ZONE"] = 0
    BY DEF Init, Resource
  <2> QED
    BY <2>1, <2>2, <2>3, <2>4 DEF ResourceCounts
<1>4. Conserved
  <2> SUFFICES ASSUME NEW z \in Zone
               PROVE  wb[z] + flushing[z] * ONESHOT + tail[z] * unaligned_space + residue(z) + lost[z]
                        = ZONE_WB_SIZE
    BY DEF Conserved
  <2>1. residue(z) = 0
    <3>1. wp[z] - zone_to_slba(z) = 0
      BY Geometry DEF Init
    <3>2. 0 % ONESHOT = 0
      BY ZnsAssumption
    <3> QED BY <3>1, <3>2 DEF residue
  <2>2. unaligned_space \in Nat /\ ONESHOT \in Nat /\ ZONE_WB_SIZE \in Nat
    BY ZnsAssumption DEF unaligned_space
  <2>3. flushing[z] * ONESHOT = 0 /\ tail[z] * unaligned_space = 0 /\ lost[z] = 0 /\ wb[z] = ZONE_WB_SIZE
    BY <2>2 DEF Init
  <2> QED
    BY <2>1, <2>2, <2>3
<1> QED
  BY <1>1, <1>2, <1>3, <1>4, Parts

LEMMA CloseStep ==
  ASSUME IInv, ~panic, NEW Z \in selections, CloseZone(Z)
  PROVE  IInv'
<1>1. TypeOK /\ WritePointer /\ Conserved /\ Counts(state, zrwav, acquired_cnt)
  BY Parts, CountsForm
<1>2. Z \in SUBSET Zone
  BY SelectionsAreZones
<1>3. /\ state' = [z \in Zone |-> IF z \in in_state(Z, opened) THEN "CLOSED" ELSE state[z]]
      /\ UNCHANGED <<wp, zrwav, wb, zb, flushing, tail, zflushing, lost, held, panic>>
      /\ ret' = no_ret
  BY DEF CloseZone, change_zone_state, buffers, no_outcome
<1>4. Counts(state', zrwav', acquired_cnt') /\ acquired_cnt' \in [Resource -> Nat]
  <2>1. PICK opn, st2, ac2 : opn = in_state(Z, opened) /\ st2 = state' /\ ac2 = acquired_cnt'
    OBVIOUS
  <2>2. /\ opn \in SUBSET InState(state, opened)
        /\ {} \in SUBSET InState(state, active) /\ {} \in SUBSET WithArea(state, zrwav)
    BY <2>1, <1>2 DEF in_state, InState
  <2>3. InState(st2, opened) = InState(state, opened) \ opn
    BY <2>1, <1>2, <1>3 DEF in_state, InState, opened
  <2>4. InState(st2, active) = InState(state, active) \ {}
    BY <2>1, <1>2, <1>3 DEF in_state, InState, opened, active
  <2>5. WithArea(st2, zrwav) = WithArea(state, zrwav) \ {}
    BY <2>1, <1>2, <1>3 DEF in_state, WithArea, opened, active
  <2>6. acquired_cnt \in [Resource -> Nat]
    BY <1>1 DEF TypeOK
  <2>7. /\ ac2 = [r \in Resource |-> ac2[r]]
        /\ ac2["ACTIVE_ZONE"] = acquired_cnt["ACTIVE_ZONE"] - Cardinality({})
        /\ ac2["OPEN_ZONE"] = acquired_cnt["OPEN_ZONE"] - Cardinality(opn)
        /\ ac2["ZRWA_ZONE"] = acquired_cnt["ZRWA_ZONE"] - Cardinality({})
    BY <2>1, <2>6 DEF CloseZone, release, Resource
  <2>8. Counts(st2, zrwav, ac2) /\ ac2 \in [Resource -> Nat]
    BY <1>1, <2>2, <2>3, <2>4, <2>5, <2>6, <2>7, CountsRelease
  <2> QED
    BY <2>1, <2>8, <1>3
<1>5. TypeOK'
  <2>1. state' \in [Zone -> ZoneState]
    BY <1>1, <1>3 DEF TypeOK, ZoneState
  <2> QED
    BY <1>1, <1>3, <1>4, <2>1, NoRet DEF TypeOK, ZoneState
<1>6. WritePointer'
  BY <1>1, <1>3 DEF WritePointer, in_state, opened, TypeOK
<1>7. Conserved'
  BY <1>1, <1>3 DEF Conserved, residue
<1> QED
  BY <1>4, <1>5, <1>6, <1>7, Parts, CountsForm

LEMMA FinishStep ==
  ASSUME IInv, ~panic, NEW Z \in selections, FinishZone(Z)
  PROVE  IInv'
<1>1. TypeOK /\ WritePointer /\ Conserved /\ Counts(state, zrwav, acquired_cnt)
  BY Parts, CountsForm
<1>2. Z \in SUBSET Zone
  BY SelectionsAreZones
<1>3. /\ state' = [z \in Zone |-> IF z \in Z THEN "FULL" ELSE state[z]]
      /\ UNCHANGED <<wp, zrwav, wb, zb, flushing, tail, zflushing, lost, held, panic>>
      /\ ret' = no_ret
  <2>1. in_state(Z, active \union {"EMPTY", "FULL"}) = Z
    BY <1>1, <1>2 DEF in_state, active, opened, TypeOK
  <2> QED
    BY <2>1 DEF FinishZone, change_zone_state, buffers, no_outcome
<1>4. Counts(state', zrwav', acquired_cnt') /\ acquired_cnt' \in [Resource -> Nat]
  <2>1. PICK act, opn, zr, st2, ac2 :
          /\ act = in_state(Z, active) /\ opn = in_state(Z, opened)
          /\ zr = {z \in in_state(Z, active) : zrwav[z]}
          /\ st2 = state' /\ ac2 = acquired_cnt'
    OBVIOUS
  <2>2. /\ opn \in SUBSET InState(state, opened)
        /\ act \in SUBSET InState(state, active) /\ zr \in SUBSET WithArea(state, zrwav)
    BY <2>1, <1>2 DEF in_state, InState, WithArea
  <2>3. InState(st2, opened) = InState(state, opened) \ opn
    BY <2>1, <1>2, <1>3 DEF in_state, InState, opened
  <2>4. InState(st2, active) = InState(state, active) \ act
    BY <2>1, <1>2, <1>3 DEF in_state, InState, opened, active
  <2>5. WithArea(st2, zrwav) = WithArea(state, zrwav) \ zr
    BY <2>1, <1>2, <1>3 DEF in_state, WithArea, opened, active
  <2>6. acquired_cnt \in [Resource -> Nat]
    BY <1>1 DEF TypeOK
  <2>7. /\ ac2 = [r \in Resource |-> ac2[r]]
        /\ ac2["ACTIVE_ZONE"] = acquired_cnt["ACTIVE_ZONE"] - Cardinality(act)
        /\ ac2["OPEN_ZONE"] = acquired_cnt["OPEN_ZONE"] - Cardinality(opn)
        /\ ac2["ZRWA_ZONE"] = acquired_cnt["ZRWA_ZONE"] - Cardinality(zr)
    BY <2>1, <2>6 DEF FinishZone, release, Resource
  <2>8. Counts(st2, zrwav, ac2) /\ ac2 \in [Resource -> Nat]
    BY <1>1, <2>2, <2>3, <2>4, <2>5, <2>6, <2>7, CountsRelease
  <2> QED
    BY <2>1, <2>8, <1>3
<1>5. TypeOK'
  <2>1. state' \in [Zone -> ZoneState]
    BY <1>1, <1>3 DEF TypeOK, ZoneState
  <2> QED
    BY <1>1, <1>3, <1>4, <2>1, NoRet DEF TypeOK, ZoneState
<1>6. WritePointer'
  BY <1>1, <1>3 DEF WritePointer, TypeOK
<1>7. Conserved'
  BY <1>1, <1>3 DEF Conserved, residue
<1> QED
  BY <1>4, <1>5, <1>6, <1>7, Parts, CountsForm

LEMMA ResidueType ==
  ASSUME TypeOK, WritePointer, NEW z \in Zone
  PROVE  residue(z) \in Nat
<1>1. wp[z] - zone_to_slba(z) \in Nat
  BY Geometry DEF TypeOK, WritePointer
<1>2. (wp[z] - zone_to_slba(z)) % ONESHOT \in Nat
  BY <1>1, ZnsAssumption
<1> QED
  BY <1>2 DEF residue

LEMMA ResetStep ==
  ASSUME IInv, ~panic, NEW Z \in selections, ResetZone(Z)
  PROVE  IInv'
<1>1. TypeOK /\ WritePointer /\ Conserved /\ Counts(state, zrwav, acquired_cnt)
  BY Parts, CountsForm
<1>2. Z \in SUBSET Zone
  BY SelectionsAreZones
<1>3. /\ state' = [z \in Zone |-> IF z \in Z THEN "EMPTY" ELSE state[z]]
      /\ wp' = [z \in Zone |-> IF z \in Z THEN zone_to_slba(z) ELSE wp[z]]
      /\ zrwav' = [z \in Zone |-> z \notin Z /\ zrwav[z]]
      /\ zb' = [z \in Zone |-> IF z \in Z THEN ZRWA_BUFFER_SIZE ELSE zb[z]]
      /\ lost' = [z \in Zone |-> lost[z] + (IF z \in Z THEN residue(z) ELSE 0)]
      /\ UNCHANGED <<wb, flushing, tail, zflushing, held, panic>>
      /\ ret' = no_ret
  <2>1. in_state(Z, active \union {"EMPTY", "FULL"}) = Z
    BY <1>1, <1>2 DEF in_state, active, opened, TypeOK
  <2> QED
    BY <2>1 DEF ResetZone, change_zone_state, no_outcome
<1>4. Counts(state', zrwav', acquired_cnt') /\ acquired_cnt' \in [Resource -> Nat]
  <2>1. PICK act, opn, zr, st2, zv2, ac2 :
          /\ act = in_state(Z, active) /\ opn = in_state(Z, opened)
          /\ zr = {z \in in_state(Z, active) : zrwav[z]}
          /\ st2 = state' /\ zv2 = zrwav' /\ ac2 = acquired_cnt'
    OBVIOUS
  <2>2. /\ opn \in SUBSET InState(state, opened)
        /\ act \in SUBSET InState(state, active) /\ zr \in SUBSET WithArea(state, zrwav)
    BY <2>1, <1>2 DEF in_state, InState, WithArea
  <2>3. InState(st2, opened) = InState(state, opened) \ opn
    BY <2>1, <1>2, <1>3 DEF in_state, InState, opened
  <2>4. InState(st2, active) = InState(state, active) \ act
    BY <2>1, <1>2, <1>3 DEF in_state, InState, opened, active
  <2>5. WithArea(st2, zv2) = WithArea(state, zrwav) \ zr
    BY <2>1, <1>2, <1>3 DEF in_state, WithArea, opened, active
  <2>6. acquired_cnt \in [Resource -> Nat]
    BY <1>1 DEF TypeOK
  <2>7. /\ ac2 = [r \in Resource |-> ac2[r]]
        /\ ac2["ACTIVE_ZONE"] = acquired_cnt["ACTIVE_ZONE"] - Cardinality(act)
        /\ ac2["OPEN_ZONE"] = acquired_cnt["OPEN_ZONE"] - Cardinality(opn)
        /\ ac2["ZRWA_ZONE"] = acquired_cnt["ZRWA_ZONE"] - Cardinality(zr)
    BY <2>1, <2>6 DEF ResetZone, release, Resource, reset_opn
  <2>8. Counts(st2, zv2, ac2) /\ ac2 \in [Resource -> Nat]
    BY <1>1, <2>2, <2>3, <2>4, <2>5, <2>6, <2>7, CountsRelease
  <2> QED
    BY <2>1, <2>8
<1>5. TypeOK'
  <2>1. state' \in [Zone -> ZoneState]
    BY <1>1, <1>3 DEF TypeOK, ZoneState
  <2>2. \A z \in Zone : residue(z) \in Nat /\ zone_to_slba(z) \in Nat
    BY <1>1, ResidueType, Geometry
  <2>3. wp' \in [Zone -> Nat] /\ lost' \in [Zone -> Nat]
    BY <1>1, <1>3, <2>2 DEF TypeOK
  <2>4. zb' \in [Zone -> Nat] /\ zrwav' \in [Zone -> BOOLEAN]
    BY <1>1, <1>3, ZnsAssumption DEF TypeOK
  <2> QED
    BY <1>1, <1>3, <1>4, <2>1, <2>3, <2>4, NoRet DEF TypeOK, ZoneState
<1>6. WritePointer'
  <2> SUFFICES ASSUME NEW z \in Zone
               PROVE  /\ wp'[z] \in zone_to_slba(z) .. zone_end(z)
                      /\ state'[z] = "EMPTY" => wp'[z] = zone_to_slba(z) /\ ~zrwav'[z]
                      /\ wp'[z] = zone_end(z) => state'[z] = "FULL"
    BY DEF WritePointer, zone_to_slba, zone_end
  <2>1. /\ state'[z] = IF z \in Z THEN "EMPTY" ELSE state[z]
        /\ wp'[z] = IF z \in Z THEN zone_to_slba(z) ELSE wp[z]
        /\ zrwav'[z] <=> z \notin Z /\ zrwav[z]
    BY <1>3
  <2>2. /\ wp[z] \in zone_to_slba(z) .. zone_end(z)
        /\ state[z] = "EMPTY" => wp[z] = zone_to_slba(z) /\ ~zrwav[z]
        /\ wp[z] = zone_end(z) => state[z] = "FULL"
    BY <1>1 DEF WritePointer
  <2> QED
    BY <2>1, <2>2, Geometry
<1>7. Conserved'
  <2> SUFFICES ASSUME NEW z \in Zone
               PROVE  wb'[z] + flushing'[z] * ONESHOT + tail'[z] * unaligned_space + residue(z)' + lost'[z]
                        = ZONE_WB_SIZE
    BY DEF Conserved, unaligned_space
  <2>1. wb[z] + flushing[z] * ONESHOT + tail[z] * unaligned_space + residue(z) + lost[z]
          = ZONE_WB_SIZE
    BY <1>1 DEF Conserved
  <2>2. CASE z \in Z
    <3>1. residue(z)' = 0
      <4>1. wp'[z] - zone_to_slba(z) = 0
        BY <1>3, <2>2, Geometry
      <4>2. 0 % ONESHOT = 0
        BY ZnsAssumption
      <4> QED BY <4>1, <4>2 DEF residue, zone_to_slba, zone_end
    <3>2. lost'[z] = lost[z] + residue(z)
      BY <1>3, <2>2
    <3>3. /\ residue(z) \in Nat /\ lost[z] \in Nat /\ wb[z] \in Nat
          /\ flushing[z] \in Nat /\ tail[z] \in Nat
      BY <1>1, ResidueType DEF TypeOK
    <3>4. flushing[z] * ONESHOT \in Nat /\ tail[z] * unaligned_space \in Nat
      BY <3>3, ZnsAssumption DEF unaligned_space
    <3> QED
      BY <3>1, <3>2, <3>3, <3>4, <2>1, <1>3
  <2>3. CASE z \notin Z
    <3>1. residue(z)' = residue(z)
      BY <1>3, <2>3 DEF residue, zone_to_slba, zone_end
    <3>2. lost'[z] = lost[z]
      BY <1>1, <1>3, <2>3 DEF TypeOK
    <3> QED
      BY <3>1, <3>2, <2>1, <1>3
  <2> QED
    BY <2>2, <2>3
<1> QED
  BY <1>4, <1>5, <1>6, <1>7, Parts, CountsForm

LEMMA OpenStep ==
  ASSUME IInv, ~panic, NEW Z \in selections, NEW zr \in BOOLEAN, OpenZone(Z, zr)
  PROVE  IInv'
<1>1. TypeOK /\ WritePointer /\ Conserved /\ Counts(state, zrwav, acquired_cnt)
  BY Parts, CountsForm
<1>2. Z \in SUBSET Zone
  BY SelectionsAreZones
<1>3. PICK all : all = open_zones(Z, zr)[NR_ZONES]
  OBVIOUS
<1>4. PICK D : D = all.done
  OBVIOUS
<1>5. /\ acquired_cnt' = all.acq
      /\ state' = [z \in Zone |-> IF z \in D THEN "OPENED_EXPL" ELSE state[z]]
      /\ zrwav' = [z \in Zone |-> zrwav[z] \/ (zr /\ z \in D /\ state[z] = "EMPTY")]
      /\ UNCHANGED <<wp, wb, zb, flushing, tail, zflushing, lost, held, panic>>
      /\ ret' = no_ret
  BY <1>3, <1>4 DEF OpenZone, buffers, no_outcome
<1>6. /\ D \in SUBSET Zone
      /\ \A z \in D : state[z] \in closable
      /\ acquired_cnt' \in [Resource -> Nat]
      /\ acquired_cnt'["OPEN_ZONE"]
           = acquired_cnt["OPEN_ZONE"] + Cardinality(in_state(D, {"EMPTY", "CLOSED"}))
      /\ acquired_cnt'["ACTIVE_ZONE"]
           = acquired_cnt["ACTIVE_ZONE"] + Cardinality(in_state(D, {"EMPTY"}))
      /\ acquired_cnt'["ZRWA_ZONE"]
           = acquired_cnt["ZRWA_ZONE"]
             + (IF zr THEN Cardinality(in_state(D, {"EMPTY"})) ELSE 0)
  <2>1. state \in [Zone -> ZoneState] /\ acquired_cnt \in [Resource -> Nat]
    BY <1>1 DEF TypeOK, ZoneState
  <2>2. LET x == open_zones(Z, zr)[NR_ZONES] IN
         /\ x.done \in SUBSET Z
         /\ \A z \in x.done : state[z] \in closable
         /\ x.acq \in [Resource -> Nat]
         /\ x.acq["OPEN_ZONE"]
              = acquired_cnt["OPEN_ZONE"] + Cardinality(in_state(x.done, {"EMPTY", "CLOSED"}))
         /\ x.acq["ACTIVE_ZONE"]
              = acquired_cnt["ACTIVE_ZONE"] + Cardinality(in_state(x.done, {"EMPTY"}))
         /\ x.acq["ZRWA_ZONE"]
              = acquired_cnt["ZRWA_ZONE"]
                + (IF zr THEN Cardinality(in_state(x.done, {"EMPTY"})) ELSE 0)
    BY <2>1, <1>2, OpenCounts
  <2>3. D \in SUBSET Z
    BY <2>2, <1>3, <1>4
  <2> QED
    BY <2>2, <2>3, <1>2, <1>3, <1>4, <1>5
<1>7. PICK E, C, O, A, W : /\ E = in_state(D, {"EMPTY"}) /\ C = in_state(D, {"EMPTY", "CLOSED"})
                           /\ O = InState(state, opened) /\ A = InState(state, active)
                           /\ W = WithArea(state, zrwav)
  OBVIOUS
<1>8. /\ IsFiniteSet(E) /\ IsFiniteSet(C) /\ IsFiniteSet(O) /\ IsFiniteSet(A) /\ IsFiniteSet(W)
  <2>1. E \in SUBSET Zone /\ C \in SUBSET Zone /\ O \in SUBSET Zone /\ A \in SUBSET Zone /\ W \in SUBSET Zone
    BY <1>6, <1>7 DEF in_state, InState, WithArea
  <2> QED BY <2>1, FiniteZones
<1>9. Counts(state', zrwav', acquired_cnt')
  <2>1. InState(state', opened) = O \union C /\ O \intersect C = {}
    BY <1>1, <1>5, <1>6, <1>7 DEF TypeOK, InState, in_state, opened, closable
  <2>2. InState(state', active) = A \union E /\ A \intersect E = {}
    BY <1>1, <1>5, <1>6, <1>7 DEF TypeOK, InState, in_state, opened, active, closable
  <2>3. W \intersect E = {}
    BY <1>7 DEF WithArea, in_state, active, opened
  <2>4. /\ zr => WithArea(state', zrwav') = W \union E
        /\ ~zr => WithArea(state', zrwav') = W
    <3>1. \A z \in Zone : state[z] = "EMPTY" => ~zrwav[z]
      BY <1>1 DEF WritePointer
    <3>2. \A z \in Zone : (state'[z] \in active) <=> (state[z] \in active \/ z \in E)
      BY <1>1, <1>5, <1>6, <1>7 DEF TypeOK, in_state, opened, active, closable
    <3>3. \A z \in Zone : zrwav'[z] <=> zrwav[z] \/ (zr /\ z \in E)
      BY <1>5, <1>6, <1>7 DEF in_state
    <3>4. E \in SUBSET Zone /\ \A z \in E : ~zrwav[z]
      BY <3>1, <1>6, <1>7 DEF in_state
    <3>5. \A z : z \in WithArea(state', zrwav') <=> z \in W \/ (zr /\ z \in E)
      BY <3>2, <3>3, <3>4, <1>7 DEF WithArea
    <3> QED BY <3>5
  <2>5. /\ Cardinality(O \union C) = Cardinality(O) + Cardinality(C)
        /\ Cardinality(A \union E) = Cardinality(A) + Cardinality(E)
        /\ Cardinality(W \union E) = Cardinality(W) + Cardinality(E)
        /\ Cardinality(W) \in Nat /\ Cardinality(E) \in Nat
    BY <1>8, <2>1, <2>2, <2>3, CardAdd
  <2>6. acquired_cnt["ZRWA_ZONE"] >= Cardinality(W) /\ acquired_cnt["ZRWA_ZONE"] \in Nat
    BY <1>1, <1>7 DEF Counts, TypeOK, Resource
  <2>7. acquired_cnt["OPEN_ZONE"] = Cardinality(O) /\ acquired_cnt["ACTIVE_ZONE"] = Cardinality(A)
    BY <1>1, <1>7 DEF Counts
  <2>8. /\ acquired_cnt'["OPEN_ZONE"] = Cardinality(InState(state', opened))
        /\ acquired_cnt'["ACTIVE_ZONE"] = Cardinality(InState(state', active))
    BY <1>6, <1>7, <2>1, <2>2, <2>5, <2>7
  <2>9. acquired_cnt'["ZRWA_ZONE"] >= Cardinality(WithArea(state', zrwav'))
    <3>1. CASE zr
      <4>1. acquired_cnt'["ZRWA_ZONE"] = acquired_cnt["ZRWA_ZONE"] + Cardinality(E)
        BY <3>1, <1>6, <1>7
      <4>2. Cardinality(WithArea(state', zrwav')) = Cardinality(W) + Cardinality(E)
        BY <3>1, <2>4, <2>5
      <4> QED
        BY <4>1, <4>2, <2>5, <2>6
    <3>2. CASE ~zr
      BY <3>2, <1>6, <2>4, <2>5, <2>6
    <3> QED BY <3>1, <3>2
  <2> QED
    BY <2>8, <2>9 DEF Counts
<1>10. TypeOK'
  <2>1. state' \in [Zone -> ZoneState] /\ zrwav' \in [Zone -> BOOLEAN]
    BY <1>1, <1>5 DEF TypeOK, ZoneState
  <2> QED
    BY <1>1, <1>5, <1>6, <2>1, NoRet DEF TypeOK, ZoneState
<1>11. WritePointer'
  <2> SUFFICES ASSUME NEW z \in Zone
               PROVE  /\ wp'[z] \in zone_to_slba(z) .. zone_end(z)
                      /\ state'[z] = "EMPTY" => wp'[z] = zone_to_slba(z) /\ ~zrwav'[z]
                      /\ wp'[z] = zone_end(z) => state'[z] = "FULL"
    BY DEF WritePointer, zone_to_slba, zone_end
  <2>1. /\ wp[z] \in zone_to_slba(z) .. zone_end(z)
        /\ state[z] = "EMPTY" => wp[z] = zone_to_slba(z) /\ ~zrwav[z]
        /\ wp[z] = zone_end(z) => state[z] = "FULL"
    BY <1>1 DEF WritePointer
  <2>2. z \in D => state[z] # "FULL"
    BY <1>6 DEF closable, opened
  <2> QED
    BY <2>1, <2>2, <1>5
<1>12. Conserved'
  <2> SUFFICES ASSUME NEW z \in Zone
               PROVE  residue(z)' = residue(z)
    BY <1>1, <1>5 DEF Conserved, unaligned_space
  <2>1. CASE z \in D /\ state[z] = "EMPTY"
    <3>1. wp[z] = zone_to_slba(z) /\ wp'[z] = wp[z]
      BY <2>1, <1>1, <1>5 DEF WritePointer
    <3>2. wp[z] - zone_to_slba(z) = 0 /\ 0 % ONESHOT = 0
      BY <3>1, Geometry, ZnsAssumption
    <3>3. residue(z) = 0
      BY <3>2 DEF residue
    <3>4. residue(z)' = 0
      BY <3>1, <3>2 DEF residue, zone_to_slba, zone_end
    <3> QED BY <3>3, <3>4
  <2>2. CASE ~(z \in D /\ state[z] = "EMPTY")
    <3>1. zrwav'[z] = zrwav[z] /\ wp'[z] = wp[z]
      BY <2>2, <1>1, <1>5 DEF TypeOK
    <3> QED BY <3>1 DEF residue, zone_to_slba, zone_end
  <2> QED
    BY <2>1, <2>2
<1> QED
  BY <1>9, <1>10, <1>11, <1>12, Parts, CountsForm

LEMMA FlushStep ==
  ASSUME IInv, ~panic, NEW z \in Zone, NEW a \in Lba, FlushZrwa(z, a)
  PROVE  IInv'
<1>1. TypeOK /\ WritePointer /\ Conserved /\ Counts(state, zrwav, acquired_cnt)
  BY Parts, CountsForm
<1>2. /\ zrwav[z] /\ state[z] \in active /\ a + 1 <= zone_end(z) /\ a + 1 \in zone_to_slba(z) .. zone_end(z)
  <2>1. wp[z] \in zone_to_slba(z) .. zone_end(z) /\ a >= wp[z] /\ a <= zone_end(z) - 1 /\ a \in Nat
    BY <1>1 DEF FlushZrwa, flush_valid, WritePointer, Lba
  <2> QED
    BY <2>1, Geometry DEF FlushZrwa, flush_valid
<1>3. /\ wp' = [wp EXCEPT ![z] = a + 1]
      /\ UNCHANGED <<zrwav, wb, zb, flushing, tail, zflushing, lost, held, panic>>
      /\ ret' = no_ret
  BY DEF FlushZrwa, buffers, no_outcome
<1>4. /\ state' = IF a + 1 = zone_end(z) THEN [state EXCEPT ![z] = "FULL"] ELSE state
      /\ Counts(state', zrwav', acquired_cnt') /\ acquired_cnt' \in [Resource -> Nat]
  <2>1. CASE a + 1 = zone_end(z)
    <3>1. state' = [state EXCEPT ![z] = "FULL"] /\ release({z}, in_state({z}, opened), {z})
      BY <2>1 DEF FlushZrwa, reaches_end
    <3>2. PICK opn, st2, ac2 : opn = in_state({z}, opened) /\ st2 = state' /\ ac2 = acquired_cnt'
      OBVIOUS
    <3>3. /\ opn \in SUBSET InState(state, opened)
          /\ {z} \in SUBSET InState(state, active) /\ {z} \in SUBSET WithArea(state, zrwav)
      BY <3>2, <1>2 DEF in_state, InState, WithArea
    <3>4. InState(st2, opened) = InState(state, opened) \ opn
      BY <3>1, <3>2, <1>1 DEF in_state, InState, opened, TypeOK
    <3>5. InState(st2, active) = InState(state, active) \ {z}
      BY <3>1, <3>2, <1>1 DEF InState, active, opened, TypeOK
    <3>6. WithArea(st2, zrwav) = WithArea(state, zrwav) \ {z}
      BY <3>1, <3>2, <1>1 DEF WithArea, active, opened, TypeOK
    <3>7. acquired_cnt \in [Resource -> Nat]
      BY <1>1 DEF TypeOK
    <3>8. /\ ac2 = [r \in Resource |-> ac2[r]]
          /\ ac2["ACTIVE_ZONE"] = acquired_cnt["ACTIVE_ZONE"] - Cardinality({z})
          /\ ac2["OPEN_ZONE"] = acquired_cnt["OPEN_ZONE"] - Cardinality(opn)
          /\ ac2["ZRWA_ZONE"] = acquired_cnt["ZRWA_ZONE"] - Cardinality({z})
      BY <3>1, <3>2, <3>7 DEF release, Resource
    <3>9. Counts(st2, zrwav, ac2) /\ ac2 \in [Resource -> Nat]
      BY <1>1, <3>3, <3>4, <3>5, <3>6, <3>7, <3>8, CountsRelease
    <3> QED
      BY <3>1, <3>2, <3>9, <1>3, <2>1
  <2>2. CASE a + 1 # zone_end(z)
    <3>1. UNCHANGED <<state, acquired_cnt>>
      BY <2>2 DEF FlushZrwa, reaches_end
    <3> QED
      BY <3>1, <2>2, <1>1, <1>3 DEF TypeOK
  <2> QED
    BY <2>1, <2>2
<1>5. TypeOK'
  <2>1. state' \in [Zone -> ZoneState]
    BY <1>1, <1>4 DEF TypeOK, ZoneState
  <2>2. wp' \in [Zone -> Nat]
    BY <1>1, <1>3 DEF TypeOK, Lba
  <2> QED
    BY <1>1, <1>3, <1>4, <2>1, <2>2, NoRet DEF TypeOK, ZoneState
<1>6. WritePointer'
  <2> SUFFICES ASSUME NEW y \in Zone
               PROVE  /\ wp'[y] \in zone_to_slba(y) .. zone_end(y)
                      /\ state'[y] = "EMPTY" => wp'[y] = zone_to_slba(y) /\ ~zrwav'[y]
                      /\ wp'[y] = zone_end(y) => state'[y] = "FULL"
    BY DEF WritePointer, zone_to_slba, zone_end
  <2>1. /\ wp[y] \in zone_to_slba(y) .. zone_end(y)
        /\ state[y] = "EMPTY" => wp[y] = zone_to_slba(y) /\ ~zrwav[y]
        /\ wp[y] = zone_end(y) => state[y] = "FULL"
    BY <1>1 DEF WritePointer
  <2>2. /\ wp'[y] = IF y = z THEN a + 1 ELSE wp[y]
        /\ state'[y] = IF y = z /\ a + 1 = zone_end(z) THEN "FULL" ELSE state[y]
    BY <1>1, <1>3, <1>4 DEF TypeOK
  <2>3. state[z] # "EMPTY"
    BY <1>2 DEF active, opened
  <2> QED
    BY <2>1, <2>2, <2>3, <1>2, <1>3
<1>7. Conserved'
  <2> SUFFICES ASSUME NEW y \in Zone
               PROVE  residue(y)' = residue(y)
    BY <1>1, <1>3 DEF Conserved, unaligned_space
  <2>1. CASE y = z
    BY <2>1, <1>2, <1>3 DEF residue
  <2>2. CASE y # z
    <3>1. zrwav'[y] = zrwav[y] /\ wp'[y] = wp[y]
      BY <2>2, <1>1, <1>3 DEF TypeOK
    <3> QED BY <3>1 DEF residue, zone_to_slba, zone_end
  <2> QED
    BY <2>1, <2>2
<1> QED
  BY <1>4, <1>5, <1>6, <1>7, Parts, CountsForm

-----------------------------------------------------------------------------
(* Writes.                                                                 *)

\* One zone moves to the state s, and the counters follow.  ZRWA_ZONE is left
\* alone, so that the zone must not gain an area.
LEMMA CountsMove ==
  ASSUME NEW st \in [Zone -> ZoneState], NEW zv, NEW ac \in [Resource -> Nat],
         Counts(st, zv, ac), NEW z \in Zone, NEW s \in ZoneState,
         s \in active /\ zv[z] => st[z] \in active,
         NEW ac2 \in [Resource -> Int],
         ac2["OPEN_ZONE"] = ac["OPEN_ZONE"] + one(s, opened)
                                            - one(st[z], opened),
         ac2["ACTIVE_ZONE"] = ac["ACTIVE_ZONE"] + one(s, active)
                                                - one(st[z], active),
         ac2["ZRWA_ZONE"] = ac["ZRWA_ZONE"]
  PROVE  Counts([st EXCEPT ![z] = s], zv, ac2) /\ ac2 \in [Resource -> Nat]
<1>1. PICK st2 : st2 = [st EXCEPT ![z] = s]
  OBVIOUS
<1>2. ASSUME NEW S
      PROVE  /\ Cardinality(InState(st2, S)) \in Nat
             /\ Cardinality(InState(st2, S))
                  = Cardinality(InState(st, S)) + one(s, S)
                                                - one(st[z], S)
  BY <1>1, CountOne, ZenonT(60)
<1>3. /\ Cardinality(InState(st2, opened)) \in Nat
      /\ ac2["OPEN_ZONE"] = Cardinality(InState(st2, opened))
      /\ Cardinality(InState(st2, active)) \in Nat
      /\ ac2["ACTIVE_ZONE"] = Cardinality(InState(st2, active))
  BY <1>2 DEF Counts
<1>4. ac2["ZRWA_ZONE"] \in Nat /\ ac2["ZRWA_ZONE"] >= Cardinality(WithArea(st2, zv))
  <2>1. WithArea(st2, zv) \in SUBSET WithArea(st, zv) /\ WithArea(st, zv) \in SUBSET Zone
    BY <1>1 DEF WithArea
  <2>2. IsFiniteSet(WithArea(st, zv)) /\ Cardinality(WithArea(st, zv)) \in Nat
    BY <2>1, FiniteZones
  <2>3. Cardinality(WithArea(st2, zv)) <= Cardinality(WithArea(st, zv))
    BY <2>1, <2>2, FS_Subset
  <2>4. Cardinality(WithArea(st2, zv)) \in Nat
    <3>1. WithArea(st2, zv) \in SUBSET Zone
      BY <2>1
    <3> QED BY <3>1, FiniteZones
  <2>5. ac["ZRWA_ZONE"] \in Nat /\ ac["ZRWA_ZONE"] >= Cardinality(WithArea(st, zv))
    BY DEF Counts, Resource
  <2> QED
    BY <2>2, <2>3, <2>4, <2>5
<1>5. ac2 \in [Resource -> Nat]
  <2>1. \A r \in Resource : ac2[r] \in Nat
    BY <1>3, <1>4 DEF Resource
  <2> QED
    BY <2>1
<1> QED
  BY <1>1, <1>3, <1>4, <1>5 DEF Counts

\* __increase_write_ptr, by at least one block or from a zone that is not empty.
LEMMA Advance ==
  ASSUME TypeOK, WritePointer, Counts(state, zrwav, acquired_cnt),
         NEW z \in Zone, NEW n \in Nat, NEW act, NEW opn,
         state[z] # "FULL", wp[z] + n <= zone_end(z),
         act = IF state[z] = "EMPTY" THEN 1 ELSE 0,
         opn = IF state[z] \in {"EMPTY", "CLOSED"} THEN 1 ELSE 0,
         increase_write_ptr(z, n, act, opn), zrwav' = zrwav
  PROVE  /\ Counts(state', zrwav', acquired_cnt')
         /\ acquired_cnt' \in [Resource -> Nat]
         /\ state' \in [Zone -> ZoneState]
         /\ wp' \in [Zone -> Nat]
         /\ WritePointer'
<1>1. PICK s : s = IF wp[z] + n = zone_end(z) THEN "FULL"
                   ELSE IF state[z] \in opened THEN state[z] ELSE "OPENED_IMPL"
  OBVIOUS
<1>2. state \in [Zone -> ZoneState] /\ acquired_cnt \in [Resource -> Nat] /\ wp \in [Zone -> Nat]
  BY DEF TypeOK, ZoneState
<1>3. /\ wp' = [wp EXCEPT ![z] = wp[z] + n]
      /\ state' = [state EXCEPT ![z] = s]
      /\ acquired_cnt' = [acquired_cnt EXCEPT
           !["ACTIVE_ZONE"] = @ + act - (IF wp[z] + n = zone_end(z) THEN 1 ELSE 0),
           !["OPEN_ZONE"] = @ + opn - (IF wp[z] + n = zone_end(z) THEN 1 ELSE 0)]
  BY <1>1 DEF increase_write_ptr, reaches_end, fill_releases
<1>4. s \in ZoneState /\ s # "EMPTY" /\ state[z] \in ZoneState
  BY <1>1, <1>2 DEF ZoneState, opened
<1>5. /\ s \in active => s \in opened
      /\ s = "FULL" <=> wp[z] + n = zone_end(z)
      /\ s \in opened <=> wp[z] + n # zone_end(z)
  BY <1>1 DEF active, opened
<1>6. /\ state[z] \in active <=> state[z] # "EMPTY"
      /\ state[z] \in opened <=> state[z] \notin {"EMPTY", "CLOSED"}
      /\ s \in opened => s \in active
  BY <1>4 DEF active, opened, ZoneState
<1>7. PICK ac2 : ac2 = acquired_cnt'
  OBVIOUS
<1>8. /\ ac2 \in [Resource -> Int]
      /\ ac2["ACTIVE_ZONE"] = acquired_cnt["ACTIVE_ZONE"] + act - (IF wp[z] + n = zone_end(z) THEN 1 ELSE 0)
      /\ ac2["OPEN_ZONE"] = acquired_cnt["OPEN_ZONE"] + opn - (IF wp[z] + n = zone_end(z) THEN 1 ELSE 0)
      /\ ac2["ZRWA_ZONE"] = acquired_cnt["ZRWA_ZONE"]
      /\ acquired_cnt["OPEN_ZONE"] \in Nat /\ acquired_cnt["ACTIVE_ZONE"] \in Nat
  BY <1>2, <1>3, <1>7 DEF Resource
<1>9. /\ ac2["OPEN_ZONE"] = acquired_cnt["OPEN_ZONE"] + one(s, opened)
                                            - one(state[z], opened)
      /\ ac2["ACTIVE_ZONE"] = acquired_cnt["ACTIVE_ZONE"] + one(s, active)
                                                - one(state[z], active)
  BY <1>5, <1>6, <1>8 DEF one
<1>10. s \in active /\ zrwav[z] => state[z] \in active
  BY <1>6 DEF WritePointer
<1>11. Counts([state EXCEPT ![z] = s], zrwav, ac2) /\ ac2 \in [Resource -> Nat]
  BY <1>2, <1>4, <1>8, <1>9, <1>10, CountsMove
<1>12. Counts(state', zrwav', acquired_cnt') /\ acquired_cnt' \in [Resource -> Nat]
  BY <1>3, <1>7, <1>11
<1>13. state' \in [Zone -> ZoneState] /\ wp' \in [Zone -> Nat]
  BY <1>2, <1>3, <1>4
<1>14. WritePointer'
  <2> SUFFICES ASSUME NEW y \in Zone
               PROVE  /\ wp'[y] \in zone_to_slba(y) .. zone_end(y)
                      /\ state'[y] = "EMPTY" => wp'[y] = zone_to_slba(y) /\ ~zrwav'[y]
                      /\ wp'[y] = zone_end(y) => state'[y] = "FULL"
    BY DEF WritePointer, zone_to_slba, zone_end
  <2>1. /\ wp[y] \in zone_to_slba(y) .. zone_end(y)
        /\ state[y] = "EMPTY" => wp[y] = zone_to_slba(y) /\ ~zrwav[y]
        /\ wp[y] = zone_end(y) => state[y] = "FULL"
    BY DEF WritePointer
  <2>2. /\ wp'[y] = IF y = z THEN wp[z] + n ELSE wp[y]
        /\ state'[y] = IF y = z THEN s ELSE state[y]
    BY <1>2, <1>3
  <2>3. CASE y = z
    BY <2>1, <2>2, <2>3, <1>4, <1>5, Geometry
  <2>4. CASE y # z
    BY <2>1, <2>2, <2>4
  <2> QED BY <2>3, <2>4
<1> QED
  BY <1>12, <1>13, <1>14

\* The one-shot pages that n blocks complete, and what is left of them.
LEMMA PagesCompleted ==
  ASSUME NEW m \in Nat \ {0}, NEW off \in Nat, NEW n \in Nat
  PROVE  /\ (off + n) \div m - off \div m \in Nat
         /\ ((off + n) \div m - off \div m) * m + ((off + n) % m) = n + (off % m)
<1>1. PICK q1, r1 : q1 = off \div m /\ r1 = off % m
  OBVIOUS
<1>2. PICK e \in Nat : e = off + n
  OBVIOUS
<1>3. PICK q2, r2 : q2 = e \div m /\ r2 = e % m
  OBVIOUS
<1>4. q1 \in Nat /\ r1 \in 0 .. m - 1 /\ off = m * q1 + r1
  BY <1>1, DivMod
<1>5. q2 \in Nat /\ r2 \in 0 .. m - 1 /\ e = m * q2 + r2
  BY <1>2, <1>3, DivMod
<1>6. q1 <= q2
  <2>1. SUFFICES ASSUME q2 + 1 <= q1 PROVE FALSE
    BY <1>4, <1>5
  <2>2. m * (q2 + 1) <= m * q1 /\ m * (q2 + 1) = m * q2 + m
    BY <2>1, <1>4, <1>5
  <2>3. m * q1 \in Nat /\ m * q2 \in Nat
    BY <1>4, <1>5
  <2> QED
    BY <2>2, <2>3, <1>2, <1>4, <1>5
<1>7. (q2 - q1) * m = m * q2 - m * q1
  BY <1>4, <1>5
<1>8. m * q1 \in Nat /\ m * q2 \in Nat
  BY <1>4, <1>5
<1>9. (q2 - q1) * m + r2 = n + r1
  BY <1>2, <1>4, <1>5, <1>7, <1>8
<1> QED
  BY <1>1, <1>2, <1>3, <1>4, <1>5, <1>6, <1>9

LEMMA WriteStep ==
  ASSUME IInv, ~panic, NEW q \in Queue, NEW c \in command, c.slba \in Lba, ZnsWrite(q, c)
  PROVE  IInv'
<1>1. TypeOK /\ WritePointer /\ Conserved /\ Counts(state, zrwav, acquired_cnt)
  BY Parts, CountsForm
<1>2. PICK z \in Zone : z = lba_to_zone(c.slba)
  BY ZoneOf
<1>3. PICK a : a = target(c)
  OBVIOUS
<1>4. PICK n : n = c.nlb
  OBVIOUS
<1>5. n \in Nat \ {0} /\ c.zone \in Zone
  BY <1>4, ZnsAssumption DEF command
<1>6. /\ wp[z] \in zone_to_slba(z) .. zone_end(z) /\ wp[z] \in Nat /\ wb[z] \in Nat
      /\ wp[z] = zone_end(z) => state[z] = "FULL"
      /\ state[z] = "EMPTY" => wp[z] = zone_to_slba(z) /\ ~zrwav[z]
      /\ ~zrwav[z]
  BY <1>1, <1>2 DEF WritePointer, TypeOK, ZnsWrite
<1>7. a \in 0 .. NR_ZONES * ZONE_SIZE
  <2>1. CASE c.op = "append"
    <3>1. a = wp[z]
      BY <2>1, <1>2, <1>3 DEF target
    <3> QED BY <3>1, <1>6, Geometry, ZnsAssumption
  <2>2. CASE c.op # "append"
    BY <2>2, <1>3 DEF target, command
  <2> QED BY <2>1, <2>2
<1>8. held' \in [Queue -> command \union {no_cmd}]
  <2>1. [c EXCEPT !.slba = a] \in command
    BY <1>7 DEF command
  <2> QED
    BY <2>1, <1>1, <1>3 DEF ZnsWrite, TypeOK
<1>9. CASE wb[z] < n
  <2>1. UNCHANGED <<state, wp, zrwav, acquired_cnt, wb, zb, flushing, tail, zflushing, lost, panic>>
        /\ ret' = no_ret
    BY <1>9, <1>2, <1>4 DEF ZnsWrite, zones, buffers, no_outcome
  <2>2. TypeOK'
    BY <2>1, <1>1, <1>8, NoRet DEF TypeOK
  <2>3. WritePointer'
    BY <2>1, <1>1 DEF WritePointer
  <2>4. Conserved'
    BY <2>1, <1>1 DEF Conserved, residue
  <2>5. Counts(state', zrwav', acquired_cnt')
    BY <2>1, <1>1
  <2> QED
    BY <2>2, <2>3, <2>4, <2>5, Parts, CountsForm
<1>10. CASE ~(wb[z] < n) /\ write_error(z, a, n)
  <2>1. /\ wb' = [wb EXCEPT ![z] = @ - n]
        /\ lost' = [lost EXCEPT ![z] = @ + n]
        /\ UNCHANGED <<state, wp, zrwav, acquired_cnt, zb, flushing, tail, zflushing, panic>>
        /\ ret' = no_ret
    BY <1>10, <1>2, <1>3, <1>4 DEF ZnsWrite, no_outcome
  <2>2. TypeOK'
    <3>1. wb' \in [Zone -> Nat] /\ lost' \in [Zone -> Nat]
      BY <2>1, <1>1, <1>5, <1>6, <1>10 DEF TypeOK
    <3> QED
      BY <3>1, <2>1, <1>1, <1>8, NoRet DEF TypeOK
  <2>3. WritePointer'
    BY <2>1, <1>1 DEF WritePointer
  <2>4. Conserved'
    <3> SUFFICES ASSUME NEW y \in Zone
                 PROVE  wb'[y] + flushing'[y] * ONESHOT + tail'[y] * unaligned_space + residue(y)' + lost'[y]
                          = ZONE_WB_SIZE
      BY DEF Conserved, unaligned_space
    <3>1. wb[y] + flushing[y] * ONESHOT + tail[y] * unaligned_space + residue(y) + lost[y]
            = ZONE_WB_SIZE
      BY <1>1 DEF Conserved
    <3>2. residue(y)' = residue(y)
      BY <2>1 DEF residue, zone_to_slba, zone_end
    <3>3. CASE y = z
      <4>1. wb'[y] = wb[y] - n /\ lost'[y] = lost[y] + n
        BY <3>3, <2>1, <1>1 DEF TypeOK
      <4>2. /\ residue(y) \in Nat /\ lost[y] \in Nat /\ wb[y] \in Nat
            /\ flushing[y] \in Nat /\ tail[y] \in Nat
        BY <1>1, ResidueType DEF TypeOK
      <4>3. flushing[y] * ONESHOT \in Nat /\ tail[y] * unaligned_space \in Nat
        BY <4>2, ZnsAssumption DEF unaligned_space
      <4> QED
        BY <4>1, <4>2, <4>3, <3>1, <3>2, <2>1, <1>5
    <3>4. CASE y # z
      <4>1. wb'[y] = wb[y] /\ lost'[y] = lost[y]
        BY <3>4, <2>1, <1>1 DEF TypeOK
      <4> QED
        BY <4>1, <3>1, <3>2, <2>1
    <3> QED
      BY <3>3, <3>4
  <2>5. Counts(state', zrwav', acquired_cnt')
    BY <2>1, <1>1
  <2> QED
    BY <2>2, <2>3, <2>4, <2>5, Parts, CountsForm
<1>11. CASE ~(wb[z] < n) /\ ~write_error(z, a, n)
  <2>1. PICK act, opn : /\ act = IF state[z] = "EMPTY" THEN 1 ELSE 0
                        /\ opn = IF state[z] \in {"EMPTY", "CLOSED"} THEN 1 ELSE 0
    OBVIOUS
  <2>2. /\ wb' = [wb EXCEPT ![z] = @ - n]
        /\ increase_write_ptr(z, n, act, opn)
        /\ flushing' = [flushing EXCEPT ![z] = @ + oneshots(z, a, n)]
        /\ tail' = [tail EXCEPT ![z] = @ + (IF ends_short(z, a, n) THEN 1 ELSE 0)]
        /\ ret' = IF c.op = "append" THEN [zone |-> c.zone, lba |-> a] ELSE no_ret
        /\ UNCHANGED <<zrwav, zb, zflushing, lost, panic>>
    BY <1>11, <1>2, <1>3, <1>4, <2>1 DEF ZnsWrite
  <2>3. a = wp[z] /\ state[z] # "FULL" /\ ~boundary_error(a, n)
    BY <1>11 DEF write_error, wp_error
  <2>4. a \in zone_to_slba(z) .. zone_end(z) - 1
    BY <2>3, <1>6, Geometry
  <2>5. a \in Lba /\ lba_to_zone(a) = z
    BY <2>4, InZone
  <2>6. wp[z] + n <= zone_end(z)
    BY <2>3, <2>5, <1>5, StaysInZone
  <2>7. /\ Counts(state', zrwav', acquired_cnt')
        /\ acquired_cnt' \in [Resource -> Nat]
        /\ state' \in [Zone -> ZoneState]
        /\ wp' \in [Zone -> Nat]
        /\ WritePointer'
    BY <1>1, <1>5, <2>1, <2>2, <2>3, <2>6, Advance
  <2>8. PICK off : off = wp[z] - zone_to_slba(z)
    OBVIOUS
  <2>9. PICK pages : pages = (off + n) \div ONESHOT - off \div ONESHOT
    OBVIOUS
  <2>10. /\ off \in Nat /\ off < ZONE_SIZE /\ off + n <= ZONE_SIZE /\ ONESHOT \in Nat \ {0}
         /\ (wp[z] + n) - zone_to_slba(z) = off + n
         /\ wp[z] + n = zone_end(z) <=> off + n = ZONE_SIZE
    BY <2>4, <2>3, <2>6, <2>8, <1>5, Geometry, ZnsAssumption
  <2>11. pages \in Nat /\ pages * ONESHOT + ((off + n) % ONESHOT) = n + (off % ONESHOT)
    BY <2>9, <2>10, <1>5, PagesCompleted
  <2>12. oneshots(z, a, n) = pages
    BY <2>3, <2>8, <2>9 DEF oneshots
  <2>13. TypeOK'
    <3>1. wb' \in [Zone -> Nat]
      BY <2>2, <1>1, <1>5, <1>6, <1>11 DEF TypeOK
    <3>2. flushing' \in [Zone -> Nat] /\ tail' \in [Zone -> Nat]
      BY <2>2, <2>11, <2>12, <1>1 DEF TypeOK
    <3>3. ret' \in [zone : Zone, lba : Lba \union {-1}]
      BY <2>2, <2>5, <1>5, NoRet
    <3> QED
      BY <3>1, <3>2, <3>3, <2>2, <2>7, <1>1, <1>8 DEF TypeOK, ZoneState
  <2>14. Conserved'
    <3> SUFFICES ASSUME NEW y \in Zone
                 PROVE  wb'[y] + flushing'[y] * ONESHOT + tail'[y] * unaligned_space + residue(y)' + lost'[y]
                          = ZONE_WB_SIZE
      BY DEF Conserved, unaligned_space
    <3>1. wb[y] + flushing[y] * ONESHOT + tail[y] * unaligned_space + residue(y) + lost[y]
            = ZONE_WB_SIZE
      BY <1>1 DEF Conserved
    <3>2. wp' = [wp EXCEPT ![z] = wp[z] + n]
      BY <2>2 DEF increase_write_ptr
    <3>3. CASE y = z
      <4>1. /\ wb'[z] = wb[z] - n /\ flushing'[z] = flushing[z] + pages /\ lost'[z] = lost[z]
            /\ tail'[z] = tail[z] + (IF ends_short(z, a, n) THEN 1 ELSE 0)
            /\ wp'[z] = wp[z] + n
        BY <3>2, <2>2, <2>12, <1>1 DEF TypeOK
      <4>2. residue(z) = off % ONESHOT
        BY <1>6, <2>3, <2>8 DEF residue
      <4>3. residue(z)' = IF off + n = ZONE_SIZE THEN 0 ELSE (off + n) % ONESHOT
        <5>1. residue(z)' = IF zrwav'[z] \/ wp'[z] = zone_end(z) THEN 0
                            ELSE (wp'[z] - zone_to_slba(z)) % ONESHOT
          BY DEF residue, zone_to_slba, zone_end
        <5>2. zrwav'[z] = FALSE
          BY <1>1, <1>6, <2>2 DEF TypeOK
        <5>3. wp'[z] - zone_to_slba(z) = off + n
          BY <4>1, <2>10
        <5> QED
          BY <5>1, <5>2, <5>3, <4>1, <2>10
      <4>4. PICK fo, fo2, t0, t2, u :
              /\ fo = flushing[z] * ONESHOT /\ fo2 = flushing'[z] * ONESHOT
              /\ t0 = tail[z] * unaligned_space /\ t2 = tail'[z] * unaligned_space
              /\ u = unaligned_space
        OBVIOUS
      <4>5. /\ residue(z) \in Nat /\ lost[z] \in Nat /\ wb[z] \in Nat
            /\ flushing[z] \in Nat /\ tail[z] \in Nat /\ u \in Nat
        BY <1>1, <4>4, ResidueType, ZnsAssumption DEF TypeOK, unaligned_space
      <4>6. fo2 = fo + pages * ONESHOT /\ fo \in Nat /\ pages * ONESHOT \in Nat
        BY <4>1, <4>4, <4>5, <2>10, <2>11
      <4>7. (off + n) % ONESHOT \in Nat /\ off % ONESHOT \in Nat
        BY <2>10, <1>5
      <4>8. t2 + residue(z)' = t0 + ((off + n) % ONESHOT) /\ t0 \in Nat /\ t2 \in Nat
        <5>1. CASE off + n = ZONE_SIZE
          <6>1. u = (off + n) % ONESHOT
            BY <5>1, <4>4 DEF unaligned_space
          <6>2. ends_short(z, a, n) <=> u > 0
            BY <5>1, <2>3, <2>10, <4>4 DEF ends_short
          <6>3. CASE u > 0
            BY <6>1, <6>2, <6>3, <5>1, <4>1, <4>3, <4>4, <4>5
          <6>4. CASE u = 0
            BY <6>1, <6>2, <6>4, <5>1, <4>1, <4>3, <4>4, <4>5
          <6> QED
            BY <6>3, <6>4, <4>5
        <5>2. CASE off + n # ZONE_SIZE
          <6>1. ~ends_short(z, a, n)
            BY <5>2, <2>3, <2>10 DEF ends_short
          <6> QED
            BY <6>1, <5>2, <4>1, <4>3, <4>4, <4>5, <4>7
        <5> QED
          BY <5>1, <5>2
      <4>9. residue(z)' \in Nat
        BY <4>3, <4>7
      <4>10. wb'[z] + fo2 + t2 + residue(z)' + lost'[z] = ZONE_WB_SIZE
        <5>1. wb[z] + fo + t0 + residue(z) + lost[z] = ZONE_WB_SIZE
          BY <3>1, <3>3, <4>4
        <5> QED
          BY <5>1, <4>1, <4>2, <4>5, <4>6, <4>7, <4>8, <4>9, <2>11, <1>5
      <4> QED
        BY <3>3, <4>4, <4>10
    <3>4. CASE y # z
      <4>1. /\ wb'[y] = wb[y] /\ flushing'[y] = flushing[y] /\ tail'[y] = tail[y]
            /\ lost'[y] = lost[y] /\ wp'[y] = wp[y] /\ zrwav'[y] = zrwav[y]
        BY <3>2, <3>4, <2>2, <1>1 DEF TypeOK
      <4>2. residue(y)' = residue(y)
        BY <4>1 DEF residue, zone_to_slba, zone_end
      <4> QED
        BY <4>1, <4>2, <3>1
    <3> QED
      BY <3>3, <3>4
  <2> QED
    BY <2>7, <2>13, <2>14, Parts, CountsForm
<1> QED
  BY <1>9, <1>10, <1>11

\* Rounding up adds less than one unit.
LEMMA RoundUp ==
  ASSUME NEW x \in Nat \ {0}, NEW m \in Nat \ {0}
  PROVE  round_up(x, m) \in Nat /\ round_up(x, m) <= x + m - 1
<1>1. PICK e \in Nat : e = x + m - 1
  OBVIOUS
<1>2. PICK q, r : q = e \div m /\ r = e % m
  OBVIOUS
<1>3. q \in Nat /\ r \in 0 .. m - 1 /\ e = m * q + r
  BY <1>2, DivMod
<1>4. m * q = q * m /\ q * m \in Nat
  BY <1>3
<1>5. round_up(x, m) = q * m
  BY <1>1, <1>2 DEF round_up
<1> QED
  BY <1>1, <1>3, <1>4, <1>5

\* A write to the random write area never pushes the pointer out of the zone.
LEMMA FlushedInZone ==
  ASSUME NEW z \in Zone, wp[z] \in zone_to_slba(z) .. zone_end(z),
         NEW a \in Nat, NEW n \in Nat \ {0}, wp[z] <= a, a + n <= zone_end(z)
  PROVE  nr_lbas_flush(z, a, n) \in Nat /\ wp[z] + nr_lbas_flush(z, a, n) <= zone_end(z)
<1>1. PICK e : e = a + n - 1
  OBVIOUS
<1>2. PICK w : w = wp[z]
  OBVIOUS
<1>3. /\ e \in Nat /\ w \in Nat /\ zone_end(z) \in Nat /\ w <= e /\ e <= zone_end(z) - 1
      /\ ZRWA \in Nat \ {0} /\ ZRWAFG \in Nat \ {0} /\ ZRWAFG <= ZRWA
  BY <1>1, <1>2, Geometry, ZnsAssumption
<1>4. CASE e >= w + ZRWA
  <2>1. PICK x : x = e - (w + ZRWA) + 1
    OBVIOUS
  <2>2. x \in Nat \ {0}
    BY <2>1, <1>3, <1>4
  <2>3. round_up(x, ZRWAFG) \in Nat /\ round_up(x, ZRWAFG) <= x + ZRWAFG - 1
    BY <2>2, <1>3, RoundUp
  <2>4. nr_lbas_flush(z, a, n) = round_up(x, ZRWAFG)
    BY <1>1, <1>2, <1>4, <2>1 DEF nr_lbas_flush
  <2> QED
    BY <2>1, <2>2, <2>3, <2>4, <1>2, <1>3
<1>5. CASE ~(e >= w + ZRWA) /\ e = zone_end(z) - 1
  <2>1. nr_lbas_flush(z, a, n) = e - w + 1
    BY <1>1, <1>2, <1>5 DEF nr_lbas_flush
  <2> QED
    BY <2>1, <1>2, <1>3
<1>6. CASE ~(e >= w + ZRWA) /\ e # zone_end(z) - 1
  <2>1. nr_lbas_flush(z, a, n) = 0
    BY <1>1, <1>2, <1>6 DEF nr_lbas_flush
  <2> QED
    BY <2>1, <1>2, <1>3
<1> QED
  BY <1>4, <1>5, <1>6

LEMMA WriteZrwaStep ==
  ASSUME IInv, ~panic, NEW q \in Queue, NEW c \in command, c.slba \in Lba, ZnsWriteZrwa(q, c)
  PROVE  IInv'
<1>1. TypeOK /\ WritePointer /\ Conserved /\ Counts(state, zrwav, acquired_cnt)
  BY Parts, CountsForm
<1>2. PICK z \in Zone : z = lba_to_zone(c.slba)
  BY ZoneOf
<1>3. PICK a, k : a = c.slba /\ k = c.nlb
  OBVIOUS
<1>4. k \in Nat \ {0} /\ a \in Lba /\ a \in Nat
  BY <1>3, ZnsAssumption DEF command, Lba
<1>5. PICK n, opn, left : /\ n = nr_lbas_flush(z, a, k)
                          /\ opn = IF state[z] = "CLOSED" THEN 1 ELSE 0
                          /\ left = zb[z] - (IF state[z] = "CLOSED" THEN ZRWA ELSE 0)
  OBVIOUS
<1>6. /\ zrwav[z]
      /\ UNCHANGED <<zrwav, wb, flushing, tail, lost>> /\ ret' = no_ret
      /\ panic' = (~zrwa_error(z, a, k) /\ left < 0)
      /\ IF zrwa_error(z, a, k)
         THEN /\ held' = [held EXCEPT ![q] = no_cmd]
              /\ UNCHANGED <<state, wp, acquired_cnt, zb, zflushing>>
         ELSE IF left < 0
         THEN /\ acquired_cnt' = [acquired_cnt EXCEPT !["OPEN_ZONE"] = @ + 1]
              /\ UNCHANGED <<state, wp, zb, zflushing, held>>
         ELSE IF left < n
         THEN /\ held' = [held EXCEPT ![q] = c]
              /\ zb' = [zb EXCEPT ![z] = left]
              /\ state' = [state EXCEPT ![z] = IF state[z] = "CLOSED" THEN "OPENED_IMPL" ELSE @]
              /\ acquired_cnt' = [acquired_cnt EXCEPT !["OPEN_ZONE"] = @ + opn]
              /\ UNCHANGED <<wp, zflushing>>
         ELSE /\ zflushing[z] + oneshots(z, wp[z], n) <= MAX_FLUSHES
              /\ held' = [held EXCEPT ![q] = no_cmd]
              /\ zb' = [zb EXCEPT ![z] = left - n]
              /\ zflushing' = [zflushing EXCEPT ![z] = @ + oneshots(z, wp[z], n)]
              /\ increase_write_ptr(z, n, 0, opn)
  BY <1>2, <1>3, <1>5 DEF ZnsWriteZrwa
<1>7. /\ wp[z] \in zone_to_slba(z) .. zone_end(z) /\ wp[z] \in Nat
      /\ state[z] # "EMPTY" /\ zb[z] \in Nat /\ left \in Int
  BY <1>1, <1>5, <1>6, ZnsAssumption DEF WritePointer, TypeOK
<1>8. /\ state \in [Zone -> ZoneState] /\ acquired_cnt \in [Resource -> Nat]
      /\ held' \in [Queue -> command \union {no_cmd}]
      /\ panic' \in BOOLEAN
  BY <1>1, <1>6 DEF TypeOK, ZoneState
<1>9. ASSUME wp' = wp PROVE Conserved'
  BY <1>9, <1>6, <1>1 DEF Conserved, residue
<1>10. CASE zrwa_error(z, a, k)
  <2>1. UNCHANGED <<state, wp, acquired_cnt, zb, zflushing>> /\ panic' = FALSE
    BY <1>6, <1>10
  <2>2. TypeOK'
    BY <2>1, <1>1, <1>6, <1>8, NoRet DEF TypeOK
  <2>3. WritePointer'
    BY <2>1, <1>1, <1>6 DEF WritePointer
  <2>4. Counts(state', zrwav', acquired_cnt')
    BY <2>1, <1>1, <1>6
  <2> QED
    BY <2>1, <2>2, <2>3, <2>4, <1>9, Parts, CountsForm
<1>11. CASE ~zrwa_error(z, a, k) /\ left < 0
  <2>1. /\ UNCHANGED <<state, wp, zb, zflushing>> /\ panic' = TRUE
        /\ acquired_cnt' = [acquired_cnt EXCEPT !["OPEN_ZONE"] = @ + 1]
    BY <1>6, <1>11
  <2>2. acquired_cnt' \in [Resource -> Nat]
    BY <2>1, <1>8 DEF Resource
  <2>3. TypeOK'
    BY <2>1, <2>2, <1>1, <1>6, <1>8, NoRet DEF TypeOK
  <2>4. WritePointer'
    BY <2>1, <1>1, <1>6 DEF WritePointer
  <2> QED
    BY <2>1, <2>3, <2>4, <1>9, Parts, CountsForm
<1>12. CASE ~zrwa_error(z, a, k) /\ ~(left < 0) /\ left < n
  <2>1. /\ zb' = [zb EXCEPT ![z] = left]
        /\ state' = [state EXCEPT ![z] = IF state[z] = "CLOSED" THEN "OPENED_IMPL" ELSE @]
        /\ acquired_cnt' = [acquired_cnt EXCEPT !["OPEN_ZONE"] = @ + opn]
        /\ UNCHANGED <<wp, zflushing>> /\ panic' = FALSE
    BY <1>6, <1>12
  <2>2. PICK s : s = IF state[z] = "CLOSED" THEN "OPENED_IMPL" ELSE state[z]
    OBVIOUS
  <2>3. s \in ZoneState /\ s # "EMPTY" /\ state' = [state EXCEPT ![z] = s]
    BY <2>1, <2>2, <1>7, <1>8 DEF ZoneState
  <2>4. state[z] \in ZoneState /\ state[z] # "FULL"
    BY <1>8, <1>12 DEF zrwa_error
  <2>5. /\ one(s, opened) = 1 /\ one(s, active) = 1 /\ one(state[z], active) = 1
        /\ opn = 1 - one(state[z], opened) /\ opn \in Nat /\ one(state[z], opened) \in Nat
    BY <2>2, <2>4, <1>5, <1>7 DEF one, opened, active, ZoneState
  <2>6. PICK ac2 : ac2 = acquired_cnt'
    OBVIOUS
  <2>7. /\ ac2 \in [Resource -> Int]
        /\ ac2["OPEN_ZONE"] = acquired_cnt["OPEN_ZONE"] + one(s, opened) - one(state[z], opened)
        /\ ac2["ACTIVE_ZONE"] = acquired_cnt["ACTIVE_ZONE"] + one(s, active) - one(state[z], active)
        /\ ac2["ZRWA_ZONE"] = acquired_cnt["ZRWA_ZONE"]
    BY <2>1, <2>5, <2>6, <1>8 DEF Resource
  <2>8. s \in active /\ zrwav[z] => state[z] \in active
    BY <2>4, <1>7 DEF active, opened, ZoneState
  <2>9. Counts([state EXCEPT ![z] = s], zrwav, ac2) /\ ac2 \in [Resource -> Nat]
    BY <1>1, <1>8, <2>3, <2>7, <2>8, CountsMove
  <2>10. Counts(state', zrwav', acquired_cnt') /\ acquired_cnt' \in [Resource -> Nat]
    BY <2>3, <2>6, <2>9, <1>6
  <2>11. TypeOK'
    <3>1. zb' \in [Zone -> Nat]
      BY <2>1, <1>1, <1>7, <1>12 DEF TypeOK
    <3>2. state' \in [Zone -> ZoneState]
      BY <2>3, <1>8
    <3> QED
      BY <3>1, <3>2, <2>1, <2>10, <1>1, <1>6, <1>8, NoRet DEF TypeOK, ZoneState
  <2>12. WritePointer'
    <3> SUFFICES ASSUME NEW y \in Zone
                 PROVE  /\ wp'[y] \in zone_to_slba(y) .. zone_end(y)
                        /\ state'[y] = "EMPTY" => wp'[y] = zone_to_slba(y) /\ ~zrwav'[y]
                        /\ wp'[y] = zone_end(y) => state'[y] = "FULL"
      BY DEF WritePointer, zone_to_slba, zone_end
    <3>1. /\ wp[y] \in zone_to_slba(y) .. zone_end(y)
          /\ state[y] = "EMPTY" => wp[y] = zone_to_slba(y) /\ ~zrwav[y]
          /\ wp[y] = zone_end(y) => state[y] = "FULL"
      BY <1>1 DEF WritePointer
    <3>2. state'[y] = IF y = z THEN s ELSE state[y]
      BY <2>3, <1>8
    <3> QED
      BY <3>1, <3>2, <2>1, <2>3, <2>4, <1>6
  <2> QED
    BY <2>1, <2>10, <2>11, <2>12, <1>9, Parts, CountsForm
<1>13. CASE ~zrwa_error(z, a, k) /\ ~(left < 0) /\ ~(left < n)
  <2>1. /\ zb' = [zb EXCEPT ![z] = left - n]
        /\ zflushing' = [zflushing EXCEPT ![z] = @ + oneshots(z, wp[z], n)]
        /\ increase_write_ptr(z, n, 0, opn) /\ panic' = FALSE
    BY <1>6, <1>13
  <2>2. state[z] # "FULL" /\ ~boundary_error(a, k) /\ ~(a < wp[z])
    BY <1>13 DEF zrwa_error
  <2>3. wp[z] <= a /\ a + k <= zone_end(z)
    BY <2>2, <1>2, <1>3, <1>4, <1>7, StaysInZone
  <2>4. n \in Nat /\ wp[z] + n <= zone_end(z)
    BY <2>3, <1>4, <1>5, <1>7, FlushedInZone
  <2>5. /\ 0 = IF state[z] = "EMPTY" THEN 1 ELSE 0
        /\ opn = IF state[z] \in {"EMPTY", "CLOSED"} THEN 1 ELSE 0
    BY <1>5, <1>7
  <2>6. /\ Counts(state', zrwav', acquired_cnt')
        /\ acquired_cnt' \in [Resource -> Nat]
        /\ state' \in [Zone -> ZoneState]
        /\ wp' \in [Zone -> Nat]
        /\ WritePointer'
    BY <1>1, <1>6, <2>1, <2>2, <2>4, <2>5, Advance
  <2>7. oneshots(z, wp[z], n) \in Nat
    <3>1. PICK off : off = wp[z] - zone_to_slba(z)
      OBVIOUS
    <3>2. off \in Nat
      BY <3>1, <1>7, Geometry
    <3> QED
      BY <3>1, <3>2, <2>4, PagesCompleted, ZnsAssumption DEF oneshots
  <2>8. TypeOK'
    <3>1. zb' \in [Zone -> Nat]
      BY <2>1, <2>4, <1>1, <1>7, <1>13 DEF TypeOK
    <3>2. zflushing' \in [Zone -> Nat]
      BY <2>1, <2>7, <1>1 DEF TypeOK
    <3> QED
      BY <3>1, <3>2, <2>6, <1>1, <1>6, <1>8, NoRet DEF TypeOK, ZoneState
  <2>9. Conserved'
    <3> SUFFICES ASSUME NEW y \in Zone
                 PROVE  residue(y)' = residue(y)
      BY <1>1, <1>6 DEF Conserved, unaligned_space
    <3>1. CASE y = z
      BY <3>1, <1>6 DEF residue
    <3>2. CASE y # z
      <4>1. zrwav'[y] = zrwav[y] /\ wp'[y] = wp[y]
        BY <3>2, <1>1, <1>6, <2>1 DEF TypeOK, increase_write_ptr
      <4> QED BY <4>1 DEF residue, zone_to_slba, zone_end
    <3> QED
      BY <3>1, <3>2
  <2> QED
    BY <2>6, <2>8, <2>9, Parts, CountsForm
<1> QED
  BY <1>10, <1>11, <1>12, <1>13

-----------------------------------------------------------------------------
(* The worker gives buffer space back.                                     *)

LEMMA ReleaseStep ==
  ASSUME IInv, NEW z \in Zone, Release(z)
  PROVE  IInv'
<1>1. TypeOK /\ WritePointer /\ Conserved /\ ResourceCounts
  BY Parts
<1>2. UNCHANGED <<state, wp, zrwav, acquired_cnt, lost, held, panic>> /\ ret' = no_ret
  BY DEF Release, zones, no_outcome
<1>3. WritePointer'
  BY <1>1, <1>2 DEF WritePointer
<1>4. ResourceCounts'
  BY <1>1, <1>2, CountsForm
<1>5. \A y \in Zone : residue(y)' = residue(y)
  BY <1>2 DEF residue, zone_to_slba, zone_end
<1>6. unaligned_space \in Nat /\ ONESHOT \in Nat
  BY ZnsAssumption DEF unaligned_space
<1>7. ASSUME NEW y \in Zone
      PROVE  /\ wb[y] \in Nat /\ flushing[y] \in Nat /\ tail[y] \in Nat /\ zflushing[y] \in Nat
             /\ zb[y] \in Nat /\ lost[y] \in Nat /\ residue(y) \in Nat
             /\ flushing[y] * ONESHOT \in Nat /\ tail[y] * unaligned_space \in Nat
             /\ wb[y] + flushing[y] * ONESHOT + tail[y] * unaligned_space + residue(y) + lost[y]
                  = ZONE_WB_SIZE
  <2>1. /\ wb[y] \in Nat /\ flushing[y] \in Nat /\ tail[y] \in Nat /\ zflushing[y] \in Nat
        /\ zb[y] \in Nat /\ lost[y] \in Nat
    BY <1>1 DEF TypeOK
  <2>2. residue(y) \in Nat
    BY <1>1, ResidueType
  <2>3. flushing[y] * ONESHOT \in Nat /\ tail[y] * unaligned_space \in Nat
    BY <2>1, <1>6
  <2> QED
    BY <2>1, <2>2, <2>3, <1>1 DEF Conserved
<1>8. CASE /\ flushing[z] > 0 /\ flushing' = [flushing EXCEPT ![z] = @ - 1]
           /\ wb' = [wb EXCEPT ![z] = @ + ONESHOT]
           /\ UNCHANGED <<zb, tail, zflushing>>
  <2>1. TypeOK'
    <3>1. flushing' \in [Zone -> Nat] /\ wb' \in [Zone -> Nat]
      BY <1>1, <1>6, <1>8 DEF TypeOK
    <3> QED BY <3>1, <1>1, <1>2, <1>8, NoRet DEF TypeOK
  <2>2. Conserved'
    <3> SUFFICES ASSUME NEW y \in Zone
                 PROVE  wb'[y] + flushing'[y] * ONESHOT + tail'[y] * unaligned_space + residue(y)' + lost'[y]
                          = ZONE_WB_SIZE
      BY DEF Conserved, unaligned_space
    <3>1. CASE y = z
      <4>1. wb'[y] = wb[y] + ONESHOT /\ flushing'[y] = flushing[y] - 1
        BY <3>1, <1>1, <1>8 DEF TypeOK
      <4>2. flushing'[y] * ONESHOT = flushing[y] * ONESHOT - ONESHOT
        BY <4>1, <1>6, <1>7
      <4> QED
        BY <4>1, <4>2, <1>2, <1>5, <1>6, <1>7, <1>8
    <3>2. CASE y # z
      <4>1. wb'[y] = wb[y] /\ flushing'[y] = flushing[y]
        BY <3>2, <1>1, <1>8 DEF TypeOK
      <4> QED
        BY <4>1, <1>2, <1>5, <1>7, <1>8
    <3> QED BY <3>1, <3>2
  <2> QED
    BY <2>1, <2>2, <1>3, <1>4, Parts
<1>9. CASE /\ tail[z] > 0 /\ tail' = [tail EXCEPT ![z] = @ - 1]
           /\ wb' = [wb EXCEPT ![z] = @ + unaligned_space]
           /\ UNCHANGED <<zb, flushing, zflushing>>
  <2>1. TypeOK'
    <3>1. tail' \in [Zone -> Nat] /\ wb' \in [Zone -> Nat]
      BY <1>1, <1>6, <1>9 DEF TypeOK
    <3> QED BY <3>1, <1>1, <1>2, <1>9, NoRet DEF TypeOK
  <2>2. Conserved'
    <3> SUFFICES ASSUME NEW y \in Zone
                 PROVE  wb'[y] + flushing'[y] * ONESHOT + tail'[y] * unaligned_space + residue(y)' + lost'[y]
                          = ZONE_WB_SIZE
      BY DEF Conserved, unaligned_space
    <3>1. CASE y = z
      <4>1. wb'[y] = wb[y] + unaligned_space /\ tail'[y] = tail[y] - 1
        BY <3>1, <1>1, <1>9 DEF TypeOK
      <4>2. tail'[y] * unaligned_space = tail[y] * unaligned_space - unaligned_space
        BY <4>1, <1>6, <1>7
      <4> QED
        BY <4>1, <4>2, <1>2, <1>5, <1>6, <1>7, <1>9
    <3>2. CASE y # z
      <4>1. wb'[y] = wb[y] /\ tail'[y] = tail[y]
        BY <3>2, <1>1, <1>9 DEF TypeOK
      <4> QED
        BY <4>1, <1>2, <1>5, <1>7, <1>9
    <3> QED BY <3>1, <3>2
  <2> QED
    BY <2>1, <2>2, <1>3, <1>4, Parts
<1>10. CASE /\ zflushing[z] > 0 /\ zflushing' = [zflushing EXCEPT ![z] = @ - 1]
            /\ zb' = [zb EXCEPT ![z] = @ + ONESHOT]
            /\ UNCHANGED <<wb, flushing, tail>>
  <2>1. TypeOK'
    <3>1. zflushing' \in [Zone -> Nat] /\ zb' \in [Zone -> Nat]
      BY <1>1, <1>6, <1>10 DEF TypeOK
    <3> QED BY <3>1, <1>1, <1>2, <1>10, NoRet DEF TypeOK
  <2>2. Conserved'
    BY <1>1, <1>2, <1>5, <1>10 DEF Conserved, unaligned_space
  <2> QED
    BY <2>1, <2>2, <1>3, <1>4, Parts
<1> QED
  BY <1>8, <1>9, <1>10 DEF Release, tail_release

LEMMA Invariance == Spec => []IInv
<1>1. IInv /\ [Next]_vars => IInv'
  <2> SUFFICES ASSUME IInv, [Next]_vars PROVE IInv'
    OBVIOUS
  <2>1. CASE ~panic /\ Mgmt
    <3>1. ASSUME NEW Z \in selections, CloseZone(Z) PROVE IInv'
      BY <3>1, <2>1, CloseStep
    <3>2. ASSUME NEW Z \in selections, FinishZone(Z) PROVE IInv'
      BY <3>2, <2>1, FinishStep
    <3>3. ASSUME NEW Z \in selections, ResetZone(Z) PROVE IInv'
      BY <3>3, <2>1, ResetStep
    <3>4. ASSUME NEW Z \in selections, NEW zr \in {FALSE, Z \subseteq ZRWA_ZONES}, OpenZone(Z, zr)
          PROVE  IInv'
      <4>1. zr \in BOOLEAN
        OBVIOUS
      <4> QED BY <3>4, <4>1, <2>1, OpenStep
    <3>5. ASSUME NEW z \in Zone, NEW a \in Lba, FlushZrwa(z, a) PROVE IInv'
      BY <3>5, <2>1, FlushStep
    <3> QED
      BY <2>1, <3>1, <3>2, <3>3, <3>4, <3>5 DEF Mgmt
  <2>2. ASSUME ~panic, NEW q \in Queue, Write(q) PROVE IInv'
    <3>1. PICK c \in IF held[q] = no_cmd THEN new_command ELSE {held[q]} :
            c.slba \in Lba /\ (ZnsWrite(q, c) \/ ZnsWriteZrwa(q, c))
      BY <2>2 DEF Write
    <3>2. c \in command
      BY <3>1 DEF new_command, IInv, BufferConserved, TypeOK
    <3> QED
      BY <3>1, <3>2, <2>2, WriteStep, WriteZrwaStep
  <2>3. ASSUME NEW z \in Zone, Release(z) PROVE IInv'
    BY <2>3, ReleaseStep
  <2>4. CASE UNCHANGED vars
    BY <2>4 DEF vars, zones, buffers, IInv, WritePointer, ResourceCounts, in_state,
                BufferConserved, TypeOK, residue
  <2> QED
    BY <2>1, <2>2, <2>3, <2>4 DEF Next, Halted
<1> QED
  BY InitInv, <1>1, PTL DEF Spec

\* The write pointer and the state of a zone agree, whatever mix of writes,
\* appends, random writes, flushes and management commands has reached the zone:
\* the pointer is inside the zone, an empty zone is empty and a zone written to
\* its end is full.
THEOREM PointerAgrees == Spec => []WritePointer
BY Invariance, PTL DEF IInv

\* The counters that enforce the open and active limits count the zones in these
\* states: no command, refused, failed or repeated for all zones, leaks a resource
\* or gives one back twice.
THEOREM CountersAreExact == Spec => []ResourceCounts
BY Invariance, PTL DEF IInv

\* Every block of a zone's write buffer is free, in flight, waiting for the rest of
\* its page, or was taken by a failed write or a reset; no counter and no buffer
\* ever falls below zero.
THEOREM BufferIsConserved == Spec => []BufferConserved
BY Invariance, PTL DEF IInv
=============================================================================
