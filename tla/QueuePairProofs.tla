-------------------------- MODULE QueuePairProofs --------------------------
(***************************************************************************)
(* For any number of submission queues, workers and command identifiers,   *)
(* and rings of any size that has room for them: no command is lost or     *)
(* dispatched twice, and the phase bits tell the host exactly which        *)
(* completion entries are new.                                             *)
(*                                                                         *)
(* The invariant has three parts.  SqInv is about the submission rings:    *)
(* the slots between the dispatcher's position and the doorbell hold the   *)
(* submitted commands of the queue, each once, and the doorbell value the  *)
(* dispatcher works up to lies among them.  LockInv is about the worker    *)
(* that holds cq.entry_lock.  CqInv is about the completion ring: the      *)
(* entries from host_head to the fill position hold the posted commands,   *)
(* each once, and the phase bit of every entry of the ring follows from    *)
(* the host's phase, the side of host_head it is on, and whether it is new.*)
(***************************************************************************)
EXTENDS QueuePair, FiniteSetTheorems, TLAPS

\* The remainder of a number below twice the modulus.
LEMMA ModOnce ==
  ASSUME NEW n \in Nat \ {0}, NEW x \in 0 .. 2 * n - 1
  PROVE  x % n = IF x < n THEN x ELSE x - n
OBVIOUS

\* Moving a position by one, written with a remainder.
LEMMA AfterMod ==
  ASSUME NEW n \in Nat \ {0}, NEW p \in 0 .. n - 1
  PROVE  (p + 1) % n = after(p, n) /\ after(p, n) \in 0 .. n - 1
<1> DEFINE x == p + 1
<1>1. x \in 0 .. 2 * n - 1
  OBVIOUS
<1>2. x % n = IF x < n THEN x ELSE x - n
  <2> HIDE DEF x
  <2> QED BY <1>1, ModOnce
<1> QED
  BY <1>2 DEF after

\* The occupied slots without remainders: an interval, or two around the end.
LEMMA SlotsInterval ==
  ASSUME NEW n \in Nat \ {0}, NEW a \in 0 .. n - 1, NEW b \in 0 .. n - 1
  PROVE  slots(a, b, n) = {i \in 0 .. n - 1 : IF a <= b THEN a <= i /\ i < b
                                              ELSE a <= i \/ i < b}
<1>1. ASSUME NEW i \in 0 .. n - 1
      PROVE  (i + n - a) % n = IF a <= i THEN i - a ELSE i + n - a
  <2> DEFINE x == i + n - a
  <2>1. x \in 0 .. 2 * n - 1
    OBVIOUS
  <2>2. x % n = IF x < n THEN x ELSE x - n
    <3> HIDE DEF x
    <3> QED BY <2>1, ModOnce
  <2> QED
    BY <2>2
<1>2. (b + n - a) % n = IF a <= b THEN b - a ELSE b + n - a
  BY <1>1, Zenon
<1>3. ASSUME NEW i \in 0 .. n - 1
      PROVE  (i + n - a) % n < (b + n - a) % n
             <=> IF a <= b THEN a <= i /\ i < b ELSE a <= i \/ i < b
  <2>1. (i + n - a) % n = IF a <= i THEN i - a ELSE i + n - a
    BY <1>1
  <2> QED
    BY <1>2, <2>1
<1> QED
  BY <1>3, Zenon DEF slots

\* The producer's step occupies the slot it was at.
LEMMA SlotsGrow ==
  ASSUME NEW n \in Nat \ {0}, NEW a \in 0 .. n - 1, NEW b \in 0 .. n - 1,
         after(b, n) # a
  PROVE  /\ slots(a, after(b, n), n) = slots(a, b, n) \union {b}
         /\ b \notin slots(a, b, n)
<1>1. after(b, n) \in 0 .. n - 1
  BY AfterMod
<1>2. slots(a, after(b, n), n) = {i \in 0 .. n - 1 :
         IF a <= after(b, n) THEN a <= i /\ i < after(b, n) ELSE a <= i \/ i < after(b, n)}
  BY <1>1, SlotsInterval, Zenon
<1>3. slots(a, b, n) = {i \in 0 .. n - 1 : IF a <= b THEN a <= i /\ i < b
                                            ELSE a <= i \/ i < b}
  BY SlotsInterval, Zenon
<1>4. CASE b + 1 = n
  <2>1. after(b, n) = 0 /\ a # 0 /\ a <= b
    BY <1>4 DEF after
  <2> QED
    BY <1>2, <1>3, <1>4, <2>1
<1>5. CASE b + 1 # n
  <2>1. after(b, n) = b + 1 /\ a # b + 1
    BY <1>5 DEF after
  <2> QED
    BY <1>2, <1>3, <1>5, <2>1
<1> QED
  BY <1>4, <1>5

\* The consumer's step frees the slot it was at.
LEMMA SlotsShrink ==
  ASSUME NEW n \in Nat \ {0}, NEW a \in 0 .. n - 1, NEW b \in 0 .. n - 1,
         a # b
  PROVE  /\ slots(after(a, n), b, n) = slots(a, b, n) \ {a}
         /\ a \in slots(a, b, n)
<1>1. after(a, n) \in 0 .. n - 1
  BY AfterMod
<1>2. slots(after(a, n), b, n) = {i \in 0 .. n - 1 :
         IF after(a, n) <= b THEN after(a, n) <= i /\ i < b ELSE after(a, n) <= i \/ i < b}
  BY <1>1, SlotsInterval, Zenon
<1> QED
  BY <1>2, SlotsInterval DEF after

\* A ring is empty when its ends meet, and only then.
LEMMA SlotsEmpty ==
  ASSUME NEW n \in Nat \ {0}, NEW a \in 0 .. n - 1, NEW b \in 0 .. n - 1
  PROVE  /\ slots(a, b, n) = {} <=> a = b
         /\ slots(a, b, n) \subseteq 0 .. n - 1
         /\ b \notin slots(a, b, n)
         /\ a # b => a \in slots(a, b, n)
<1>1. slots(a, b, n) = {i \in 0 .. n - 1 : IF a <= b THEN a <= i /\ i < b
                                            ELSE a <= i \/ i < b}
  BY SlotsInterval, Zenon
<1>2. a # b => a \in slots(a, b, n)
  BY <1>1
<1>3. a = b => slots(a, b, n) = {}
  BY <1>1
<1>4. slots(a, b, n) \subseteq 0 .. n - 1 /\ b \notin slots(a, b, n)
  BY <1>1
<1> QED
  BY <1>2, <1>3, <1>4

\* A ring has room for one more as long as its contents are distinct members of
\* a set that is smaller than the ring by two: one slot always stays empty.
LEMMA Room ==
  ASSUME NEW n \in Nat \ {0}, NEW a \in 0 .. n - 1, NEW b \in 0 .. n - 1,
         NEW T, IsFiniteSet(T), Cardinality(T) < n - 1,
         NEW f, \A i \in slots(a, b, n) : f[i] \in T,
         \A i, j \in slots(a, b, n) : f[i] = f[j] => i = j
  PROVE  after(b, n) # a
<1> SUFFICES ASSUME after(b, n) = a PROVE FALSE
  OBVIOUS
<1> DEFINE S == slots(a, b, n)
<1>1. S = (0 .. n - 1) \ {b}
  BY SlotsInterval DEF after
<1>2. IsFiniteSet(0 .. n - 1) /\ Cardinality(0 .. n - 1) = n
  BY FS_Interval
<1>3. IsFiniteSet(S) /\ Cardinality(S) = n - 1
  <2> DEFINE R == 0 .. n - 1
  <2>1. IsFiniteSet(R) /\ Cardinality(R) = n /\ b \in R /\ S = R \ {b}
    BY <1>1, <1>2
  <2> HIDE DEF R, S
  <2> QED
    BY <2>1, FS_RemoveElement
<1>4. [i \in S |-> f[i]] \in Injection(S, T)
  BY DEF Injection, IsInjective
<1>5. Cardinality(S) <= Cardinality(T)
  BY <1>4, FS_Injection DEF ExistsInjection
<1>6. Cardinality(T) \in Nat
  BY FS_CardinalityType
<1> QED
  BY <1>3, <1>5, <1>6

position(s) == IF disp.sq = s THEN disp.entry ELSE old_dbs[s]

\* the submission rings
SqInv ==
  /\ \A s \in Sq : \A i \in unprocessed(s) :
       /\ sq[s][i] \in Tag
       /\ state[sq[s][i]] = "submitted"
       /\ sq_of[sq[s][i]] = s
       /\ \A j \in unprocessed(s) : sq[s][i] = sq[s][j] => i = j
  /\ \A t \in Tag : state[t] = "submitted" =>
       \E s \in Sq : \E i \in unprocessed(s) : sq[s][i] = t
  /\ \A s \in Sq : disp.sq = s => disp.new_db \in unprocessed(s) \union {dbs[s]}

\* cq.entry_lock: its holder is the one worker that writes entries, and a worker
\* that completes a request has it to itself
LockInv ==
  /\ \A s \in Sq : wpc[s] \in {"status", "result"} => entry_lock = s
  /\ \A s \in Sq : wpc[s] = "status" => cq[cq_head].tag = filling[s]
  /\ \A s \in Sq : wpc[s] \in {"lock", "status"} =>
       filling[s] \in Tag /\ state[filling[s]] = "filling" /\ sq_of[filling[s]] = s

\* an entry whose status is written, but cq_head not yet moved past it
half_posted == \E s \in Sq : wpc[s] = "result"

\* where the next entry goes, and the phase it gets
fill_pos == IF half_posted THEN after(cq_head, CQ_SIZE) ELSE cq_head
fill_phase == IF half_posted THEN next_phase ELSE phase

\* the phase of a new entry in slot i
new_phase(i) == IF i >= host_head THEN host_phase ELSE flip(host_phase)

new_slots == slots(host_head, fill_pos, CQ_SIZE)

\* the completion ring
CqInv ==
  /\ \A i \in new_slots :
       /\ cq[i].tag \in Tag
       /\ state[cq[i].tag] = "posted"
       /\ \A j \in new_slots : cq[i].tag = cq[j].tag => i = j
  /\ \A t \in Tag : state[t] = "posted" => \E i \in new_slots : cq[i].tag = t
  /\ \A i \in 0 .. CQ_SIZE - 1 :
       cq[i].phase = IF i \in new_slots THEN new_phase(i) ELSE flip(new_phase(i))
  /\ fill_phase = new_phase(fill_pos)

IInv == TypeOK /\ SqInv /\ LockInv /\ CqInv

-----------------------------------------------------------------------------
(* The rings of this specification.                                        *)

\* Both rings have at least one entry.
LEMMA Sizes == SQ_SIZE \in Nat \ {0} /\ CQ_SIZE \in Nat \ {0}
<1>1. Cardinality(Tag) \in Nat
  BY FS_CardinalityType, RingAssumption
<1> QED
  BY <1>1, RingAssumption

\* unprocessed in terms of the dispatcher's position.
LEMMA Unprocessed ==
  ASSUME TypeOK, NEW s \in Sq
  PROVE  /\ unprocessed(s) = slots(position(s), dbs[s], SQ_SIZE)
         /\ position(s) \in 0 .. SQ_SIZE - 1 /\ dbs[s] \in 0 .. SQ_SIZE - 1
         /\ unprocessed(s) \subseteq 0 .. SQ_SIZE - 1
<1>1. position(s) \in 0 .. SQ_SIZE - 1 /\ dbs[s] \in 0 .. SQ_SIZE - 1
  BY DEF TypeOK, position
<1>2. unprocessed(s) = slots(position(s), dbs[s], SQ_SIZE)
  BY DEF unprocessed, position
<1> QED
  BY <1>1, <1>2 DEF slots

\* The fill position and its phase are positions and phases.
LEMMA FillType ==
  ASSUME TypeOK
  PROVE  /\ fill_pos \in 0 .. CQ_SIZE - 1 /\ fill_phase \in Bit
         /\ host_head \in 0 .. CQ_SIZE - 1 /\ cq_head \in 0 .. CQ_SIZE - 1
         /\ new_slots \subseteq 0 .. CQ_SIZE - 1
<1>1. cq_head \in 0 .. CQ_SIZE - 1 /\ host_head \in 0 .. CQ_SIZE - 1 /\ phase \in Bit
  BY DEF TypeOK
<1>2. after(cq_head, CQ_SIZE) \in 0 .. CQ_SIZE - 1
  BY <1>1, AfterMod, Sizes
<1>3. next_phase \in Bit
  BY <1>1 DEF next_phase, flip, Bit
<1> QED
  BY <1>1, <1>2, <1>3 DEF fill_pos, fill_phase, new_slots, slots

\* The slots of PhaseMarksNew are those of the invariant.
LEMMA FreshSlots ==
  ASSUME TypeOK
  PROVE  fresh_slots = new_slots
<1>1. cq_head \in 0 .. CQ_SIZE - 1
  BY DEF TypeOK
<1>2. CASE half_posted
  <2>1. fresh_slots = slots(host_head, (cq_head + 1) % CQ_SIZE, CQ_SIZE)
    BY <1>2 DEF fresh_slots, half_posted
  <2>2. (cq_head + 1) % CQ_SIZE = after(cq_head, CQ_SIZE)
    BY <1>1, AfterMod, Sizes
  <2> QED
    BY <1>2, <2>1, <2>2 DEF new_slots, fill_pos
<1>3. CASE ~half_posted
  <2>1. fresh_slots = slots(host_head, (cq_head + 0) % CQ_SIZE, CQ_SIZE)
    BY <1>3 DEF fresh_slots, half_posted
  <2>2. (cq_head + 0) % CQ_SIZE = cq_head
    BY <1>1, Sizes
  <2> QED
    BY <1>3, <2>1, <2>2 DEF new_slots, fill_pos
<1> QED
  BY <1>2, <1>3

\* The entry the host looks at is new exactly when there are new entries.
LEMMA NewIsFresh ==
  ASSUME TypeOK, CqInv
  PROVE  /\ entry_is_new <=> host_head # fill_pos
         /\ entry_is_new <=> new_slots # {}
         /\ entry_is_new <=> host_head \in new_slots
<1>1. /\ new_slots = {} <=> host_head = fill_pos
      /\ host_head # fill_pos => host_head \in new_slots
  <2>1. host_head \in 0 .. CQ_SIZE - 1 /\ fill_pos \in 0 .. CQ_SIZE - 1
    BY FillType
  <2> QED
    BY <2>1, SlotsEmpty, Sizes, Zenon DEF new_slots
<1>2. new_phase(host_head) = host_phase /\ host_phase \in Bit
  BY FillType DEF new_phase, TypeOK
<1>3. cq[host_head].phase = IF host_head \in new_slots THEN host_phase ELSE flip(host_phase)
  BY <1>2, FillType DEF CqInv
<1>4. flip(host_phase) # host_phase
  BY <1>2 DEF flip, Bit
<1> QED
  BY <1>1, <1>3, <1>4 DEF entry_is_new

\* Removing a tag leaves fewer than any ring holds.
LEMMA OtherTags ==
  ASSUME NEW t \in Tag
  PROVE  /\ IsFiniteSet(Tag \ {t})
         /\ Cardinality(Tag \ {t}) < SQ_SIZE - 1
         /\ Cardinality(Tag \ {t}) < CQ_SIZE - 1
<1>1. IsFiniteSet(Tag \ {t}) /\ Cardinality(Tag \ {t}) = Cardinality(Tag) - 1
  BY FS_RemoveElement, RingAssumption
<1>2. Cardinality(Tag) \in Nat
  BY FS_CardinalityType, RingAssumption
<1> QED
  BY <1>1, <1>2, RingAssumption

-----------------------------------------------------------------------------
(* Initially.                                                              *)

\* The invariant holds when the rings are empty.
LEMMA InitInv == Init => IInv
<1> SUFFICES ASSUME Init PROVE IInv
  OBVIOUS
<1>1. TypeOK
  <2>1. 0 \in 0 .. SQ_SIZE - 1 /\ 0 \in 0 .. CQ_SIZE - 1 /\ 0 \in Bit /\ 1 \in Bit
    BY Sizes DEF Bit
  <2>2. /\ sq \in [Sq -> [0 .. SQ_SIZE - 1 -> Tag \union {NoTag}]]
        /\ filling \in [Sq -> Tag \union {NoTag}]
    BY DEF Init
  <2>3. cq \in [0 .. CQ_SIZE - 1 -> [tag : Tag \union {NoTag}, phase : Bit]]
    BY <2>1 DEF Init, empty_cqe
  <2>4. disp \in [sq : Sq \union {"none"}, entry : 0 .. SQ_SIZE - 1, new_db : 0 .. SQ_SIZE - 1]
    BY <2>1 DEF Init, idle_disp
  <2>5. dbs \in [Sq -> 0 .. SQ_SIZE - 1] /\ old_dbs \in [Sq -> 0 .. SQ_SIZE - 1]
    BY <2>1 DEF Init
  <2> QED
    BY <2>1, <2>2, <2>3, <2>4, <2>5 DEF Init, TypeOK
<1>2. \A s \in Sq : unprocessed(s) = {}
  <2> TAKE s \in Sq
  <2>1. position(s) = 0 /\ dbs[s] = 0
    BY RingAssumption DEF Init, position, idle_disp
  <2> QED
    BY <1>1, <2>1, Unprocessed, SlotsEmpty, Sizes
<1>3. SqInv
  BY <1>2, RingAssumption DEF SqInv, Init, idle_disp
<1>4. LockInv
  BY DEF LockInv, Init
<1>5. ~half_posted /\ fill_pos = 0 /\ fill_phase = 1
  BY DEF Init, half_posted, fill_pos, fill_phase
<1>6. new_slots = {}
  BY <1>1, <1>5, FillType, SlotsEmpty, Sizes DEF Init, new_slots
<1>7. CqInv
  BY <1>5, <1>6 DEF CqInv, Init, new_phase, flip, empty_cqe
<1> QED
  BY <1>1, <1>3, <1>4, <1>7 DEF IInv

-----------------------------------------------------------------------------
(* The type invariant.                                                     *)

\* Every step keeps the types.
LEMMA NextType == ASSUME IInv, [Next]_vars PROVE TypeOK'
<1> USE Sizes DEF IInv
<1>1. ASSUME NEW t \in Tag, Submit(t) PROVE TypeOK'
  <2>1. sq_of[t] \in Sq /\ dbs[sq_of[t]] \in 0 .. SQ_SIZE - 1
    BY DEF TypeOK
  <2>2. (dbs[sq_of[t]] + 1) % SQ_SIZE \in 0 .. SQ_SIZE - 1
    BY <2>1
  <2>3. dbs' \in [Sq -> 0 .. SQ_SIZE - 1]
    BY <1>1, <2>1, <2>2 DEF Submit, TypeOK
  <2>4. sq' \in [Sq -> [0 .. SQ_SIZE - 1 -> Tag \union {NoTag}]]
    BY <1>1, <2>1 DEF Submit, TypeOK
  <2> QED
    BY <1>1, <2>3, <2>4 DEF Submit, TypeOK, cqs, workers
<1>2. ASSUME Take PROVE TypeOK'
  <2>1. host_head \in 0 .. CQ_SIZE - 1 /\ (host_head + 1) % CQ_SIZE \in 0 .. CQ_SIZE - 1
    BY DEF TypeOK
  <2>2. host_phase' \in Bit
    BY <1>2 DEF Take, TypeOK, flip, Bit
  <2> QED
    BY <1>2, <2>1, <2>2 DEF Take, TypeOK, sqs, cqs, workers
<1>3. ASSUME HandlerReturns PROVE TypeOK'
  BY <1>3 DEF HandlerReturns, TypeOK, sqs, cqs, workers
<1>4. ASSUME NEW s \in Sq, SeeDoorbell(s) PROVE TypeOK'
  BY <1>4 DEF SeeDoorbell, TypeOK, host, sqs, cqs, workers
<1>5. ASSUME NEW s \in Sq, Accept(s) PROVE TypeOK'
  <2>1. next_entry(disp.entry) \in 0 .. SQ_SIZE - 1
    BY DEF next_entry, TypeOK
  <2> QED
    BY <1>5, <2>1 DEF Accept, TypeOK, sqs, cqs, workers
<1>6. ASSUME NEW s \in Sq, Refuse(s) \/ SqDone(s) PROVE TypeOK'
  <2>1. idle_disp \in [sq : Sq \union {"none"}, entry : 0 .. SQ_SIZE - 1,
                       new_db : 0 .. SQ_SIZE - 1]
    BY DEF idle_disp
  <2> QED
    BY <1>6, <2>1 DEF Refuse, SqDone, processed_upto, TypeOK, host, cqs, workers
<1>7. ASSUME NEW s \in Sq, NEW t \in Tag, Pick(s, t) PROVE TypeOK'
  BY <1>7 DEF Pick, TypeOK, sqs, cqs
<1>8. ASSUME NEW s \in Sq, FillBegin(s) PROVE TypeOK'
  <2>1. cq_head \in 0 .. CQ_SIZE - 1 /\ filling[s] \in Tag \union {NoTag}
    BY DEF TypeOK
  <2>2. cq' \in [0 .. CQ_SIZE - 1 -> [tag : Tag \union {NoTag}, phase : Bit]]
    BY <1>8, <2>1, ZenonT(60) DEF FillBegin, TypeOK
  <2> QED
    BY <1>8, <2>2 DEF FillBegin, TypeOK, host, sqs
<1>9. ASSUME NEW s \in Sq, FillStatus(s) PROVE TypeOK'
  <2>1. cq_head \in 0 .. CQ_SIZE - 1 /\ phase \in Bit
    BY DEF TypeOK
  <2>2. cq' \in [0 .. CQ_SIZE - 1 -> [tag : Tag \union {NoTag}, phase : Bit]]
    BY <1>9, <2>1, ZenonT(60) DEF FillStatus, TypeOK
  <2> QED
    BY <1>9, <2>2 DEF FillStatus, TypeOK, sqs
<1>10. ASSUME NEW s \in Sq, FillResult(s) PROVE TypeOK'
  <2>1. (cq_head + 1) % CQ_SIZE \in 0 .. CQ_SIZE - 1 /\ next_phase \in Bit
    BY DEF TypeOK, next_phase, flip, Bit
  <2> QED
    BY <1>10, <2>1 DEF FillResult, TypeOK, host, sqs
<1>11. ASSUME NEW s \in Sq, IrqTest(s) \/ IrqRaise(s) PROVE TypeOK'
  BY <1>11, ZenonT(60) DEF IrqTest, IrqRaise, IrqClear, IrqSignal, TypeOK, host, sqs, cqs
<1>12. ASSUME UNCHANGED vars PROVE TypeOK'
  BY <1>12 DEF vars, host, sqs, cqs, workers, TypeOK
<1> QED
  BY <1>1, <1>2, <1>3, <1>4, <1>5, <1>6, <1>7, <1>8, <1>9, <1>10, <1>11, <1>12
     DEF Next, HostHandler, DispatcherStep, WorkerStep

-----------------------------------------------------------------------------
(* The submission rings.                                                   *)

\* Steps that neither submit nor dispatch a command nor move the dispatcher.
LEMMA SqFrame ==
  ASSUME TypeOK, TypeOK', SqInv, UNCHANGED <<sq_of, sqs, disp>>,
         \A t \in Tag : state'[t] = "submitted" <=> state[t] = "submitted"
  PROVE  SqInv'
<1>1. \A s : unprocessed(s)' = unprocessed(s)
  BY DEF unprocessed, sqs
<1> QED
  BY <1>1 DEF SqInv, sqs

\* The host's new command takes the slot at the doorbell, which is not one the
\* dispatcher has yet to read.
LEMMA SqSubmit ==
  ASSUME TypeOK, TypeOK', SqInv, NEW t \in Tag, Submit(t)
  PROVE  SqInv'
<1>1. PICK q \in Sq : q = sq_of[t]
  BY DEF TypeOK
<1>2. PICK b \in 0 .. SQ_SIZE - 1 : b = dbs[q]
  BY DEF TypeOK
<1>3. PICK p \in 0 .. SQ_SIZE - 1 : p = position(q)
  BY Unprocessed
<1>4. PICK U \in SUBSET (0 .. SQ_SIZE - 1) : U = unprocessed(q)
  BY Unprocessed
<1>5. U = slots(p, b, SQ_SIZE)
  BY <1>2, <1>3, <1>4, Unprocessed
<1>6. after(b, SQ_SIZE) # p
  <2> DEFINE f == [i \in U |-> sq[q][i]]
  <2>1. \A i \in U : f[i] \in Tag \ {t}
    BY <1>4 DEF SqInv, Submit
  <2>2. \A i, j \in U : f[i] = f[j] => i = j
    BY <1>4 DEF SqInv
  <2> HIDE DEF f
  <2> QED
    BY <1>5, <2>1, <2>2, Room, OtherTags, Sizes, Zenon
<1>7. dbs'[q] = after(b, SQ_SIZE) /\ \A s \in Sq : s # q => dbs'[s] = dbs[s]
  <2>1. dbs' = [dbs EXCEPT ![q] = (dbs[q] + 1) % SQ_SIZE]
    BY <1>1 DEF Submit
  <2>2. DOMAIN dbs = Sq /\ q \in Sq
    BY <1>1 DEF TypeOK
  <2>3. (b + 1) % SQ_SIZE = after(b, SQ_SIZE)
    BY <1>2, AfterMod, Sizes
  <2> QED BY <1>2, <2>1, <2>2, <2>3
<1>8. unprocessed(q)' = U \union {b} /\ b \notin U
  <2>1. unprocessed(q)' = slots(p, after(b, SQ_SIZE), SQ_SIZE)
    BY <1>3, <1>7 DEF unprocessed, position, Submit
  <2> QED
    BY <1>5, <1>6, <2>1, SlotsGrow, Sizes
<1>9. \A s \in Sq : s # q => unprocessed(s)' = unprocessed(s)
  BY <1>7 DEF unprocessed, Submit
<1>10. /\ \A s \in Sq : \A i \in 0 .. SQ_SIZE - 1 :
            sq'[s][i] = IF s = q /\ i = b THEN t ELSE sq[s][i]
       /\ \A x \in Tag : state'[x] = IF x = t THEN "submitted" ELSE state[x]
       /\ sq_of' = sq_of /\ disp' = disp /\ state[t] = "idle"
  BY <1>1, <1>2, ZenonT(60) DEF Submit, TypeOK
<1>11. \A s \in Sq : unprocessed(s) \subseteq 0 .. SQ_SIZE - 1
  BY Unprocessed
<1>12. ASSUME NEW s \in Sq, NEW i \in unprocessed(s)'
       PROVE  /\ sq'[s][i] \in Tag /\ state'[sq'[s][i]] = "submitted" /\ sq_of'[sq'[s][i]] = s
              /\ \A j \in unprocessed(s)' : sq'[s][i] = sq'[s][j] => i = j
  <2>1. CASE s # q
    BY <1>9, <1>10, <1>11, <2>1 DEF SqInv
  <2>2. CASE s = q
    <3>1. \A j \in U : /\ j # b /\ sq'[q][j] = sq[q][j] /\ sq[q][j] # t
                       /\ sq[q][j] \in Tag /\ state'[sq[q][j]] = "submitted"
                       /\ sq_of'[sq[q][j]] = q
      BY <1>4, <1>8, <1>10 DEF SqInv
    <3>2. sq'[q][b] = t /\ state'[t] = "submitted" /\ sq_of'[t] = q
      BY <1>1, <1>10
    <3>3. \A j, k \in U : sq[q][j] = sq[q][k] => j = k
      BY <1>4 DEF SqInv
    <3> QED
      BY <1>8, <2>2, <3>1, <3>2, <3>3
  <2> QED
    BY <2>1, <2>2
<1>13. ASSUME NEW x \in Tag, state'[x] = "submitted"
       PROVE  \E s \in Sq : \E i \in unprocessed(s)' : sq'[s][i] = x
  <2>1. CASE x = t
    BY <1>8, <1>10, <2>1
  <2>2. CASE x # t
    <3>1. PICK s \in Sq : \E i \in unprocessed(s) : sq[s][i] = x
      BY <1>10, <1>13, <2>2 DEF SqInv
    <3>2. PICK i \in unprocessed(s) : sq[s][i] = x
      BY <3>1
    <3>3. i \in unprocessed(s)' /\ i \in 0 .. SQ_SIZE - 1 /\ ~(s = q /\ i = b)
      BY <1>4, <1>8, <1>9, <1>11
    <3> QED
      BY <1>10, <3>2, <3>3
  <2> QED
    BY <2>1, <2>2
<1>14. ASSUME NEW s \in Sq, disp'.sq = s
       PROVE  disp'.new_db \in unprocessed(s)' \union {dbs'[s]}
  BY <1>2, <1>4, <1>7, <1>8, <1>9, <1>10, <1>14 DEF SqInv
<1> QED
  BY <1>12, <1>13, <1>14 DEF SqInv

\* A doorbell that moved is an end of unprocessed slots.
LEMMA SqSeeDoorbell ==
  ASSUME TypeOK, TypeOK', SqInv, NEW q \in Sq, SeeDoorbell(q)
  PROVE  SqInv'
<1>1. \A s \in Sq : unprocessed(s)' = unprocessed(s)
  BY RingAssumption DEF unprocessed, SeeDoorbell, idle_disp, sqs
<1>2. sq' = sq /\ dbs' = dbs /\ state' = state /\ sq_of' = sq_of
  BY DEF SeeDoorbell, sqs, host
<1>3. \A s \in Sq : disp'.sq = s => s = q /\ disp'.new_db = dbs[q]
  BY DEF SeeDoorbell
<1> QED
  BY <1>1, <1>2, <1>3 DEF SqInv

\* The command the dispatcher is at is one that waits.
LEMMA AcceptedIsSubmitted ==
  ASSUME TypeOK, SqInv, NEW q \in Sq, Accept(q)
  PROVE  /\ disp.entry \in unprocessed(q)
         /\ sq[q][disp.entry] \in Tag
         /\ state[sq[q][disp.entry]] = "submitted"
<1>1. PICK p \in 0 .. SQ_SIZE - 1 : p = disp.entry
  BY DEF TypeOK
<1>2. PICK b \in 0 .. SQ_SIZE - 1 : b = dbs[q]
  BY DEF TypeOK
<1>3. unprocessed(q) = slots(p, b, SQ_SIZE)
  BY <1>1, <1>2 DEF unprocessed, Accept
<1>4. disp.new_db \in unprocessed(q) \union {b} /\ disp.new_db # p
  BY <1>1, <1>2 DEF SqInv, Accept
<1>5. disp.entry \in unprocessed(q)
  BY <1>1, <1>3, <1>4, SlotsEmpty, Sizes
<1> QED
  BY <1>5 DEF SqInv

\* The dispatcher takes the oldest unprocessed command and no other.
LEMMA SqAccept ==
  ASSUME TypeOK, TypeOK', SqInv, NEW q \in Sq, Accept(q)
  PROVE  SqInv'
<1>1. PICK p \in 0 .. SQ_SIZE - 1 : p = disp.entry
  BY DEF TypeOK
<1>2. PICK b \in 0 .. SQ_SIZE - 1 : b = dbs[q]
  BY DEF TypeOK
<1>3. PICK U \in SUBSET (0 .. SQ_SIZE - 1) : U = unprocessed(q)
  BY Unprocessed
<1>4. U = slots(p, b, SQ_SIZE)
  BY <1>1, <1>2, <1>3 DEF unprocessed, Accept
<1>5. p # b
  <2>1. p \in U
    BY <1>1, <1>3, AcceptedIsSubmitted
  <2> QED
    BY <1>4, <2>1, SlotsEmpty, Sizes
<1>6. unprocessed(q)' = U \ {p} /\ p \in U
  <2>1. unprocessed(q)' = slots(after(p, SQ_SIZE), b, SQ_SIZE)
    BY <1>1, <1>2 DEF unprocessed, Accept, TypeOK, next_entry, after, sqs
  <2> QED
    BY <1>4, <1>5, <2>1, SlotsShrink, Sizes
<1>7. \A s \in Sq : s # q => unprocessed(s)' = unprocessed(s)
  BY DEF unprocessed, Accept, TypeOK, sqs
<1>8. PICK t \in Tag : t = sq[q][p]
  BY <1>3, <1>6 DEF SqInv
<1>9. /\ sq' = sq /\ dbs' = dbs /\ sq_of' = sq_of
      /\ \A x \in Tag : state'[x] = IF x = t THEN "dispatched" ELSE state[x]
  BY <1>1, <1>8 DEF Accept, TypeOK, sqs
<1>10. ASSUME NEW s \in Sq, NEW i \in unprocessed(s)'
       PROVE  /\ sq[s][i] \in Tag /\ state'[sq[s][i]] = "submitted" /\ sq_of[sq[s][i]] = s
              /\ \A j \in unprocessed(s)' : sq[s][i] = sq[s][j] => i = j
  <2>1. i \in unprocessed(s) /\ ~(s = q /\ i = p) /\ unprocessed(s)' \subseteq unprocessed(s)
    BY <1>3, <1>6, <1>7
  <2>2. sq[s][i] # t
    BY <1>3, <1>6, <1>8, <2>1 DEF SqInv
  <2> QED
    BY <1>9, <2>1, <2>2 DEF SqInv
<1>11. ASSUME NEW x \in Tag, state'[x] = "submitted"
       PROVE  \E s \in Sq : \E i \in unprocessed(s)' : sq[s][i] = x
  <2>1. x # t /\ state[x] = "submitted"
    BY <1>9, <1>11
  <2>2. PICK s \in Sq : \E i \in unprocessed(s) : sq[s][i] = x
    BY <2>1 DEF SqInv
  <2>3. PICK i \in unprocessed(s) : sq[s][i] = x
    BY <2>2
  <2>4. i \in unprocessed(s)'
    BY <1>3, <1>6, <1>7, <1>8, <2>1, <2>3
  <2> QED
    BY <2>3, <2>4
<1>12. ASSUME NEW s \in Sq, disp'.sq = s
       PROVE  disp'.new_db \in unprocessed(s)' \union {dbs[s]}
  <2>1. s = q /\ disp'.new_db = disp.new_db /\ disp.new_db # p /\ disp.sq = q
    BY <1>1, <1>12 DEF Accept, TypeOK
  <2> QED
    BY <1>3, <1>6, <2>1 DEF SqInv
<1> QED
  BY <1>9, <1>10, <1>11, <1>12 DEF SqInv

\* The position the dispatcher saves is the one it came to.
LEMMA SqLeave ==
  ASSUME TypeOK, TypeOK', SqInv, NEW q \in Sq, Refuse(q) \/ SqDone(q)
  PROVE  SqInv'
<1>1. \A s \in Sq : unprocessed(s)' = unprocessed(s)
  <2> TAKE s \in Sq
  <2>1. position(s)' = position(s)
    <3>1. /\ disp.sq = q /\ disp'.sq # s
          /\ old_dbs' = [old_dbs EXCEPT ![q] = disp.entry]
      BY RingAssumption DEF Refuse, SqDone, idle_disp, processed_upto
    <3> QED
      BY <3>1 DEF position, TypeOK
  <2>2. dbs' = dbs
    BY DEF Refuse, SqDone
  <2> QED
    BY <2>1, <2>2 DEF unprocessed, position
<1>2. sq' = sq /\ dbs' = dbs /\ state' = state /\ sq_of' = sq_of
  BY DEF Refuse, SqDone, host
<1>3. \A s \in Sq : disp'.sq # s
  BY RingAssumption DEF Refuse, SqDone, idle_disp
<1> QED
  BY <1>1, <1>2, <1>3 DEF SqInv

\* Every step keeps the submission rings in order.
LEMMA NextSq == ASSUME IInv, [Next]_vars, TypeOK' PROVE SqInv'
<1> USE DEF IInv
<1>1. ASSUME NEW t \in Tag, Submit(t) PROVE SqInv'
  BY <1>1, SqSubmit
<1>2. ASSUME Take PROVE SqInv'
  <2>1. cq[host_head].tag \in Tag /\ state[cq[host_head].tag] = "posted"
    BY <1>2, NewIsFresh DEF CqInv, Take
  <2>2. \A t \in Tag : state'[t] = "submitted" <=> state[t] = "submitted"
    BY <1>2, <2>1 DEF Take, TypeOK
  <2> QED
    BY <1>2, <2>2, SqFrame DEF Take
<1>3. ASSUME HandlerReturns PROVE SqInv'
  BY <1>3, SqFrame DEF HandlerReturns
<1>4. ASSUME NEW s \in Sq, SeeDoorbell(s) PROVE SqInv'
  BY <1>4, SqSeeDoorbell
<1>5. ASSUME NEW s \in Sq, Accept(s) PROVE SqInv'
  BY <1>5, SqAccept
<1>6. ASSUME NEW s \in Sq, Refuse(s) \/ SqDone(s) PROVE SqInv'
  BY <1>6, SqLeave
<1>7. ASSUME NEW s \in Sq, NEW t \in Tag, Pick(s, t) PROVE SqInv'
  <2>1. \A x \in Tag : state'[x] = "submitted" <=> state[x] = "submitted"
    BY <1>7 DEF Pick, TypeOK
  <2> QED
    BY <1>7, <2>1, SqFrame DEF Pick
<1>8. ASSUME NEW s \in Sq, FillBegin(s) PROVE SqInv'
  BY <1>8, SqFrame DEF FillBegin, host
<1>9. ASSUME NEW s \in Sq, FillStatus(s) PROVE SqInv'
  <2>1. \A x \in Tag : state'[x] = "submitted" <=> state[x] = "submitted"
    BY <1>9 DEF FillStatus, LockInv, TypeOK
  <2> QED
    BY <1>9, <2>1, SqFrame DEF FillStatus
<1>10. ASSUME NEW s \in Sq, FillResult(s) PROVE SqInv'
  BY <1>10, SqFrame DEF FillResult, host
<1>11. ASSUME NEW s \in Sq, IrqTest(s) \/ IrqRaise(s) PROVE SqInv'
  <2>1. UNCHANGED <<state, sq_of, sqs, disp>>
    BY <1>11 DEF IrqTest, IrqRaise, IrqClear, IrqSignal, host
  <2> QED
    BY <2>1, SqFrame
<1>12. ASSUME UNCHANGED vars PROVE SqInv'
  BY <1>12, SqFrame DEF vars, host
<1> QED
  BY <1>1, <1>2, <1>3, <1>4, <1>5, <1>6, <1>7, <1>8, <1>9, <1>10, <1>11, <1>12
     DEF Next, HostHandler, DispatcherStep, WorkerStep

-----------------------------------------------------------------------------
(* The lock of the completion queue.                                       *)

\* Steps that leave the workers and the commands they complete alone.
LEMMA LockFrame ==
  ASSUME LockInv, UNCHANGED <<sq_of, workers, cqs>>,
         \A t \in Tag : state[t] = "filling" => state'[t] = "filling"
  PROVE  LockInv'
BY DEF LockInv, workers, cqs

\* Every step keeps entry_lock with the one worker that writes an entry.
LEMMA NextLock == ASSUME IInv, [Next]_vars, TypeOK' PROVE LockInv'
<1> USE DEF IInv
<1>1. ASSUME NEW t \in Tag, Submit(t) PROVE LockInv'
  <2>1. \A x \in Tag : state[x] = "filling" => state'[x] = "filling"
    BY <1>1 DEF Submit, TypeOK
  <2> QED
    BY <1>1, <2>1, LockFrame DEF Submit
<1>2. ASSUME Take PROVE LockInv'
  <2>1. cq[host_head].tag \in Tag /\ state[cq[host_head].tag] = "posted"
    BY <1>2, NewIsFresh DEF CqInv, Take
  <2>2. \A t \in Tag : state[t] = "filling" => state'[t] = "filling"
    BY <1>2, <2>1 DEF Take, TypeOK
  <2> QED
    BY <1>2, <2>2, LockFrame DEF Take
<1>3. ASSUME HandlerReturns PROVE LockInv'
  BY <1>3, LockFrame DEF HandlerReturns
<1>4. ASSUME NEW s \in Sq, SeeDoorbell(s) PROVE LockInv'
  BY <1>4, LockFrame DEF SeeDoorbell, host
<1>5. ASSUME NEW s \in Sq, Accept(s) PROVE LockInv'
  <2>1. state[sq[s][disp.entry]] = "submitted" /\ sq[s][disp.entry] \in Tag
    BY <1>5, AcceptedIsSubmitted
  <2>2. \A t \in Tag : state[t] = "filling" => state'[t] = "filling"
    BY <1>5, <2>1 DEF Accept, TypeOK
  <2> QED
    BY <1>5, <2>2, LockFrame DEF Accept
<1>6. ASSUME NEW s \in Sq, Refuse(s) \/ SqDone(s) PROVE LockInv'
  BY <1>6, LockFrame DEF Refuse, SqDone, host
<1>7. ASSUME NEW s \in Sq, NEW t \in Tag, Pick(s, t) PROVE LockInv'
  BY <1>7 DEF Pick, LockInv, TypeOK, cqs
<1>8. ASSUME NEW s \in Sq, FillBegin(s) PROVE LockInv'
  <2>1. cq_head \in 0 .. CQ_SIZE - 1 /\ cq'[cq_head].tag = filling[s]
    BY <1>8 DEF FillBegin, TypeOK
  <2>2. \A r \in Sq : wpc[r] \notin {"status", "result"}
    BY <1>8, RingAssumption DEF FillBegin, LockInv
  <2> QED
    BY <1>8, <2>1, <2>2 DEF FillBegin, LockInv, TypeOK, host
<1>9. ASSUME NEW s \in Sq, FillStatus(s) PROVE LockInv'
  <2>1. \A r \in Sq : r # s => wpc[r] \notin {"status", "result"}
    BY <1>9 DEF FillStatus, LockInv
  <2>2. \A r \in Sq : r # s /\ wpc[r] = "lock" => filling[r] # filling[s]
    BY <1>9 DEF FillStatus, LockInv
  <2> QED
    BY <1>9, <2>1, <2>2 DEF FillStatus, LockInv, TypeOK
<1>10. ASSUME NEW s \in Sq, FillResult(s) PROVE LockInv'
  <2>1. \A r \in Sq : r # s => wpc[r] \notin {"status", "result"}
    BY <1>10 DEF FillResult, LockInv
  <2> QED
    BY <1>10, <2>1 DEF FillResult, LockInv, TypeOK, host
<1>11. ASSUME NEW s \in Sq, IrqTest(s) \/ IrqRaise(s) PROVE LockInv'
  <2>1. \A r \in Sq : wpc'[r] \in {"lock", "status", "result"} => wpc'[r] = wpc[r]
    BY <1>11, SMTT(30) DEF IrqTest, IrqRaise, IrqClear, IrqSignal, TypeOK
  <2>2. UNCHANGED <<state, sq_of, cq, cq_head, entry_lock, filling>>
    BY <1>11 DEF IrqTest, IrqRaise, IrqClear, IrqSignal, host, cqs
  <2> QED
    BY <2>1, <2>2 DEF LockInv
<1>12. ASSUME UNCHANGED vars PROVE LockInv'
  BY <1>12, LockFrame DEF vars, host
<1> QED
  BY <1>1, <1>2, <1>3, <1>4, <1>5, <1>6, <1>7, <1>8, <1>9, <1>10, <1>11, <1>12
     DEF Next, HostHandler, DispatcherStep, WorkerStep

-----------------------------------------------------------------------------
(* The completion ring.                                                    *)

\* Steps that post and take no entry.
LEMMA CqFrame ==
  ASSUME TypeOK, TypeOK', CqInv,
         UNCHANGED <<host_head, host_phase, cq, cq_head, phase>>,
         half_posted' <=> half_posted,
         \A t \in Tag : state'[t] = "posted" <=> state[t] = "posted"
  PROVE  CqInv'
<1>1. /\ fill_pos' = fill_pos /\ fill_phase' = fill_phase
      /\ \A i : new_phase(i)' = new_phase(i)
  BY DEF fill_pos, fill_phase, next_phase, new_phase
<1>2. new_slots' = new_slots
  BY <1>1 DEF new_slots
<1>3. \A i \in new_slots : cq[i].tag \in Tag
  BY DEF CqInv
<1>4. fill_phase' = new_phase(fill_pos)'
  BY <1>1 DEF CqInv, new_phase
<1> QED
  BY <1>1, <1>2, <1>3, <1>4 DEF CqInv

\* The host takes the oldest new entry and no other, and flips the phase it
\* looks for at the end of the ring.
LEMMA CqTake ==
  ASSUME TypeOK, TypeOK', CqInv, Take
  PROVE  CqInv'
<1>1. PICK h \in 0 .. CQ_SIZE - 1 : h = host_head
  BY FillType
<1>2. PICK e \in 0 .. CQ_SIZE - 1 : e = fill_pos
  BY FillType
<1>3. PICK N \in SUBSET (0 .. CQ_SIZE - 1) : N = new_slots
  BY FillType
<1>4. N = slots(h, e, CQ_SIZE) /\ h # e /\ h \in N
  BY <1>1, <1>2, <1>3, NewIsFresh DEF new_slots, Take
<1>5. host_head' = after(h, CQ_SIZE)
  BY <1>1, AfterMod, Sizes DEF Take
<1>6. fill_pos' = e /\ fill_phase' = fill_phase /\ cq' = cq
  BY <1>2 DEF Take, fill_pos, fill_phase, half_posted, next_phase, cqs, workers
<1>7. new_slots' = N \ {h}
  BY <1>4, <1>5, <1>6, SlotsShrink, Sizes DEF new_slots
<1>8. PICK t \in Tag : t = cq[h].tag
  BY <1>3, <1>4 DEF CqInv
<1>9. \A x \in Tag : state'[x] = IF x = t THEN "idle" ELSE state[x]
  BY <1>1, <1>8 DEF Take, TypeOK
<1>10. \A i \in 0 .. CQ_SIZE - 1 :
         new_phase(i)' = IF i = h THEN flip(new_phase(i)) ELSE new_phase(i)
  <2>1. /\ host_head' = IF h + 1 = CQ_SIZE THEN 0 ELSE h + 1
        /\ host_phase' = IF h + 1 = CQ_SIZE THEN flip(host_phase) ELSE host_phase
    BY <1>1, <1>5 DEF Take, after
  <2>2. host_phase \in Bit
    BY DEF TypeOK
  <2> QED
    BY <1>1, <2>1, <2>2, Sizes DEF new_phase, flip, Bit
<1>11. ASSUME NEW i \in new_slots'
       PROVE  /\ cq[i].tag \in Tag /\ state'[cq[i].tag] = "posted"
              /\ \A j \in new_slots' : cq[i].tag = cq[j].tag => i = j
  BY <1>3, <1>4, <1>7, <1>8, <1>9 DEF CqInv
<1>12. ASSUME NEW x \in Tag, state'[x] = "posted"
       PROVE  \E i \in new_slots' : cq[i].tag = x
  BY <1>3, <1>7, <1>8, <1>9, <1>12 DEF CqInv
<1>13. ASSUME NEW i \in 0 .. CQ_SIZE - 1
       PROVE  cq[i].phase = IF i \in new_slots' THEN new_phase(i)' ELSE flip(new_phase(i)')
  <2>1. cq[i].phase = IF i \in N THEN new_phase(i) ELSE flip(new_phase(i))
    BY <1>3 DEF CqInv
  <2>2. flip(flip(new_phase(i))) = new_phase(i)
    BY DEF new_phase, flip, TypeOK, Bit
  <2> QED
    BY <1>4, <1>7, <1>10, <2>1, <2>2
<1>14. fill_phase' = new_phase(e)'
  BY <1>2, <1>4, <1>6, <1>10 DEF CqInv
<1> QED
  BY <1>6, <1>11, <1>12, <1>13, <1>14 DEF CqInv, new_phase

\* The identifying fields go to the slot behind the new entries.
LEMMA CqFillBegin ==
  ASSUME TypeOK, TypeOK', CqInv, LockInv, NEW s \in Sq, FillBegin(s)
  PROVE  CqInv'
<1>1. PICK e \in 0 .. CQ_SIZE - 1 : e = cq_head
  BY DEF TypeOK
<1>2. ~half_posted /\ ~half_posted'
  <2>1. \A r \in Sq : wpc[r] # "result"
    BY RingAssumption DEF FillBegin, LockInv
  <2>2. \A r \in Sq : wpc'[r] # "result"
    BY <2>1 DEF FillBegin, TypeOK
  <2> QED
    BY <2>1, <2>2 DEF half_posted
<1>3. /\ UNCHANGED <<state, host_head, host_phase, cq_head, phase>>
      /\ \A i \in 0 .. CQ_SIZE - 1 : cq'[i].phase = cq[i].phase
      /\ \A i \in 0 .. CQ_SIZE - 1 : i # e => cq'[i].tag = cq[i].tag
  BY <1>1 DEF FillBegin, TypeOK, host
<1>4. fill_pos = e /\ fill_pos' = e /\ fill_phase' = fill_phase
  BY <1>1, <1>2, <1>3 DEF fill_pos, fill_phase
<1>5. new_slots' = new_slots /\ \A i : new_phase(i)' = new_phase(i)
  BY <1>3, <1>4 DEF new_slots, new_phase
<1>6. \A i \in new_slots : i \in 0 .. CQ_SIZE - 1 /\ cq'[i].tag = cq[i].tag
  <2>1. PICK h \in 0 .. CQ_SIZE - 1 : h = host_head
    BY FillType
  <2>2. new_slots = slots(h, e, CQ_SIZE)
    BY <1>4, <2>1 DEF new_slots
  <2>3. e \notin new_slots
    BY <2>2, SlotsEmpty, Sizes
  <2> QED
    BY <1>3, <2>3, FillType
<1>7. fill_phase' = new_phase(e)'
  BY <1>4, <1>5 DEF CqInv
<1> QED
  BY <1>3, <1>4, <1>5, <1>6, <1>7 DEF CqInv, new_phase

\* The phase bit makes the slot the next new entry; the ring has room for it
\* because each new entry holds another command the host waits for.
LEMMA CqFillStatus ==
  ASSUME TypeOK, TypeOK', CqInv, LockInv, NEW s \in Sq, FillStatus(s)
  PROVE  CqInv'
<1>1. PICK h \in 0 .. CQ_SIZE - 1 : h = host_head
  BY FillType
<1>2. PICK e \in 0 .. CQ_SIZE - 1 : e = cq_head
  BY FillType
<1>3. PICK t \in Tag : t = filling[s]
  BY DEF FillStatus, LockInv
<1>4. state[t] = "filling" /\ cq[e].tag = t
  BY <1>2, <1>3 DEF FillStatus, LockInv
<1>5. ~half_posted /\ half_posted'
  BY SMTT(30) DEF FillStatus, LockInv, half_posted, TypeOK
<1>6. fill_pos = e /\ fill_phase = phase
  BY <1>2, <1>5 DEF fill_pos, fill_phase
<1>7. PICK N \in SUBSET (0 .. CQ_SIZE - 1) : N = new_slots
  BY FillType
<1>8. N = slots(h, e, CQ_SIZE)
  BY <1>1, <1>6, <1>7 DEF new_slots
<1>9. after(e, CQ_SIZE) # h
  <2> DEFINE f == [i \in N |-> cq[i].tag]
  <2>1. \A i \in N : f[i] \in Tag \ {t}
    BY <1>4, <1>7 DEF CqInv
  <2>2. \A i, j \in N : f[i] = f[j] => i = j
    BY <1>7 DEF CqInv
  <2> HIDE DEF f
  <2> QED
    BY <1>8, <2>1, <2>2, Room, OtherTags, Sizes, Zenon
<1>10. /\ UNCHANGED <<host_head, host_phase, cq_head, phase>>
       /\ \A i \in 0 .. CQ_SIZE - 1 : cq'[i].tag = cq[i].tag
       /\ \A i \in 0 .. CQ_SIZE - 1 : cq'[i].phase = IF i = e THEN phase ELSE cq[i].phase
       /\ \A x \in Tag : state'[x] = IF x = t THEN "posted" ELSE state[x]
  BY <1>2, <1>3 DEF FillStatus, TypeOK
<1>11. fill_pos' = after(e, CQ_SIZE) /\ fill_phase' = next_phase
  BY <1>2, <1>5, <1>10 DEF fill_pos, fill_phase, next_phase
<1>12. new_slots' = N \union {e} /\ e \notin N
  <2>1. new_slots' = slots(h, after(e, CQ_SIZE), CQ_SIZE)
    BY <1>1, <1>10, <1>11 DEF new_slots
  <2> QED
    BY <1>8, <1>9, <2>1, SlotsGrow, Sizes
<1>13. \A i : new_phase(i)' = new_phase(i)
  BY <1>10 DEF new_phase
<1>14. phase = new_phase(e)
  BY <1>6 DEF CqInv
<1>15. next_phase = new_phase(after(e, CQ_SIZE))
  <2>1. next_phase = IF e + 1 = CQ_SIZE THEN flip(phase) ELSE phase
    BY <1>2 DEF next_phase
  <2>2. host_phase \in Bit
    BY DEF TypeOK
  <2> QED
    BY <1>1, <1>9, <1>14, <2>1, <2>2, Sizes DEF new_phase, after, flip, Bit
<1>16. ASSUME NEW i \in new_slots'
       PROVE  /\ cq'[i].tag \in Tag /\ state'[cq'[i].tag] = "posted"
              /\ \A j \in new_slots' : cq'[i].tag = cq'[j].tag => i = j
  <2>1. \A j \in N : cq[j].tag \in Tag /\ cq[j].tag # t /\ state[cq[j].tag] = "posted"
    BY <1>4, <1>7 DEF CqInv
  <2>2. \A j, k \in N : cq[j].tag = cq[k].tag => j = k
    BY <1>7 DEF CqInv
  <2> QED
    BY <1>4, <1>10, <1>12, <2>1, <2>2
<1>17. ASSUME NEW x \in Tag, state'[x] = "posted"
       PROVE  \E i \in new_slots' : cq'[i].tag = x
  BY <1>4, <1>7, <1>10, <1>12, <1>17 DEF CqInv
<1>18. ASSUME NEW i \in 0 .. CQ_SIZE - 1
       PROVE  cq'[i].phase = IF i \in new_slots' THEN new_phase(i)' ELSE flip(new_phase(i)')
  BY <1>7, <1>10, <1>12, <1>13, <1>14 DEF CqInv
<1>19. fill_phase' = new_phase(after(e, CQ_SIZE))'
  BY <1>10, <1>11, <1>15 DEF new_phase
<1> QED
  BY <1>11, <1>16, <1>17, <1>18, <1>19 DEF CqInv, new_phase

\* The new head is where the entry that was half posted ended.
LEMMA CqFillResult ==
  ASSUME TypeOK, TypeOK', CqInv, LockInv, NEW s \in Sq, FillResult(s)
  PROVE  CqInv'
<1>1. half_posted /\ ~half_posted'
  BY DEF FillResult, LockInv, half_posted, TypeOK
<1>2. cq_head' = after(cq_head, CQ_SIZE) /\ phase' = next_phase
  BY AfterMod, Sizes DEF FillResult, TypeOK
<1>3. UNCHANGED <<state, host_head, host_phase, cq>>
  BY DEF FillResult, host
<1>4. fill_pos' = fill_pos /\ fill_phase' = fill_phase
  BY <1>1, <1>2 DEF fill_pos, fill_phase
<1>5. new_slots' = new_slots /\ \A i : new_phase(i)' = new_phase(i)
  BY <1>3, <1>4 DEF new_slots, new_phase
<1>6. fill_phase' = new_phase(fill_pos)'
  BY <1>3, <1>4 DEF CqInv, new_phase
<1> QED
  BY <1>3, <1>5, <1>6 DEF CqInv

\* Every step keeps the completion ring in order.
LEMMA NextCq == ASSUME IInv, [Next]_vars, TypeOK' PROVE CqInv'
<1> USE DEF IInv
<1>1. ASSUME NEW t \in Tag, Submit(t) PROVE CqInv'
  <2>1. \A x \in Tag : state'[x] = "posted" <=> state[x] = "posted"
    BY <1>1 DEF Submit, TypeOK
  <2> QED
    BY <1>1, <2>1, CqFrame DEF Submit, cqs, workers, half_posted
<1>2. ASSUME Take PROVE CqInv'
  BY <1>2, CqTake
<1>3. ASSUME HandlerReturns PROVE CqInv'
  BY <1>3, CqFrame DEF HandlerReturns, cqs, workers, half_posted
<1>4. ASSUME NEW s \in Sq, SeeDoorbell(s) \/ Refuse(s) \/ SqDone(s) PROVE CqInv'
  <2>1. UNCHANGED <<host, cqs, workers>>
    BY <1>4 DEF SeeDoorbell, Refuse, SqDone
  <2> QED
    BY <2>1, CqFrame DEF host, cqs, workers, half_posted
<1>5. ASSUME NEW s \in Sq, Accept(s) PROVE CqInv'
  <2>1. sq[s][disp.entry] \in Tag /\ state[sq[s][disp.entry]] = "submitted"
    BY <1>5, AcceptedIsSubmitted
  <2>2. \A t \in Tag : state'[t] = "posted" <=> state[t] = "posted"
    BY <1>5, <2>1 DEF Accept, TypeOK
  <2> QED
    BY <1>5, <2>2, CqFrame DEF Accept, cqs, workers, half_posted
<1>6. ASSUME NEW s \in Sq, NEW t \in Tag, Pick(s, t) PROVE CqInv'
  <2>1. \A x \in Tag : state'[x] = "posted" <=> state[x] = "posted"
    BY <1>6 DEF Pick, TypeOK
  <2>2. half_posted' <=> half_posted
    BY <1>6 DEF Pick, TypeOK, half_posted
  <2> QED
    BY <1>6, <2>1, <2>2, CqFrame DEF Pick, cqs
<1>7. ASSUME NEW s \in Sq, FillBegin(s) PROVE CqInv'
  BY <1>7, CqFillBegin
<1>8. ASSUME NEW s \in Sq, FillStatus(s) PROVE CqInv'
  BY <1>8, CqFillStatus
<1>9. ASSUME NEW s \in Sq, FillResult(s) PROVE CqInv'
  BY <1>9, CqFillResult
<1>10. ASSUME NEW s \in Sq, IrqTest(s) \/ IrqRaise(s) PROVE CqInv'
  <2>1. half_posted' <=> half_posted
    <3>1. PICK v \in {"pass", "clear", "signal"} :
            wpc[s] \in {"pass", "clear", "signal"} /\ wpc' = [wpc EXCEPT ![s] = v]
      BY <1>10 DEF IrqTest, IrqRaise, IrqClear, IrqSignal
    <3>2. DOMAIN wpc = Sq
      BY DEF TypeOK
    <3>3. \A r \in Sq : wpc'[r] = IF r = s THEN v ELSE wpc[r]
      BY <3>1, <3>2
    <3>4. wpc[s] # "result" /\ v # "result"
      BY <3>1
    <3> QED BY <3>3, <3>4 DEF half_posted
  <2>2. UNCHANGED <<state, host_head, host_phase, cq, cq_head, phase>>
    BY <1>10 DEF IrqTest, IrqRaise, IrqClear, IrqSignal, host, cqs
  <2> QED
    BY <2>1, <2>2, CqFrame
<1>11. ASSUME UNCHANGED vars PROVE CqInv'
  BY <1>11, CqFrame DEF vars, host, cqs, workers, half_posted
<1> QED
  BY <1>1, <1>2, <1>3, <1>4, <1>5, <1>6, <1>7, <1>8, <1>9, <1>10, <1>11
     DEF Next, HostHandler, DispatcherStep, WorkerStep

-----------------------------------------------------------------------------
(* The theorems.                                                           *)

\* The invariant holds in every reachable state.
LEMMA Invariance == Spec => []IInv
<1>1. IInv /\ [Next]_vars => IInv'
  BY NextType, NextSq, NextLock, NextCq DEF IInv
<1> QED
  BY <1>1, InitInv, PTL DEF Spec

\* Every command is dispatched exactly once (nvmev_proc_dbs, nvmev_proc_io_sq):
\* whatever doorbells move and commands are refused, the submitted commands are
\* those in the unprocessed slots of the rings, each in one slot.
THEOREM ExactlyOnceDispatch == Spec => []DispatchedOnce
<1>1. IInv => DispatchedOnce
  <2> SUFFICES ASSUME IInv, NEW t \in Tag
               PROVE  /\ TypeOK
                      /\ (state[t] = "submitted") <=>
                           \E s \in Sq : \E i \in unprocessed(s) : sq[s][i] = t
                      /\ Cardinality({x \in Sq \X (0 .. SQ_SIZE - 1) :
                           x[2] \in unprocessed(x[1]) /\ sq[x[1]][x[2]] = t}) <= 1
    BY DEF DispatchedOnce, IInv
  <2> DEFINE P == {x \in Sq \X (0 .. SQ_SIZE - 1) :
                     x[2] \in unprocessed(x[1]) /\ sq[x[1]][x[2]] = t}
  <2>1. ASSUME NEW x \in P, NEW y \in P
        PROVE  x = y
    <3>1. /\ x[1] \in Sq /\ y[1] \in Sq /\ x = <<x[1], x[2]>> /\ y = <<y[1], y[2]>>
          /\ x[2] \in unprocessed(x[1]) /\ y[2] \in unprocessed(y[1])
          /\ sq[x[1]][x[2]] = t /\ sq[y[1]][y[2]] = t
      OBVIOUS
    <3>2. x[1] = y[1]
      BY <3>1 DEF IInv, SqInv
    <3>3. x[2] = y[2]
      BY <3>1, <3>2 DEF IInv, SqInv
    <3> QED
      BY <3>1, <3>2, <3>3
  <2>2. Cardinality(P) <= 1
    <3> HIDE DEF P
    <3>1. P = {} \/ \E x : P = {x}
      BY <2>1
    <3>2. Cardinality(P) = 0 \/ Cardinality(P) = 1
      BY <3>1, FS_EmptySet, FS_Singleton, Zenon
    <3> QED
      BY <3>2
  <2>3. (state[t] = "submitted") <=> \E s \in Sq : \E i \in unprocessed(s) : sq[s][i] = t
    BY DEF IInv, SqInv
  <2> QED
    BY <2>2, <2>3 DEF IInv
<1> QED
  BY <1>1, Invariance, PTL

\* The phase bits tell the host exactly which entries are new (__fill_cq_result):
\* the ring never overflows although the device does not check it, and what the
\* host finds from its head on is what it waits for, each command once.
THEOREM PhaseIsExact == Spec => []PhaseMarksNew
<1>1. IInv => PhaseMarksNew
  <2> SUFFICES ASSUME IInv PROVE PhaseMarksNew
    OBVIOUS
  <2> DEFINE Q == {t \in Tag : state[t] = "posted"}
  <2>1. TypeOK /\ CqInv
    BY DEF IInv
  <2>2. PICK N \in SUBSET (0 .. CQ_SIZE - 1) : N = fresh_slots /\ N = new_slots
    BY <2>1, FillType, FreshSlots
  <2>3. {cq[i].tag : i \in N} = Q
    BY <2>1, <2>2 DEF CqInv
  <2>4. IsFiniteSet(N)
    <3>1. IsFiniteSet(0 .. CQ_SIZE - 1)
      BY FS_Interval, Sizes
    <3> QED
      BY <3>1, FS_Subset, Zenon
  <2>5. Cardinality(N) = Cardinality(Q)
    <3> DEFINE f == [i \in N |-> cq[i].tag]
    <3>1. f \in Bijection(N, Q)
      <4>1. f \in [N -> Q] /\ \A i, j \in N : f[i] = f[j] => i = j
        BY <2>1, <2>2, <2>3 DEF CqInv
      <4>2. \A x \in Q : \E i \in N : f[i] = x
        BY <2>1, <2>2 DEF CqInv
      <4> QED
        BY <4>1, <4>2 DEF Bijection, Injection, Surjection, IsInjective
    <3> HIDE DEF f, Q
    <3> QED
      BY <2>4, <3>1, FS_Bijection DEF ExistsBijection
  <2>6. entry_is_new <=> N # {}
    BY <2>1, <2>2, NewIsFresh
  <2> QED
    BY <2>2, <2>3, <2>5, <2>6 DEF PhaseMarksNew
<1> QED
  BY <1>1, Invariance, PTL
=============================================================================
