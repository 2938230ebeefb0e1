-------------------------- MODULE ControllerProofs --------------------------
(***************************************************************************)
(* For admin rings of any sizes, any number of I/O queues, commands and    *)
(* bindings: a driver that sees csts.rdy finds the admin queue programmed, *)
(* every admin command is carried out once and its completion recognised,  *)
(* no doorbell is overlooked and the in-flight counts are exact.           *)
(*                                                                         *)
(* The invariant has six parts: the registers and what the dispatcher has  *)
(* seen of them (RegInv), what the driver holds outside a binding          *)
(* (BindInv), the admin submission ring (SqInv) and completion ring        *)
(* (CqInv), the commands under way (CmdInv), and the I/O queues (QueueInv).*)
(***************************************************************************)
EXTENDS Controller, FiniteSetTheorems, WellFoundedInduction, TLAPS

\* The remainder of a number below twice the modulus.
LEMMA ModOnce ==
  ASSUME NEW n \in Nat \ {0}, NEW x \in 0 .. 2 * n - 1
  PROVE  x % n = IF x < n THEN x ELSE x - n
OBVIOUS

\* Moving a position by one, written with a remainder.
LEMMA AfterMod ==
  ASSUME NEW n \in Nat \ {0}, NEW p \in 0 .. n - 1
  PROVE  (p + 1) % n = after(p, n) /\ after(p, n) \in 0 .. n - 1
<1> DEFINE x == p + 1
<1>1. x \in 0 .. 2 * n - 1
  OBVIOUS
<1>2. x % n = IF x < n THEN x ELSE x - n
  <2> HIDE DEF x
  <2> QED BY <1>1, ModOnce
<1> QED
  BY <1>2 DEF after

\* The occupied slots without remainders: an interval, or two around the end.
LEMMA SlotsInterval ==
  ASSUME NEW n \in Nat \ {0}, NEW a \in 0 .. n - 1, NEW b \in 0 .. n - 1
  PROVE  slots(a, b, n) = {i \in 0 .. n - 1 : IF a <= b THEN a <= i /\ i < b
                                              ELSE a <= i \/ i < b}
<1>1. ASSUME NEW i \in 0 .. n - 1
      PROVE  (i + n - a) % n = IF a <= i THEN i - a ELSE i + n - a
  <2> DEFINE x == i + n - a
  <2>1. x \in 0 .. 2 * n - 1
    OBVIOUS
  <2>2. x % n = IF x < n THEN x ELSE x - n
    <3> HIDE DEF x
    <3> QED BY <2>1, ModOnce
  <2> QED
    BY <2>2
<1>2. (b + n - a) % n = IF a <= b THEN b - a ELSE b + n - a
  BY <1>1, Zenon
<1>3. ASSUME NEW i \in 0 .. n - 1
      PROVE  (i + n - a) % n < (b + n - a) % n
             <=> IF a <= b THEN a <= i /\ i < b ELSE a <= i \/ i < b
  <2>1. (i + n - a) % n = IF a <= i THEN i - a ELSE i + n - a
    BY <1>1
  <2> QED
    BY <1>2, <2>1
<1> QED
  BY <1>3, Zenon DEF slots

\* The producer's step occupies the slot it was at.
LEMMA SlotsGrow ==
  ASSUME NEW n \in Nat \ {0}, NEW a \in 0 .. n - 1, NEW b \in 0 .. n - 1,
         after(b, n) # a
  PROVE  /\ slots(a, after(b, n), n) = slots(a, b, n) \union {b}
         /\ b \notin slots(a, b, n)
<1>1. after(b, n) \in 0 .. n - 1
  BY AfterMod
<1>2. slots(a, after(b, n), n) = {i \in 0 .. n - 1 :
         IF a <= after(b, n) THEN a <= i /\ i < after(b, n) ELSE a <= i \/ i < after(b, n)}
  BY <1>1, SlotsInterval, Zenon
<1>3. slots(a, b, n) = {i \in 0 .. n - 1 : IF a <= b THEN a <= i /\ i < b
                                            ELSE a <= i \/ i < b}
  BY SlotsInterval, Zenon
<1>4. CASE b + 1 = n
  <2>1. after(b, n) = 0 /\ a # 0 /\ a <= b
    BY <1>4 DEF after
  <2> QED
    BY <1>2, <1>3, <1>4, <2>1
<1>5. CASE b + 1 # n
  <2>1. after(b, n) = b + 1 /\ a # b + 1
    BY <1>5 DEF after
  <2> QED
    BY <1>2, <1>3, <1>5, <2>1
<1> QED
  BY <1>4, <1>5

\* The consumer's step frees the slot it was at.
LEMMA SlotsShrink ==
  ASSUME NEW n \in Nat \ {0}, NEW a \in 0 .. n - 1, NEW b \in 0 .. n - 1,
         a # b
  PROVE  /\ slots(after(a, n), b, n) = slots(a, b, n) \ {a}
         /\ a \in slots(a, b, n)
<1>1. after(a, n) \in 0 .. n - 1
  BY AfterMod
<1>2. slots(after(a, n), b, n) = {i \in 0 .. n - 1 :
         IF after(a, n) <= b THEN after(a, n) <= i /\ i < b ELSE after(a, n) <= i \/ i < b}
  BY <1>1, SlotsInterval, Zenon
<1> QED
  BY <1>2, SlotsInterval DEF after

\* A ring is empty when its ends meet, and only then.
LEMMA SlotsEmpty ==
  ASSUME NEW n \in Nat \ {0}, NEW a \in 0 .. n - 1, NEW b \in 0 .. n - 1
  PROVE  /\ slots(a, b, n) = {} <=> a = b
         /\ slots(a, b, n) \subseteq 0 .. n - 1
         /\ b \notin slots(a, b, n)
         /\ a # b => a \in slots(a, b, n)
<1>1. slots(a, b, n) = {i \in 0 .. n - 1 : IF a <= b THEN a <= i /\ i < b
                                            ELSE a <= i \/ i < b}
  BY SlotsInterval, Zenon
<1>2. a # b => a \in slots(a, b, n)
  BY <1>1
<1>3. a = b => slots(a, b, n) = {}
  BY <1>1
<1>4. slots(a, b, n) \subseteq 0 .. n - 1 /\ b \notin slots(a, b, n)
  BY <1>1
<1> QED
  BY <1>2, <1>3, <1>4

\* A ring has room for one more as long as its contents are distinct members of
\* a set that is smaller than the ring by two: one slot always stays empty.
LEMMA Room ==
  ASSUME NEW n \in Nat \ {0}, NEW a \in 0 .. n - 1, NEW b \in 0 .. n - 1,
         NEW T, IsFiniteSet(T), Cardinality(T) < n - 1,
         NEW f, \A i \in slots(a, b, n) : f[i] \in T,
         \A i, j \in slots(a, b, n) : f[i] = f[j] => i = j
  PROVE  after(b, n) # a
<1> SUFFICES ASSUME after(b, n) = a PROVE FALSE
  OBVIOUS
<1> DEFINE S == slots(a, b, n)
<1>1. S = (0 .. n - 1) \ {b}
  BY SlotsInterval DEF after
<1>2. IsFiniteSet(0 .. n - 1) /\ Cardinality(0 .. n - 1) = n
  BY FS_Interval
<1>3. IsFiniteSet(S) /\ Cardinality(S) = n - 1
  <2> DEFINE R == 0 .. n - 1
  <2>1. IsFiniteSet(R) /\ Cardinality(R) = n /\ b \in R /\ S = R \ {b}
    BY <1>1, <1>2
  <2> HIDE DEF R, S
  <2> QED
    BY <2>1, FS_RemoveElement
<1>4. [i \in S |-> f[i]] \in Injection(S, T)
  BY DEF Injection, IsInjective
<1>5. Cardinality(S) <= Cardinality(T)
  BY <1>4, FS_Injection DEF ExistsInjection
<1>6. Cardinality(T) \in Nat
  BY FS_CardinalityType
<1> QED
  BY <1>3, <1>5, <1>6

(* ------ The registers. ------------------------------------------------- *)

\* the address registers: this binding's rings are new ones
AddrInv ==
  /\ hpc = "off" => bar.asq <= sessions /\ bar.acq <= sessions
  /\ hpc \in {"wait_off", "asq"} => bar.asq < sessions /\ bar.acq < sessions
  /\ hpc = "acq" => bar.asq = sessions /\ bar.acq < sessions
  /\ hpc \in {"cc", "wait_rdy", "up", "wait_shst"} => bar.asq = sessions /\ bar.acq = sessions
  /\ hpc \notin {"off", "wait_off"} => bar.aqa \in Depth

\* what of aqa, asq and acq has been seen, and what the admin queue is then
SeenInv ==
  /\ hpc \in {"off", "wait_off", "up", "wait_shst"} => noticed
  /\ hpc = "asq" => old_bar.asq = bar.asq
  /\ hpc \in {"asq", "acq"} => old_bar.acq = bar.acq
  /\ admin_q.sq = old_bar.asq /\ admin_q.cq = old_bar.acq
  /\ old_bar.aqa = bar.aqa => admin_q.sq_depth = bar.aqa /\ admin_q.cq_depth = bar.aqa
  /\ old_bar.aqa # 0 => admin_q.alloc
  /\ hpc \in {"acq", "cc", "wait_rdy"} /\ old_bar.asq = bar.asq => dbs[0] = 0 /\ old_dbs[0] = 0
  /\ hpc \in {"cc", "wait_rdy"} /\ old_bar.acq = bar.acq =>
       admin_q.cq_head = 0 /\ admin_q.phase = 1

\* what of cc has been seen; the pass that sees the enabling write has seen the rest
CcInv ==
  /\ hpc = "off" => \/ bar.cc = cc(0, 0) /\ old_bar.cc = cc(0, 0) /\ csts.rdy = 0
                    \/ bar.cc = cc(1, 1) /\ old_bar.cc.en = 1 /\ csts.rdy = 1
  /\ hpc = "wait_off" => bar.cc = cc(0, 0) /\ csts.rdy = old_bar.cc.en
                         /\ (csts.rdy = 0 => old_bar.cc = cc(0, 0))
  /\ hpc \in {"asq", "acq", "cc"} => bar.cc = cc(0, 0) /\ old_bar.cc = cc(0, 0) /\ csts.rdy = 0
  /\ hpc = "wait_rdy" => /\ bar.cc = cc(1, 0)
                         /\ \/ csts.rdy = 0 /\ old_bar.cc = cc(0, 0)
                            \/ csts.rdy = 1 /\ old_bar = bar
                         /\ dpc \in {"asq", "acq", "cc"} => old_bar.aqa = bar.aqa
                         /\ dpc \in {"acq", "cc"} => old_bar.asq = bar.asq
                         /\ dpc = "cc" => old_bar.acq = bar.acq
  /\ hpc = "up" => bar.cc = cc(1, 0) /\ old_bar = bar /\ csts.rdy = 1
  /\ hpc = "wait_shst" => /\ bar.cc = cc(1, 1) /\ csts.rdy = 1 /\ old_bar.cc.en = 1
                          /\ old_bar.cc = bar.cc => csts.shst = 2

\* outside a binding the dispatcher has no admin command left, and none in
\* hand once the controller is off
QuietInv ==
  /\ hpc # "up" => IF dpc = "admin" THEN todo.num = 0 /\ todo.new_db = dbs[0]
                   ELSE dbs[0] = old_dbs[0]
  /\ hpc = "wait_rdy" \/ csts.rdy = 0 => dpc # "admin"

RegInv == AddrInv /\ SeenInv /\ CcInv /\ QuietInv

(* ------ The driver outside a binding. ---------------------------------- *)

BindInv ==
  /\ hpc \notin {"up", "wait_shst"} =>
       /\ cmd = [c \in Cid |-> no_cmd]
       /\ sq_tail = 0 /\ cq_head_h = 0 /\ cq_phase_h = 1 /\ granted = 0
       /\ hq = [q \in Qid |-> "none"]
       /\ cq_ring = empty_cq
  /\ hpc = "wait_shst" => \A c \in Cid : cmd[c].state \in {"idle", "dropped"}
  /\ hpc # "up" => \A q \in Qid : io[q] = "idle"

(* ------ The admin rings. ----------------------------------------------- *)

position == IF dpc = "admin" THEN todo.curr ELSE old_dbs[0]

SqInv ==
  hpc = "up" =>
    /\ sq_tail = dbs[0] /\ sq_tail \in 0 .. bar.aqa - 1
    /\ position \in 0 .. bar.aqa - 1
    /\ dpc = "admin" => /\ todo.new_db \in unprocessed \union {sq_tail}
                        /\ todo.num = distance(todo.new_db, todo.curr, bar.aqa)
    /\ \A i \in unprocessed :
         /\ sq_ring[i] \in Cid
         /\ cmd[sq_ring[i]].state = "sent"
         /\ \A j \in unprocessed : sq_ring[i] = sq_ring[j] => i = j
    /\ \A c \in Cid : cmd[c].state = "sent" => \E i \in unprocessed : sq_ring[i] = c

\* the phase of a new entry in slot i
new_phase(i) == IF i >= cq_head_h THEN cq_phase_h ELSE 1 - cq_phase_h

CqInv ==
  hpc = "up" =>
    /\ cq_head_h \in 0 .. bar.aqa - 1 /\ admin_q.cq_head \in 0 .. bar.aqa - 1
    /\ \A i \in fresh_entries :
         /\ cq_ring[i].cid \in Cid
         /\ cmd[cq_ring[i].cid].state = "answered"
         /\ \A j \in fresh_entries : cq_ring[i].cid = cq_ring[j].cid => i = j
         /\ cmd[cq_ring[i].cid].op = "set_queues" =>
              cq_ring[i].result = nr_sq /\ nr_cq = nr_sq /\ nr_sq > 0
    /\ \A c \in Cid : cmd[c].state = "answered" => \E i \in fresh_entries : cq_ring[i].cid = c
    /\ \A i \in 0 .. bar.aqa - 1 :
         cq_ring[i].phase = IF i \in fresh_entries THEN new_phase(i) ELSE 1 - new_phase(i)
    /\ admin_q.phase = new_phase(admin_q.cq_head)
    /\ fresh_entries # {} => irq \/ dpc = "admin"

(* ------ The admin commands. -------------------------------------------- *)

\* the state of its queue a command of queue management finds
fits(op, q) ==
  \/ op = "create_cq" /\ hq[q] = "none"
  \/ op = "create_sq" /\ hq[q] = "cq"
  \/ op = "delete_sq" /\ hq[q] = "pair" /\ io[q] \in {"idle", "posted"}
  \/ op = "delete_cq" /\ hq[q] = "drain" /\ io[q] = "idle"

QueueCmd == QueueOp \ {"set_queues"}

CmdShape ==
  \A c \in Cid :
    /\ cmd[c].state = "idle" => cmd[c] = no_cmd
    /\ cmd[c].state # "idle" => cmd[c].op \in Op \union QueueOp
    /\ cmd[c].state = "dropped" => cmd[c].op = "abort"
    /\ cmd[c].op \in Op => cmd[c].q = 0
    /\ cmd[c].op = "set_queues" => granted = 0 /\ cmd[c].q > 0
    /\ cmd[c].op \in QueueCmd => cmd[c].q \in 1 .. granted /\ fits(cmd[c].op, cmd[c].q)

\* the number of queues is asked for once, and a queue has one command
CmdApart ==
  \A c, d \in Cid :
    /\ cmd[c].op = "set_queues" /\ cmd[d].op = "set_queues" => c = d
    /\ cmd[c].op \in QueueCmd /\ cmd[d].op \in QueueCmd /\ cmd[c].q = cmd[d].q => c = d

CmdInv ==
  /\ CmdShape
  /\ CmdApart
  /\ hpc = "up" => Cardinality(in_use) < bar.aqa
  /\ granted > 0 => nr_sq = granted /\ nr_cq = granted

(* ------ The I/O queues. ------------------------------------------------ *)

\* the device has carried out a command the driver does not know the end of
done(op, q) == \E c \in Cid : cmd[c].state = "answered" /\ cmd[c].op = op /\ cmd[c].q = q

in_flight(q) == IF io[q] \in {"dispatched", "copied", "posted"} THEN 1 ELSE 0

QueueOK(q) ==
  /\ hq[q] \in {"none", "cq"} => io[q] = "idle"
  /\ hq[q] = "drain" => io[q] \in {"idle", "posted"}
  /\ hq[q] # "none" => q <= granted
  /\ done("create_sq", q) => sqes[q]
  /\ hq[q] = "pair" /\ ~done("delete_sq", q) => sqes[q]
  /\ done("create_cq", q) => cqes[q]
  /\ hq[q] # "none" /\ ~done("delete_cq", q) => cqes[q]
  /\ {dbs[SqDb(q)], old_dbs[SqDb(q)], dbs[CqDb(q)], old_dbs[CqDb(q)]} \subseteq 0 .. IO_DEPTH - 1
  /\ io[q] = "rung" => sqes[q] /\ dbs[SqDb(q)] # old_dbs[SqDb(q)]
  /\ io[q] # "rung" /\ sqes[q] => dbs[SqDb(q)] = old_dbs[SqDb(q)]
  /\ hq[q] # "none" => dbs[CqDb(q)] = cq_pos[q]
  /\ done("create_cq", q) => dbs[CqDb(q)] = 0
  /\ done("create_cq", q) \/ hq[q] = "cq" => old_dbs[CqDb(q)] = dbs[CqDb(q)]
  /\ done("create_sq", q) => nr_in_flight[q] = 0

\* between two looks at the doorbell of a completion queue at most one command is
\* dispatched and one acknowledged
FlightOK(q) ==
  IO_DEPTH > 2 /\ hq[q] = "pair" /\ sqes[q] =>
    /\ nr_in_flight[q] = unseen_acks(q) + in_flight(q)
    /\ nr_in_flight[q] <= (IF dpc = "iocq" THEN 2 ELSE 1)

QueueInv == \A q \in Qid : QueueOK(q) /\ FlightOK(q)

IInv == TypeOK /\ RegInv /\ BindInv /\ SqInv /\ CqInv /\ CmdInv /\ QueueInv

-----------------------------------------------------------------------------
(* Indices and sizes.                                                      *)

\* The doorbell registers of the queues are different registers.
LEMMA Doorbells ==
  /\ 0 \in Db
  /\ \A q \in Qid : /\ SqDb(q) \in Db /\ CqDb(q) \in Db
                    /\ SqDb(q) # 0 /\ CqDb(q) # 0
  /\ \A q, r \in Qid : /\ SqDb(q) # CqDb(r)
                       /\ SqDb(q) = SqDb(r) => q = r
                       /\ CqDb(q) = CqDb(r) => q = r
<1>1. \A q \in Qid : q \in Nat /\ q > 0
  BY ControllerAssumption DEF Qid
<1>2. \A q, r \in Qid : SqDb(q) # CqDb(r)
  BY <1>1 DEF SqDb, CqDb
<1>3. \A q, r \in Qid : /\ SqDb(q) = SqDb(r) => q = r
                        /\ CqDb(q) = CqDb(r) => q = r
  BY <1>1 DEF SqDb, CqDb
<1>4. \A q \in Qid : SqDb(q) # 0 /\ CqDb(q) # 0
  BY <1>1 DEF SqDb, CqDb
<1>5. \A q \in Qid : SqDb(q) \in Db /\ CqDb(q) \in Db
  BY DEF Db
<1> QED
  BY <1>2, <1>3, <1>4, <1>5 DEF Db

\* The slots of a ring of any of the driver's sizes.
LEMMA Slots ==
  /\ \A d \in Depth : d \in Nat \ {0} /\ d > 1 /\ 0 .. d - 1 \subseteq Slot
  /\ 0 \in Slot
  /\ Slot \subseteq Nat
  /\ 0 \notin Depth
<1>1. \A d \in Depth : d \in Nat \ {0} /\ d > 1 /\ 0 .. d - 1 \subseteq Slot
  BY ControllerAssumption DEF Slot
<1>2. Slot \subseteq Nat
  BY ControllerAssumption DEF Slot
<1>3. PICK d \in Depth : TRUE
  BY ControllerAssumption
<1>4. 0 \in 0 .. d - 1
  BY <1>1
<1> QED
  BY <1>1, <1>2, <1>3, <1>4

\* The slots have no gaps.
LEMMA SlotsDown ==
  ASSUME NEW i \in Slot, i > 0
  PROVE  i - 1 \in Slot
<1>1. PICK d \in Depth : i \in 0 .. d - 1
  BY DEF Slot
<1>2. i - 1 \in 0 .. d - 1
  BY <1>1, Slots
<1> QED
  BY <1>2, Slots

\* The lowest free command identifier is one that is free.
LEMMA NextCid ==
  ASSUME in_use # Cid
  PROVE  next_cid \in Cid /\ next_cid \notin in_use
<1> DEFINE F == Cid \ in_use
<1>1. F \subseteq Nat /\ F # {} /\ Cid = 1 .. NR_CID /\ NR_CID \in Nat
  BY ControllerAssumption DEF Cid, in_use
<1>2. PICK c \in F : \A d \in F : ~ (<<d, c>> \in OpToRel(<, Nat))
  BY <1>1, WFMin, NatLessThanWellFounded
<1>3. ASSUME NEW d \in 1 .. c - 1
      PROVE  d \in in_use
  <2>1. d \in Nat /\ c \in Nat /\ d < c /\ d \in Cid
    BY <1>1
  <2>2. <<d, c>> \in OpToRel(<, Nat)
    BY <2>1 DEF OpToRel
  <2> QED
    BY <1>2, <2>1, <2>2
<1>4. c \in Cid /\ c \notin in_use
  OBVIOUS
<1> QED
  BY <1>3, <1>4 DEF next_cid

\* The completion entry the driver looks at is new exactly when one is.
LEMMA FreshIsNew ==
  ASSUME TypeOK, CqInv, hpc = "up", bar.aqa \in Depth
  PROVE  /\ entry_is_new <=> cq_head_h # admin_q.cq_head
         /\ entry_is_new <=> fresh_entries # {}
         /\ entry_is_new <=> cq_head_h \in fresh_entries
         /\ fresh_entries \subseteq 0 .. bar.aqa - 1
<1>1. PICK n \in Nat \ {0} : n = bar.aqa
  BY Slots
<1>2. PICK h \in 0 .. n - 1 : h = cq_head_h
  BY <1>1 DEF CqInv
<1>3. PICK e \in 0 .. n - 1 : e = admin_q.cq_head
  BY <1>1 DEF CqInv
<1>4. fresh_entries = slots(h, e, n)
  BY <1>1, <1>2, <1>3 DEF fresh_entries
<1>5. /\ fresh_entries = {} <=> h = e
      /\ h # e => h \in fresh_entries
      /\ fresh_entries \subseteq 0 .. n - 1
  BY <1>4, SlotsEmpty
<1>6. new_phase(h) = cq_phase_h /\ cq_phase_h \in Bit
  BY <1>2 DEF new_phase, TypeOK
<1>7. cq_ring[h].phase = IF h \in fresh_entries THEN cq_phase_h ELSE 1 - cq_phase_h
  BY <1>1, <1>6 DEF CqInv
<1>8. 1 - cq_phase_h # cq_phase_h
  BY <1>6 DEF Bit
<1> QED
  BY <1>1, <1>2, <1>3, <1>5, <1>7, <1>8 DEF entry_is_new

\* The occupied slots of the admin submission ring.
LEMMA UnprocessedSlots ==
  ASSUME IInv, hpc = "up"
  PROVE  /\ unprocessed = slots(position, dbs[0], bar.aqa)
         /\ bar.aqa \in Depth /\ bar.aqa \in Nat \ {0}
         /\ position \in 0 .. bar.aqa - 1 /\ dbs[0] \in 0 .. bar.aqa - 1
         /\ unprocessed \subseteq 0 .. bar.aqa - 1
         /\ unprocessed = {} <=> position = dbs[0]
<1>1. PICK n \in Nat \ {0} : n = bar.aqa /\ bar.aqa \in Depth
  BY Slots DEF IInv, RegInv, AddrInv
<1>2. PICK p \in 0 .. n - 1 : p = position
  BY <1>1 DEF IInv, SqInv
<1>3. PICK b \in 0 .. n - 1 : b = dbs[0]
  BY <1>1 DEF IInv, SqInv
<1>4. PICK U : U = unprocessed
  OBVIOUS
<1>5. U = slots(p, b, n)
  BY <1>1, <1>2, <1>3, <1>4 DEF unprocessed, position
<1>6. U \subseteq 0 .. n - 1 /\ (U = {} <=> p = b)
  BY <1>5, SlotsEmpty
<1> QED
  BY <1>1, <1>2, <1>3, <1>4, <1>5, <1>6

\* When no command waits, the dispatcher has come to the doorbell.
LEMMA NothingSent ==
  ASSUME IInv, hpc = "up", \A c \in Cid : cmd[c].state \in {"idle", "dropped"}
  PROVE  IF dpc = "admin" THEN todo.num = 0 /\ todo.new_db = dbs[0] ELSE dbs[0] = old_dbs[0]
<1>1. unprocessed = {}
  BY DEF IInv, SqInv
<1>2. position = dbs[0]
  BY <1>1, UnprocessedSlots
<1>3. dpc = "admin" => todo.new_db = dbs[0] /\ todo.num = distance(dbs[0], dbs[0], bar.aqa)
  BY <1>1, <1>2 DEF IInv, SqInv, position
<1>4. distance(dbs[0], dbs[0], bar.aqa) = 0
  BY UnprocessedSlots DEF distance
<1> QED
  BY <1>2, <1>3, <1>4 DEF position

-----------------------------------------------------------------------------
(* The type invariant.                                                     *)

\* The registers start at zero.
LEMMA InitType == Init => TypeOK
<1> SUFFICES ASSUME Init PROVE TypeOK
  OBVIOUS
<1> USE ControllerAssumption, Slots
<1>1. no_bar \in Regs
  BY DEF no_bar, Regs, cc, Bit, NoAddr
<1>2. no_cmd \in Cmd
  BY DEF no_cmd, Cmd
<1>3. empty_cq \in [Slot -> Cqe] /\ empty_sq \in [Slot -> Cid \union {NoCid}]
  <2>1. no_cqe \in Cqe
    BY DEF no_cqe, Cqe, Bit
  <2> QED
    BY <2>1 DEF empty_cq, empty_sq
<1>4. admin_q \in AdminQ /\ admin_q.cq_head = 0
  BY DEF Init, AdminQ, Bit
<1>5. 0 \in Bit /\ 1 \in Bit /\ 0 \in 0 .. NR_MAX_IO_QUEUE /\ 0 \in 0 .. IO_DEPTH - 1
      /\ 0 \in 0 .. MAX_SESSIONS
  BY DEF Bit
<1>6. todo \in [curr : Slot, num : Slot, new_db : Slot] /\ csts \in [rdy : Bit, shst : {0, 2}]
  BY <1>5 DEF Init
<1>7. /\ cmd \in [Cid -> Cmd]
      /\ hq \in [Qid -> {"none", "cq", "pair", "drain"}]
      /\ io \in [Qid -> {"idle", "rung", "dispatched", "copied", "posted"}]
      /\ cq_pos \in [Qid -> 0 .. IO_DEPTH - 1]
  BY <1>2, <1>5 DEF Init
<1>8. /\ dbs \in [Db -> Nat] /\ old_dbs \in [Db -> Nat]
      /\ sqes \in [Qid -> BOOLEAN] /\ cqes \in [Qid -> BOOLEAN]
      /\ nr_in_flight \in [Qid -> Int]
  BY DEF Init
<1> QED
  BY <1>1, <1>3, <1>4, <1>5, <1>6, <1>7, <1>8 DEF Init, TypeOK

\* The steps of the driver that write registers keep the types.
LEMMA TypeBind ==
  ASSUME IInv, Bind \/ WriteShutdown
  PROVE  TypeOK'
<1> USE DEF IInv, unchanged_but_bar, device, tables, rings, host_rings, host_io
<1>1. \A b \in Regs, x \in {cc(0, 0), cc(1, 0), cc(1, 1)} : [b EXCEPT !.cc = x] \in Regs
  BY DEF Regs, cc, Bit
<1>2. CASE WriteDisable
  <2>1. bar' \in Regs
    BY <1>1, <1>2 DEF WriteDisable, TypeOK
  <2>2. sessions' \in 0 .. MAX_SESSIONS
    BY <1>2, ControllerAssumption DEF WriteDisable, TypeOK
  <2> QED
    BY <1>2, <2>1, <2>2 DEF WriteDisable, TypeOK
<1>3. ASSUME NEW d \in Depth, WriteAqa(d) PROVE TypeOK'
  <2>1. bar' \in Regs
    BY <1>3 DEF WriteAqa, TypeOK, Regs
  <2> QED
    BY <1>3, <2>1 DEF WriteAqa, TypeOK
<1>4. CASE WriteAsq
  <2>1. bar' \in Regs
    BY <1>4, ControllerAssumption DEF WriteAsq, TypeOK, Regs, Addr, NoAddr
  <2> QED
    BY <1>4, <2>1 DEF WriteAsq, TypeOK
<1>5. CASE WriteAcq
  <2>1. bar' \in Regs
    BY <1>5 DEF WriteAcq, TypeOK, Regs
  <2> QED
    BY <1>5, <2>1 DEF WriteAcq, TypeOK
<1>6. CASE WriteEnable
  <2>1. bar' \in Regs
    BY <1>1, <1>6 DEF WriteEnable, TypeOK
  <2> QED
    BY <1>6, <2>1 DEF WriteEnable, TypeOK
<1>7. CASE SeeReady
  BY <1>7 DEF SeeReady, TypeOK, shared
<1>8. CASE WriteShutdown
  <2>1. bar' \in Regs
    BY <1>1, <1>8 DEF WriteShutdown, TypeOK
  <2> QED
    BY <1>8, <2>1 DEF WriteShutdown, TypeOK
<1> QED
  BY <1>2, <1>3, <1>4, <1>5, <1>6, <1>7, <1>8 DEF Bind

\* The other steps of the driver, and the workers, keep the types.
LEMMA TypeDriver ==
  ASSUME IInv
  PROVE  /\ SeeShutdown => TypeOK'
         /\ \A op \in Op \union QueueOp, q \in 0 .. NR_MAX_IO_QUEUE + 1 : Send(op, q) => TypeOK'
         /\ Handler => TypeOK'
         /\ \A q \in Qid : SubmitIo(q) \/ TakeIo(q) => TypeOK'
         /\ Worker => TypeOK'
<1> USE DEF IInv
<1>1. ASSUME SeeShutdown PROVE TypeOK'
  <2>1. empty_cq \in [Slot -> Cqe] /\ empty_sq \in [Slot -> Cid \union {NoCid}]
    BY ControllerAssumption DEF empty_cq, empty_sq, no_cqe, Cqe, Bit
  <2>2. no_cmd \in Cmd
    BY ControllerAssumption DEF no_cmd, Cmd
  <2>3. 1 \in Bit /\ 0 \in 0 .. NR_MAX_IO_QUEUE /\ 0 \in 0 .. IO_DEPTH - 1
    BY ControllerAssumption DEF Bit
  <2> QED
    BY <1>1, <2>1, <2>2, <2>3, Slots DEF SeeShutdown, TypeOK, device, tables
<1>2. ASSUME NEW op \in Op \union QueueOp, NEW q \in 0 .. NR_MAX_IO_QUEUE + 1, Send(op, q)
      PROVE  TypeOK'
  <2>1. hpc = "up" /\ sq_tail \in 0 .. bar.aqa - 1 /\ bar.aqa \in Depth
    BY <1>2 DEF Send, SqInv, RegInv, AddrInv
  <2>2. (sq_tail + 1) % bar.aqa \in 0 .. bar.aqa - 1
    BY <2>1, Slots
  <2>3. sq_tail' \in Slot /\ sq_tail' \in Nat
    BY <1>2, <2>1, <2>2, Slots DEF Send
  <2>4. dbs' \in [Db -> Nat]
    BY <1>2, <2>3, Doorbells DEF Send, TypeOK
  <2>5. next_cid \in Cid
    BY <1>2, NextCid DEF Send
  <2>6. cmd' \in [Cid -> Cmd]
    BY <1>2, <2>5 DEF Send, TypeOK, Cmd
  <2>7. sq_ring' \in [Slot -> Cid \union {NoCid}]
    BY <1>2, <2>5 DEF Send, TypeOK
  <2> QED
    BY <1>2, <2>3, <2>4, <2>6, <2>7 DEF Send, TypeOK, device, tables, host_io
<1>3. ASSUME Take PROVE TypeOK'
  <2> DEFINE e == cq_ring[cq_head_h]
  <2>1. hpc = "up" /\ cq_head_h \in 0 .. bar.aqa - 1 /\ bar.aqa \in Depth
    BY <1>3 DEF Take, CqInv, RegInv, AddrInv
  <2>2. (cq_head_h + 1) % bar.aqa \in 0 .. bar.aqa - 1
    BY <2>1, Slots
  <2>3. cq_head_h' \in Slot /\ cq_phase_h' \in Bit
    BY <1>3, <2>1, <2>2, Slots DEF Take, TypeOK, Bit
  <2>4. no_cmd \in Cmd
    BY ControllerAssumption DEF no_cmd, Cmd
  <2>5. cmd' \in [Cid -> Cmd]
    BY <1>3, <2>4 DEF Take, TypeOK
  <2>6. e \in Cqe
    BY DEF TypeOK
  <2>7. granted' \in 0 .. NR_MAX_IO_QUEUE
    BY <1>3, <2>6 DEF Take, TypeOK, Cqe
  <2>8. cq_pos' \in [Qid -> 0 .. IO_DEPTH - 1]
    BY <1>3, ControllerAssumption DEF Take, TypeOK
  <2>9. hq' \in [Qid -> {"none", "cq", "pair", "drain"}]
    <3>1. e.cid \in Cid /\ cmd[e.cid].state = "answered"
      BY <1>3, <2>1, FreshIsNew DEF Take, CqInv
    <3>2. \A q \in Qid : cmd[e.cid].q = q /\ cmd[e.cid].op # "set_queues" =>
            cmd[e.cid].op \in {"create_cq", "create_sq", "delete_sq", "delete_cq"}
      BY <3>1, ControllerAssumption DEF CmdInv, CmdShape, QueueOp, Qid
    <3> QED
      BY <1>3, <3>2 DEF Take, hq_after, TypeOK
  <2> QED
    BY <1>3, <2>3, <2>5, <2>7, <2>8, <2>9 DEF Take, TypeOK, device, tables, shared, rings
<1>4. ASSUME HandlerReturns PROVE TypeOK'
  BY <1>4 DEF HandlerReturns, TypeOK, host, host_rings, host_io, device, tables, rings
<1>5. ASSUME NEW q \in Qid, SubmitIo(q) PROVE TypeOK'
  <2>1. dbs[SqDb(q)] \in Nat
    BY Doorbells DEF TypeOK
  <2>2. (dbs[SqDb(q)] + 1) % IO_DEPTH \in Nat
    BY <2>1, ControllerAssumption
  <2>3. dbs' \in [Db -> Nat]
    BY <1>5, <2>2, Doorbells DEF SubmitIo, TypeOK
  <2> QED
    BY <1>5, <2>3 DEF SubmitIo, TypeOK, host_rings, device, tables, rings
<1>6. ASSUME NEW q \in Qid, TakeIo(q) PROVE TypeOK'
  <2>1. cq_pos[q] \in 0 .. IO_DEPTH - 1
    BY DEF TypeOK
  <2>2. (cq_pos[q] + 1) % IO_DEPTH \in 0 .. IO_DEPTH - 1
    BY <2>1, ControllerAssumption
  <2>3. cq_pos' \in [Qid -> 0 .. IO_DEPTH - 1] /\ cq_pos'[q] \in Nat
    BY <1>6, <2>2, ControllerAssumption DEF TakeIo, TypeOK
  <2>4. dbs' \in [Db -> Nat]
    BY <1>6, <2>3, Doorbells DEF TakeIo, TypeOK
  <2> QED
    BY <1>6, <2>3, <2>4 DEF TakeIo, TypeOK, host_rings, device, tables, rings
<1>7. ASSUME NEW q \in Qid, WorkerCopy(q) \/ WorkerPost(q) PROVE TypeOK'
  BY <1>7 DEF WorkerCopy, WorkerPost, TypeOK, host_rings, shared, device, tables, rings
<1> QED
  BY <1>1, <1>2, <1>3, <1>4, <1>5, <1>6, <1>7 DEF Handler, Worker

\* What an answer does: the entry goes to a slot of the ring.
LEMMA AnswerFacts ==
  ASSUME IInv, hpc = "up", NEW c \in Cid, NEW res \in 0 .. NR_MAX_IO_QUEUE,
         make_cq_entry_results(c, res)
  PROVE  /\ cq_ring' \in [Slot -> Cqe]
         /\ admin_q' \in AdminQ
         /\ admin_q'.cq_head = after(admin_q.cq_head, bar.aqa)
         /\ admin_q'.cq_head < admin_q'.cq_depth
         /\ admin_q'.phase = IF admin_q.cq_head + 1 = bar.aqa THEN 1 - admin_q.phase
                             ELSE admin_q.phase
         /\ admin_q'.sq = admin_q.sq /\ admin_q'.cq = admin_q.cq
         /\ admin_q'.sq_depth = admin_q.sq_depth /\ admin_q'.cq_depth = admin_q.cq_depth
         /\ admin_q'.alloc = admin_q.alloc
         /\ cmd' \in [Cid -> Cmd]
         /\ \A d \in Cid : /\ cmd'[d].op = cmd[d].op /\ cmd'[d].q = cmd[d].q
                           /\ cmd'[d].state = IF d = c THEN "answered" ELSE cmd[d].state
<1>1. /\ bar.aqa \in Depth /\ admin_q.cq_depth = bar.aqa
      /\ admin_q.cq_head \in 0 .. bar.aqa - 1
  BY DEF IInv, RegInv, AddrInv, SeenInv, noticed, CqInv
<1>2. admin_q \in AdminQ /\ admin_q.phase \in Bit
  BY DEF IInv, TypeOK, AdminQ
<1>3. after(admin_q.cq_head, bar.aqa) \in 0 .. bar.aqa - 1
  BY <1>1, Slots, AfterMod
<1>4. after(admin_q.cq_head, bar.aqa) \in Slot /\ 1 - admin_q.phase \in Bit
  BY <1>1, <1>2, <1>3, Slots DEF Bit
<1>5. admin_q' = IF admin_q.cq_head + 1 = bar.aqa
                 THEN [admin_q EXCEPT !.cq_head = 0, !.phase = 1 - @]
                 ELSE [admin_q EXCEPT !.cq_head = @ + 1]
  BY <1>1 DEF make_cq_entry_results, next_pos
<1>6. /\ admin_q' \in AdminQ
      /\ admin_q'.cq_head = after(admin_q.cq_head, bar.aqa)
      /\ admin_q'.cq_head < admin_q'.cq_depth
      /\ admin_q'.phase = IF admin_q.cq_head + 1 = bar.aqa THEN 1 - admin_q.phase
                          ELSE admin_q.phase
      /\ admin_q'.sq = admin_q.sq /\ admin_q'.cq = admin_q.cq
      /\ admin_q'.sq_depth = admin_q.sq_depth /\ admin_q'.cq_depth = admin_q.cq_depth
      /\ admin_q'.alloc = admin_q.alloc
  <2>1. CASE admin_q.cq_head + 1 = bar.aqa
    <3>1. admin_q' = [admin_q EXCEPT !.cq_head = 0, !.phase = 1 - @]
      BY <1>5, <2>1
    <3>2. after(admin_q.cq_head, bar.aqa) = 0
      BY <2>1 DEF after
    <3>3. /\ admin_q' \in AdminQ /\ admin_q'.cq_head = 0 /\ admin_q'.phase = 1 - admin_q.phase
          /\ admin_q'.sq = admin_q.sq /\ admin_q'.cq = admin_q.cq
          /\ admin_q'.sq_depth = admin_q.sq_depth /\ admin_q'.cq_depth = admin_q.cq_depth
          /\ admin_q'.alloc = admin_q.alloc
      BY <1>2, <1>4, <3>1, <3>2 DEF AdminQ
    <3> QED
      BY <1>1, <2>1, <3>2, <3>3, Slots
  <2>2. CASE admin_q.cq_head + 1 # bar.aqa
    <3>1. admin_q' = [admin_q EXCEPT !.cq_head = @ + 1]
      BY <1>5, <2>2
    <3>2. after(admin_q.cq_head, bar.aqa) = admin_q.cq_head + 1
      BY <2>2 DEF after
    <3>3. /\ admin_q' \in AdminQ /\ admin_q'.cq_head = admin_q.cq_head + 1
          /\ admin_q'.phase = admin_q.phase
          /\ admin_q'.sq = admin_q.sq /\ admin_q'.cq = admin_q.cq
          /\ admin_q'.sq_depth = admin_q.sq_depth /\ admin_q'.cq_depth = admin_q.cq_depth
          /\ admin_q'.alloc = admin_q.alloc
      BY <1>2, <1>4, <3>1, <3>2 DEF AdminQ
    <3> QED
      BY <1>1, <2>2, <3>2, <3>3, Slots
  <2> QED
    BY <2>1, <2>2
<1>7. cq_ring' \in [Slot -> Cqe]
  <2>1. [cid |-> c, phase |-> admin_q.phase, result |-> res] \in Cqe
    BY <1>2 DEF Cqe
  <2> QED
    BY <2>1 DEF make_cq_entry_results, IInv, TypeOK
<1>8. cmd' \in [Cid -> Cmd]
  <2>1. [cmd[c] EXCEPT !.state = "answered"] \in Cmd
    BY DEF IInv, TypeOK, Cmd
  <2> QED
    BY <2>1 DEF make_cq_entry_results, IInv, TypeOK
<1>9. \A d \in Cid : /\ cmd'[d].op = cmd[d].op /\ cmd'[d].q = cmd[d].q
                     /\ cmd'[d].state = IF d = c THEN "answered" ELSE cmd[d].state
  BY DEF make_cq_entry_results, IInv, TypeOK, Cmd
<1> QED
  BY <1>6, <1>7, <1>8, <1>9

\* The opcode decides about the answer and, in some cases, a queue.
QueueEffect(c) ==
  \/ /\ CreateCq(c) /\ make_cq_entry_results(c, 0)
  \/ /\ DeleteCq(c) /\ make_cq_entry_results(c, 0)
  \/ /\ CreateSq(c) /\ make_cq_entry_results(c, 0)
  \/ /\ DeleteSq(c) /\ make_cq_entry_results(c, 0)

Granted(c) == IF cmd[c].q < NR_MAX_IO_QUEUE THEN cmd[c].q ELSE NR_MAX_IO_QUEUE

\* A command that is carried out is one that waits, at the dispatcher's position;
\* it changes its own state, the completion ring, and the tables of its opcode.
LEMMA AdminReqFacts ==
  ASSUME IInv, AdminReq
  PROVE  \E c \in Cid :
    /\ hpc = "up" /\ c = sq_ring[todo.curr] /\ dpc = "admin" /\ todo.num > 0
    /\ \/ QueueEffect(c)
       \/ SetQueues(c) /\ make_cq_entry_results(c, Granted(c))
       \/ Query(c) /\ \E res \in 0 .. NR_MAX_IO_QUEUE : make_cq_entry_results(c, res)
       \/ Abort(c)
    /\ UNCHANGED <<host_rest, irq, old_bar, dpc>>
    /\ todo' = [todo EXCEPT !.num = @ - 1, !.curr = (@ + 1) % admin_q.sq_depth]
<1>1. PICK c \in Cid : c = sq_ring[todo.curr]
  BY DEF AdminReq
<1>2. hpc = "up"
  BY DEF AdminReq, IInv, RegInv, QuietInv
<1>3. CASE Query(c)
  <2>1. get_features_result(cmd[c].op) \in 0 .. NR_MAX_IO_QUEUE
    BY ControllerAssumption DEF get_features_result, IInv, TypeOK
  <2> QED
    BY <1>1, <1>2, <1>3, <2>1 DEF AdminReq, Query
<1>4. CASE SetQueues(c)
  BY <1>1, <1>2, <1>4 DEF AdminReq, SetQueues, Granted
<1>5. CASE CreateCq(c) \/ DeleteCq(c) \/ CreateSq(c) \/ DeleteSq(c)
  <2>1. QueueEffect(c)
    BY <1>5 DEF QueueEffect, CreateCq, DeleteCq, CreateSq, DeleteSq, make_cq_entry
  <2> QED
    BY <1>1, <1>2, <2>1 DEF AdminReq
<1>6. CASE Abort(c)
  BY <1>1, <1>2, <1>6 DEF AdminReq
<1> QED
  BY <1>1, <1>3, <1>4, <1>5, <1>6 DEF AdminReq

\* What carrying out a command does to the commands, to the position of the
\* dispatcher and to the admin doorbell.
LEMMA AdminReqEffect ==
  ASSUME IInv, AdminReq, NEW c \in Cid, c = sq_ring[todo.curr]
  PROVE  /\ hpc = "up" /\ dpc = "admin" /\ dpc' = "admin" /\ todo.num > 0
         /\ UNCHANGED <<host_rest, irq, old_bar>>
         /\ todo'.new_db = todo.new_db /\ todo'.num = todo.num - 1
         /\ todo'.curr = after(todo.curr, bar.aqa)
         /\ todo.curr \in 0 .. bar.aqa - 1 /\ bar.aqa \in Depth
         /\ dbs'[0] = dbs[0] /\ old_dbs'[0] = old_dbs[0]
         /\ cmd' \in [Cid -> Cmd]
         /\ \A d \in Cid : /\ cmd'[d].op = cmd[d].op /\ cmd'[d].q = cmd[d].q
                           /\ d # c => cmd'[d].state = cmd[d].state
         /\ \/ cmd'[c].state = "answered"
               /\ \E res \in 0 .. NR_MAX_IO_QUEUE : make_cq_entry_results(c, res)
            \/ cmd'[c].state = "dropped" /\ cmd[c].op = "abort" /\ UNCHANGED <<admin_q, cq_ring>>
<1>1. /\ hpc = "up" /\ dpc = "admin" /\ todo.num > 0
      /\ \/ QueueEffect(c)
         \/ SetQueues(c) /\ make_cq_entry_results(c, Granted(c))
         \/ Query(c) /\ \E res \in 0 .. NR_MAX_IO_QUEUE : make_cq_entry_results(c, res)
         \/ Abort(c)
      /\ UNCHANGED <<host_rest, irq, old_bar, dpc>>
      /\ todo' = [todo EXCEPT !.num = @ - 1, !.curr = (@ + 1) % admin_q.sq_depth]
  BY AdminReqFacts
<1>2. /\ todo.curr \in 0 .. bar.aqa - 1 /\ bar.aqa \in Depth /\ admin_q.sq_depth = bar.aqa
  BY <1>1 DEF IInv, SqInv, position, RegInv, AddrInv, SeenInv, noticed
<1>3. /\ todo'.new_db = todo.new_db /\ todo'.num = todo.num - 1
      /\ todo'.curr = after(todo.curr, bar.aqa)
  <2>1. (todo.curr + 1) % bar.aqa = after(todo.curr, bar.aqa)
    BY <1>2, Slots, AfterMod
  <2> QED
    BY <1>1, <1>2, <2>1 DEF IInv, TypeOK
<1>4. dbs'[0] = dbs[0] /\ old_dbs'[0] = old_dbs[0]
  <2>1. CASE QueueEffect(c)
    <3>1. cmd[c].op \in QueueCmd
      BY <2>1 DEF QueueEffect, CreateCq, DeleteCq, CreateSq, DeleteSq, QueueCmd, QueueOp
    <3>2. cmd[c].q \in Qid
      BY <3>1, ControllerAssumption DEF IInv, TypeOK, CmdInv, CmdShape, Qid
    <3> QED
      BY <2>1, <3>2, Doorbells
         DEF IInv, TypeOK, QueueEffect, CreateCq, DeleteCq, CreateSq, DeleteSq,
             cleared_at_create_sq
  <2> QED
    BY <1>1, <2>1 DEF SetQueues, Query, Abort
<1>5. Granted(c) \in 0 .. NR_MAX_IO_QUEUE
  BY ControllerAssumption DEF Granted, IInv, TypeOK, Cmd
<1>6. CASE \E res \in 0 .. NR_MAX_IO_QUEUE : make_cq_entry_results(c, res)
  BY <1>1, <1>2, <1>3, <1>4, <1>6, AnswerFacts
<1>7. CASE Abort(c)
  <2>1. [cmd[c] EXCEPT !.state = "dropped"] \in Cmd
    BY DEF IInv, TypeOK, Cmd
  <2>2. cmd' \in [Cid -> Cmd]
    BY <1>7, <2>1 DEF Abort, IInv, TypeOK
  <2>3. /\ cmd'[c].state = "dropped"
        /\ \A d \in Cid : /\ cmd'[d].op = cmd[d].op /\ cmd'[d].q = cmd[d].q
                          /\ d # c => cmd'[d].state = cmd[d].state
    BY <1>7 DEF Abort, IInv, TypeOK, Cmd
  <2> QED
    BY <1>1, <1>2, <1>3, <1>4, <1>7, <2>2, <2>3 DEF Abort
<1>8. 0 \in 0 .. NR_MAX_IO_QUEUE
  BY ControllerAssumption
<1> QED
  BY <1>1, <1>5, <1>6, <1>7, <1>8 DEF QueueEffect

\* What nvmev_proc_bars makes of the admin queue: a new aqa starts both rings over.
LEMMA AqaSeen ==
  ASSUME TypeOK, CheckAqa, old_bar.aqa # bar.aqa
  PROVE  /\ admin_q' \in AdminQ /\ admin_q'.alloc
         /\ admin_q'.sq = admin_q.sq /\ admin_q'.cq = admin_q.cq
         /\ admin_q'.sq_depth = bar.aqa /\ admin_q'.cq_depth = bar.aqa
         /\ admin_q'.cq_head = 0 /\ admin_q'.phase = 1
<1>1. PICK aq \in AdminQ : aq = admin_q
  BY DEF TypeOK
<1>2. PICK d \in Depth \union {0} : d = bar.aqa
  BY DEF TypeOK, Regs
<1>3. PICK a \in Addr \union {NoAddr} : a = bar.asq
  BY DEF TypeOK, Regs
<1>4. admin_q' = [restart(aq) EXCEPT !.alloc = TRUE, !.sq_depth = d, !.cq_depth = d]
  BY <1>1, <1>2, <1>3 DEF CheckAqa
<1>5. 0 \in Slot /\ 1 \in Bit
  BY Slots DEF Bit
<1> QED
  BY <1>1, <1>2, <1>3, <1>4, <1>5 DEF restart, AdminQ

\* A new asq replaces the submission ring.
LEMMA AsqSeen ==
  ASSUME TypeOK, CheckAsq, old_bar.asq # bar.asq, admin_q.alloc
  PROVE  /\ admin_q' \in AdminQ /\ admin_q'.alloc
         /\ admin_q'.sq = bar.asq /\ admin_q'.cq = admin_q.cq
         /\ admin_q'.sq_depth = bar.aqa /\ admin_q'.cq_depth = admin_q.cq_depth
         /\ admin_q'.cq_head = admin_q.cq_head /\ admin_q'.phase = admin_q.phase
<1>1. PICK aq \in AdminQ : aq = admin_q
  BY DEF TypeOK
<1>2. PICK d \in Depth \union {0} : d = bar.aqa
  BY DEF TypeOK, Regs
<1>3. PICK a \in Addr \union {NoAddr} : a = bar.asq
  BY DEF TypeOK, Regs
<1>4. admin_q' = [aq EXCEPT !.sq = a, !.sq_depth = d]
  BY <1>1, <1>2, <1>3 DEF CheckAsq
<1>5. 0 \in Slot /\ 1 \in Bit
  BY Slots DEF Bit
<1> QED
  BY <1>1, <1>2, <1>3, <1>4, <1>5 DEF restart, AdminQ

\* A new acq replaces the completion ring, which starts over.
LEMMA AcqSeen ==
  ASSUME TypeOK, CheckAcq, old_bar.acq # bar.acq, admin_q.alloc
  PROVE  /\ admin_q' \in AdminQ /\ admin_q'.alloc
         /\ admin_q'.sq = admin_q.sq /\ admin_q'.cq = bar.acq
         /\ admin_q'.sq_depth = admin_q.sq_depth /\ admin_q'.cq_depth = bar.aqa
         /\ admin_q'.cq_head = 0 /\ admin_q'.phase = 1
<1>1. PICK aq \in AdminQ : aq = admin_q
  BY DEF TypeOK
<1>2. PICK d \in Depth \union {0} : d = bar.aqa
  BY DEF TypeOK, Regs
<1>3. PICK a \in Addr \union {NoAddr} : a = bar.acq
  BY DEF TypeOK, Regs
<1>4. admin_q' = [restart(aq) EXCEPT !.cq = a, !.cq_depth = d]
  BY <1>1, <1>2, <1>3 DEF CheckAcq
<1>5. 0 \in Slot /\ 1 \in Bit
  BY Slots DEF Bit
<1> QED
  BY <1>1, <1>2, <1>3, <1>4, <1>5 DEF restart, AdminQ

\* A shutdown takes the completion ring back to its first slot.
LEMMA CcSeen ==
  ASSUME TypeOK, CheckCc
  PROVE  /\ admin_q' \in AdminQ /\ admin_q'.alloc = admin_q.alloc
         /\ admin_q'.sq = admin_q.sq /\ admin_q'.cq = admin_q.cq
         /\ admin_q'.sq_depth = admin_q.sq_depth /\ admin_q'.cq_depth = admin_q.cq_depth
         /\ \/ admin_q' = admin_q
            \/ admin_q'.cq_head = 0 /\ old_bar.cc # bar.cc /\ bar.cc.shn = 1
<1>1. PICK aq \in AdminQ : aq = admin_q
  BY DEF TypeOK
<1>2. CASE admin_q' = aq
  BY <1>1, <1>2
<1>3. CASE old_bar.cc # bar.cc /\ bar.cc.shn = 1
  <2>1. admin_q' = [aq EXCEPT !.cq_head = 0]
    BY <1>1, <1>3 DEF CheckCc
  <2>2. 0 \in Slot
    BY Slots
  <2> QED
    BY <1>1, <1>3, <2>1, <2>2 DEF AdminQ
<1> QED
  BY <1>1, <1>2, <1>3 DEF CheckCc

\* The steps of the dispatcher keep the types.
LEMMA TypeDispatcher ==
  ASSUME IInv, Dispatcher
  PROVE  TypeOK'
<1> USE DEF IInv
<1>1. ASSUME NEW f \in [Db -> Nat] PROVE [f EXCEPT ![0] = 0] \in [Db -> Nat]
  BY Doorbells
<1>2. CASE CheckAqa
  <2>1. old_bar' \in Regs /\ dbs' \in [Db -> Nat] /\ old_dbs' \in [Db -> Nat]
    BY <1>1, <1>2 DEF CheckAqa, clear_admin_db, TypeOK, Regs
  <2>2. admin_q' \in AdminQ /\ (admin_q'.cq_head < admin_q'.cq_depth \/ admin_q'.cq_head = 0)
    <3>1. CASE old_bar.aqa # bar.aqa
      BY <1>2, <3>1, AqaSeen
    <3> QED
      BY <1>2, <3>1 DEF CheckAqa, TypeOK
  <2> QED
    BY <1>2, <2>1, <2>2 DEF CheckAqa, TypeOK, rest_of_bars, tables, host, host_rings, host_io, rings
<1>3. CASE CheckAsq
  <2>1. old_bar' \in Regs /\ dbs' \in [Db -> Nat] /\ old_dbs' \in [Db -> Nat]
    BY <1>1, <1>3 DEF CheckAsq, clear_admin_db, TypeOK, Regs
  <2>2. admin_q' \in AdminQ /\ (admin_q'.cq_head < admin_q'.cq_depth \/ admin_q'.cq_head = 0)
    <3>1. CASE old_bar.asq # bar.asq /\ admin_q.alloc
      BY <1>3, <3>1, AsqSeen DEF TypeOK
    <3> QED
      BY <1>3, <3>1 DEF CheckAsq, TypeOK
  <2> QED
    BY <1>3, <2>1, <2>2 DEF CheckAsq, TypeOK, rest_of_bars, tables, host, host_rings, host_io, rings
<1>4. CASE CheckAcq
  <2>1. old_bar' \in Regs
    BY <1>4 DEF CheckAcq, TypeOK, Regs
  <2>2. admin_q' \in AdminQ /\ (admin_q'.cq_head < admin_q'.cq_depth \/ admin_q'.cq_head = 0)
    <3>1. CASE old_bar.acq # bar.acq /\ admin_q.alloc
      BY <1>4, <3>1, AcqSeen
    <3> QED
      BY <1>4, <3>1 DEF CheckAcq, TypeOK
  <2> QED
    BY <1>4, <2>1, <2>2 DEF CheckAcq, TypeOK, rest_of_bars, tables, host, host_rings, host_io, rings
<1>5. CASE CheckCc
  <2>1. old_bar' \in Regs /\ dbs' \in [Db -> Nat] /\ old_dbs' \in [Db -> Nat]
    BY <1>1, <1>5 DEF CheckCc, clear_admin_db, TypeOK, Regs
  <2>2. admin_q' \in AdminQ /\ (admin_q'.cq_head < admin_q'.cq_depth \/ admin_q'.cq_head = 0)
    BY <1>5, CcSeen DEF TypeOK
  <2>3. csts' \in [rdy : Bit, shst : {0, 2}]
    BY <1>5 DEF CheckCc, rdy_after, TypeOK, Regs
  <2> QED
    BY <1>5, <2>1, <2>2, <2>3 DEF CheckCc, TypeOK, rest_of_bars, tables, host, host_rings,
       host_io, rings
<1>6. CASE SeeAdminDb
  <2>1. todo' \in [curr : Slot, num : Slot, new_db : Slot]
    <3>1. CASE dbs[0] = old_dbs[0]
      BY <1>6, <3>1 DEF SeeAdminDb, TypeOK
    <3>2. CASE dbs[0] # old_dbs[0]
      <4>1. hpc = "up"
        BY <1>6, <3>2 DEF SeeAdminDb, RegInv, QuietInv
      <4>2. /\ bar.aqa \in Depth /\ dbs[0] \in 0 .. bar.aqa - 1 /\ old_dbs[0] \in 0 .. bar.aqa - 1
            /\ admin_q.sq_depth = bar.aqa
        BY <1>6, <4>1 DEF SeeAdminDb, SqInv, position, RegInv, AddrInv, SeenInv, noticed
      <4>3. distance(dbs[0], old_dbs[0], bar.aqa) \in 0 .. bar.aqa - 1
        BY <4>2, Slots DEF distance
      <4> QED
        BY <1>6, <3>2, <4>2, <4>3, Slots DEF SeeAdminDb
    <3> QED
      BY <3>1, <3>2
  <2> QED
    BY <1>6, <2>1 DEF SeeAdminDb, TypeOK, host, host_rings, host_io, shared, rings, tables
<1>7. CASE AdminReq
  <2>1. PICK c \in Cid : c = sq_ring[todo.curr]
    BY <1>7 DEF AdminReq
  <2>2. /\ hpc = "up" /\ dpc' = "admin" /\ todo.num > 0
        /\ UNCHANGED <<host_rest, irq, old_bar>>
        /\ todo'.new_db = todo.new_db /\ todo'.num = todo.num - 1
        /\ todo'.curr = after(todo.curr, bar.aqa)
        /\ todo.curr \in 0 .. bar.aqa - 1 /\ bar.aqa \in Depth
        /\ cmd' \in [Cid -> Cmd]
        /\ \/ \E res \in 0 .. NR_MAX_IO_QUEUE : make_cq_entry_results(c, res)
           \/ UNCHANGED <<admin_q, cq_ring>>
    BY <1>7, <2>1, AdminReqEffect
  <2>3. todo' \in [curr : Slot, num : Slot, new_db : Slot]
    <3>1. after(todo.curr, bar.aqa) \in Slot
      BY <2>2, AfterMod, Slots
    <3>2. todo.num - 1 \in Slot
      BY <2>2, SlotsDown DEF TypeOK
    <3> QED
      BY <1>7, <2>2, <3>1, <3>2 DEF AdminReq, TypeOK
  <2>4. /\ admin_q' \in AdminQ /\ cq_ring' \in [Slot -> Cqe]
        /\ admin_q'.cq_head < admin_q'.cq_depth \/ admin_q'.cq_head = 0
    BY <2>2, AnswerFacts DEF TypeOK
  <2>5. /\ sqes' \in [Qid -> BOOLEAN] /\ cqes' \in [Qid -> BOOLEAN]
        /\ nr_sq' \in 0 .. NR_MAX_IO_QUEUE /\ nr_cq' \in 0 .. NR_MAX_IO_QUEUE
        /\ nr_in_flight' \in [Qid -> Int]
        /\ dbs' \in [Db -> Nat] /\ old_dbs' \in [Db -> Nat]
    <3>1. \/ QueueEffect(c) \/ SetQueues(c) \/ Query(c) \/ Abort(c)
      BY <1>7, <2>1, AdminReqFacts
    <3>2. CASE QueueEffect(c)
      <4>1. /\ sqes' \in [Qid -> BOOLEAN] /\ cqes' \in [Qid -> BOOLEAN]
            /\ UNCHANGED <<nr_sq, nr_cq>>
        BY <3>2 DEF QueueEffect, CreateCq, DeleteCq, CreateSq, DeleteSq, TypeOK
      <4>2. nr_in_flight' \in [Qid -> Int] /\ dbs' \in [Db -> Nat] /\ old_dbs' \in [Db -> Nat]
        BY <3>2 DEF QueueEffect, CreateCq, DeleteCq, CreateSq, DeleteSq, TypeOK,
                    cleared_at_create_sq
      <4> QED
        BY <4>1, <4>2 DEF TypeOK
    <3>3. CASE SetQueues(c)
      BY <3>3, ControllerAssumption DEF SetQueues, TypeOK, Cmd
    <3> QED
      BY <3>1, <3>2, <3>3 DEF Query, Abort, TypeOK, tables
  <2> QED
    BY <2>2, <2>3, <2>4, <2>5 DEF TypeOK, host_rest, host_rings, host_io
<1>8. CASE AdminDone
  <2>1. todo.new_db \in Nat /\ [curr |-> 0, num |-> 0, new_db |-> 0] \in
          [curr : Slot, num : Slot, new_db : Slot]
    BY Slots DEF TypeOK
  <2>2. old_dbs' \in [Db -> Nat]
    BY <1>8, <2>1 DEF AdminDone, TypeOK
  <2> QED
    BY <1>8, <2>1, <2>2 DEF AdminDone, TypeOK, host, host_rings, host_io, rings, tables
<1>9. ASSUME NEW accepted \in SUBSET moved, ProcIoSq(accepted) PROVE TypeOK'
  <2>1. /\ old_dbs' \in [Db -> Nat] /\ nr_in_flight' \in [Qid -> Int]
        /\ io' \in [Qid -> {"idle", "rung", "dispatched", "copied", "posted"}]
    BY <1>9 DEF ProcIoSq, TypeOK
  <2> QED
    BY <1>9, <2>1 DEF ProcIoSq, TypeOK, host_rings, shared, rings
<1>10. CASE ProcIoCq
  <2>1. \A q \in Qid : acknowledged(dbs[CqDb(q)], old_dbs[CqDb(q)]) \in Int
    BY Doorbells, ControllerAssumption DEF acknowledged, TypeOK
  <2>2. old_dbs' \in [Db -> Nat] /\ nr_in_flight' \in [Qid -> Int]
    BY <1>10, <2>1 DEF ProcIoCq, TypeOK
  <2> QED
    BY <1>10, <2>2 DEF ProcIoCq, TypeOK, host, host_rings, host_io, shared, rings
<1> QED
  BY <1>2, <1>3, <1>4, <1>5, <1>6, <1>7, <1>8, <1>9, <1>10 DEF Dispatcher

\* Every step keeps the types.
LEMMA NextType == ASSUME IInv, [Next]_vars PROVE TypeOK'
<1>1. CASE UNCHANGED vars
  BY <1>1 DEF vars, host, host_rings, host_io, shared, rings, device, tables, IInv, TypeOK
<1> QED
  BY <1>1, TypeBind, TypeDriver, TypeDispatcher DEF Next

-----------------------------------------------------------------------------
(* The registers.                                                          *)

\* Steps that touch neither the registers nor the admin queue.
LEMMA RegFrame ==
  ASSUME RegInv, UNCHANGED <<hpc, sessions, bar, csts, old_bar, admin_q, dpc, todo>>,
         dbs'[0] = dbs[0], old_dbs'[0] = old_dbs[0]
  PROVE  RegInv'
BY DEF RegInv, AddrInv, SeenInv, CcInv, QuietInv, noticed

\* The driver's writes.
LEMMA RegBind ==
  ASSUME IInv, TypeOK', Bind \/ WriteShutdown
  PROVE  RegInv'
<1> USE DEF IInv, unchanged_but_bar, device, RegInv, AddrInv, SeenInv, CcInv, QuietInv, noticed
<1>0. bar \in Regs /\ sessions \in Nat /\ bar.asq \in Nat /\ bar.acq \in Nat /\ old_bar \in Regs
  BY ControllerAssumption DEF TypeOK, Regs, Addr, NoAddr
<1>1. CASE WriteDisable
  <2>1. /\ bar'.aqa = bar.aqa /\ bar'.asq = bar.asq /\ bar'.acq = bar.acq /\ bar'.cc = cc(0, 0)
        /\ hpc' = "wait_off" /\ sessions' = sessions + 1 /\ hpc = "off"
        /\ UNCHANGED <<csts, old_bar, admin_q, dpc, todo, dbs, old_dbs>>
    BY <1>0, <1>1 DEF WriteDisable, Regs
  <2> QED
    BY <1>0, <2>1 DEF cc
<1>2. ASSUME NEW d \in Depth, WriteAqa(d) PROVE RegInv'
  <2>1. /\ bar'.aqa = d /\ bar'.asq = bar.asq /\ bar'.acq = bar.acq /\ bar'.cc = bar.cc
        /\ hpc' = "asq" /\ sessions' = sessions /\ hpc = "wait_off" /\ csts.rdy = 0
        /\ UNCHANGED <<csts, old_bar, admin_q, dpc, todo, dbs, old_dbs>>
    BY <1>0, <1>2 DEF WriteAqa, Regs
  <2> QED
    BY <1>0, <2>1
<1>3. CASE WriteAsq
  <2>1. /\ bar'.aqa = bar.aqa /\ bar'.asq = sessions /\ bar'.acq = bar.acq /\ bar'.cc = bar.cc
        /\ hpc' = "acq" /\ sessions' = sessions /\ hpc = "asq"
        /\ UNCHANGED <<csts, old_bar, admin_q, dpc, todo, dbs, old_dbs>>
    BY <1>0, <1>3 DEF WriteAsq, Regs
  <2> QED
    BY <1>0, <2>1
<1>4. CASE WriteAcq
  <2>1. /\ bar'.aqa = bar.aqa /\ bar'.asq = bar.asq /\ bar'.acq = bar.asq /\ bar'.cc = bar.cc
        /\ hpc' = "cc" /\ sessions' = sessions /\ hpc = "acq"
        /\ UNCHANGED <<csts, old_bar, admin_q, dpc, todo, dbs, old_dbs>>
    BY <1>0, <1>4 DEF WriteAcq, Regs
  <2> QED
    BY <1>0, <2>1
<1>5. CASE WriteEnable
  <2>1. /\ bar'.aqa = bar.aqa /\ bar'.asq = bar.asq /\ bar'.acq = bar.acq /\ bar'.cc = cc(1, 0)
        /\ hpc' = "wait_rdy" /\ sessions' = sessions /\ hpc = "cc"
        /\ noticed \/ dpc \notin {"asq", "acq", "cc"}
        /\ UNCHANGED <<csts, old_bar, admin_q, dpc, todo, dbs, old_dbs>>
    BY <1>0, <1>5 DEF WriteEnable, Regs
  <2> QED
    BY <1>0, <2>1
<1>6. CASE SeeReady
  <2>1. /\ hpc' = "up" /\ sessions' = sessions /\ hpc = "wait_rdy" /\ csts.rdy = 1
        /\ UNCHANGED <<bar, csts, old_bar, admin_q, dpc, todo, dbs, old_dbs>>
    BY <1>6 DEF SeeReady, shared
  <2>2. old_bar = bar
    BY <2>1
  <2> QED
    BY <1>0, <2>1, <2>2
<1>7. CASE WriteShutdown
  <2>1. /\ bar'.aqa = bar.aqa /\ bar'.asq = bar.asq /\ bar'.acq = bar.acq /\ bar'.cc = cc(1, 1)
        /\ hpc' = "wait_shst" /\ sessions' = sessions /\ hpc = "up"
        /\ UNCHANGED <<csts, old_bar, admin_q, dpc, todo, dbs, old_dbs>>
    BY <1>0, <1>7 DEF WriteShutdown, Regs
  <2>2. IF dpc = "admin" THEN todo.num = 0 /\ todo.new_db = dbs[0] ELSE dbs[0] = old_dbs[0]
    BY <1>7, <2>1, NothingSent DEF WriteShutdown
  <2> QED
    BY <1>0, <2>1, <2>2 DEF cc
<1> QED
  BY <1>1, <1>2, <1>3, <1>4, <1>5, <1>6, <1>7 DEF Bind

\* The comparisons of the dispatcher.
LEMMA RegChecks ==
  ASSUME IInv, TypeOK', CheckAqa \/ CheckAsq \/ CheckAcq \/ CheckCc
  PROVE  RegInv'
<1> USE DEF IInv, RegInv, AddrInv, SeenInv, CcInv, QuietInv, noticed
<1>0. /\ bar \in Regs /\ old_bar \in Regs /\ 0 \in Db
      /\ dbs \in [Db -> Nat] /\ old_dbs \in [Db -> Nat]
  BY Doorbells DEF TypeOK
<1>1. CASE CheckAqa
  <2>1. UNCHANGED <<hpc, sessions, bar, csts, todo>> /\ dpc = "aqa"
    BY <1>1 DEF CheckAqa, rest_of_bars, host
  <2>2. CASE old_bar.aqa = bar.aqa
    <3>1. UNCHANGED <<old_bar, admin_q, dbs, old_dbs>> /\ dpc' = "asq"
      BY <1>1, <2>2 DEF CheckAqa
    <3> QED
      BY <2>1, <2>2, <3>1
  <2>3. CASE old_bar.aqa # bar.aqa
    <3>1. /\ old_bar'.aqa = bar.aqa /\ old_bar'.asq = old_bar.asq
          /\ old_bar'.acq = old_bar.acq /\ old_bar'.cc = old_bar.cc /\ dpc' = "db"
          /\ dbs'[0] = 0 /\ old_dbs'[0] = 0
      BY <1>0, <1>1, <2>3 DEF CheckAqa, clear_admin_db, Regs
    <3>2. hpc \in {"asq", "acq", "cc", "wait_rdy"} /\ old_bar # bar
      BY <2>3 DEF TypeOK
    <3> QED
      BY <1>1, <2>1, <2>3, <3>1, <3>2, AqaSeen
  <2> QED
    BY <2>2, <2>3
<1>2. CASE CheckAsq
  <2>1. UNCHANGED <<hpc, sessions, bar, csts, todo>> /\ dpc = "asq"
    BY <1>2 DEF CheckAsq, rest_of_bars, host
  <2>2. CASE old_bar.asq = bar.asq
    <3>1. UNCHANGED <<old_bar, admin_q, dbs, old_dbs>> /\ dpc' = "acq"
      BY <1>2, <2>2 DEF CheckAsq
    <3> QED
      BY <2>1, <2>2, <3>1
  <2>3. CASE old_bar.asq # bar.asq /\ ~admin_q.alloc
    <3>1. UNCHANGED <<old_bar, admin_q, dbs, old_dbs>> /\ dpc' = "db"
      BY <1>2, <2>3 DEF CheckAsq
    <3> QED
      BY <2>1, <2>3, <3>1
  <2>4. CASE old_bar.asq # bar.asq /\ admin_q.alloc
    <3>1. /\ old_bar'.aqa = old_bar.aqa /\ old_bar'.asq = bar.asq
          /\ old_bar'.acq = old_bar.acq /\ old_bar'.cc = old_bar.cc /\ dpc' = "db"
          /\ dbs'[0] = 0 /\ old_dbs'[0] = 0
      BY <1>0, <1>2, <2>4 DEF CheckAsq, clear_admin_db, Regs
    <3>2. hpc \in {"acq", "cc", "wait_rdy"} /\ old_bar # bar
      BY <2>4 DEF TypeOK
    <3> QED
      BY <1>2, <2>1, <2>4, <3>1, <3>2, AsqSeen
  <2> QED
    BY <2>2, <2>3, <2>4
<1>3. CASE CheckAcq
  <2>1. UNCHANGED <<hpc, sessions, bar, csts, todo, dbs, old_dbs>> /\ dpc = "acq"
    BY <1>3 DEF CheckAcq, rest_of_bars, host
  <2>2. CASE old_bar.acq = bar.acq
    <3>1. UNCHANGED <<old_bar, admin_q>> /\ dpc' = "cc"
      BY <1>3, <2>2 DEF CheckAcq
    <3> QED
      BY <2>1, <2>2, <3>1
  <2>3. CASE old_bar.acq # bar.acq /\ ~admin_q.alloc
    <3>1. UNCHANGED <<old_bar, admin_q>> /\ dpc' = "db"
      BY <1>3, <2>3 DEF CheckAcq
    <3> QED
      BY <2>1, <2>3, <3>1
  <2>4. CASE old_bar.acq # bar.acq /\ admin_q.alloc
    <3>1. /\ old_bar'.aqa = old_bar.aqa /\ old_bar'.asq = old_bar.asq
          /\ old_bar'.acq = bar.acq /\ old_bar'.cc = old_bar.cc /\ dpc' = "db"
      BY <1>0, <1>3, <2>4 DEF CheckAcq, Regs
    <3>2. hpc \in {"cc", "wait_rdy"} /\ old_bar # bar
      BY <2>4 DEF TypeOK
    <3> QED
      BY <1>3, <2>1, <2>4, <3>1, <3>2, AcqSeen
  <2> QED
    BY <2>2, <2>3, <2>4
<1>4. CASE CheckCc
  <2>1. UNCHANGED <<hpc, sessions, bar, todo>> /\ dpc = "cc" /\ dpc' = "db"
    BY <1>4 DEF CheckCc, rest_of_bars, host
  <2>2. CASE old_bar.cc = bar.cc
    <3>1. UNCHANGED <<old_bar, admin_q, csts, dbs, old_dbs>>
      BY <1>4, <2>2 DEF CheckCc
    <3> QED
      BY <2>1, <2>2, <3>1
  <2>3. CASE old_bar.cc # bar.cc
    <3>1. /\ old_bar'.aqa = old_bar.aqa /\ old_bar'.asq = old_bar.asq
          /\ old_bar'.acq = old_bar.acq /\ old_bar'.cc = bar.cc
      BY <1>0, <1>4, <2>3 DEF CheckCc, Regs
    <3>2. /\ csts'.rdy = rdy_after(bar.cc.en)
          /\ csts'.shst = IF bar.cc.shn = 1 THEN 2 ELSE csts.shst
      BY <1>4, <2>3 DEF CheckCc
    <3>3. \/ dbs'[0] = dbs[0] /\ old_dbs'[0] = old_dbs[0]
          \/ dbs'[0] = 0 /\ old_dbs'[0] = 0
      BY <1>0, <1>4, <2>3 DEF CheckCc, clear_admin_db
    <3>4. hpc \in {"off", "wait_off", "wait_rdy", "wait_shst"}
      BY <2>3 DEF TypeOK
    <3>5. CASE hpc = "off"
      BY <1>4, <2>1, <2>3, <3>1, <3>2, <3>3, <3>5, CcSeen DEF cc, rdy_after
    <3>6. CASE hpc = "wait_off"
      BY <1>4, <2>1, <2>3, <3>1, <3>2, <3>3, <3>6, CcSeen DEF cc, rdy_after
    <3>7. CASE hpc = "wait_rdy"
      <4>1. noticed /\ bar.cc = cc(1, 0) /\ admin_q.alloc /\ csts.rdy = 0
        BY <2>1, <2>3, <3>7, Slots
      <4>2. csts'.rdy = 1
        BY <3>2, <4>1 DEF cc, rdy_after
      <4>3. admin_q' = admin_q
        BY <1>4, <4>1, CcSeen DEF cc
      <4>4. old_bar' = bar
        BY <1>0, <3>1, <4>1 DEF Regs, TypeOK
      <4> QED
        BY <2>1, <2>3, <3>1, <3>3, <3>7, <4>1, <4>2, <4>3, <4>4
    <3>8. CASE hpc = "wait_shst"
      BY <1>4, <2>1, <2>3, <3>1, <3>2, <3>3, <3>8, CcSeen DEF cc, rdy_after
    <3> QED
      BY <3>4, <3>5, <3>6, <3>7, <3>8
  <2> QED
    BY <2>2, <2>3
<1> QED
  BY <1>1, <1>2, <1>3, <1>4

\* The I/O side leaves the admin doorbell alone.
LEMMA AdminDbKept ==
  ASSUME TypeOK,
         \/ \E q \in Qid : SubmitIo(q) \/ TakeIo(q)
         \/ \E accepted \in SUBSET moved : ProcIoSq(accepted)
         \/ ProcIoCq
  PROVE  dbs'[0] = dbs[0] /\ old_dbs'[0] = old_dbs[0]
<1> USE Doorbells DEF TypeOK
<1>1. ASSUME NEW q \in Qid, SubmitIo(q) \/ TakeIo(q)
      PROVE  dbs'[0] = dbs[0] /\ old_dbs'[0] = old_dbs[0]
  BY <1>1 DEF SubmitIo, TakeIo, device
<1>2. ASSUME NEW accepted \in SUBSET moved, ProcIoSq(accepted)
      PROVE  dbs'[0] = dbs[0] /\ old_dbs'[0] = old_dbs[0]
  <2>1. accepted \subseteq Qid
    BY ControllerAssumption DEF moved, Qid
  <2> QED
    BY <1>2, <2>1 DEF ProcIoSq, shared
<1>3. CASE ProcIoCq
  <2>1. {q \in 1 .. nr_cq : cqes[q]} \subseteq Qid
    BY ControllerAssumption DEF Qid
  <2> QED
    BY <1>3, <2>1 DEF ProcIoCq, shared
<1> QED
  BY <1>1, <1>2, <1>3

\* Every step keeps what is known of the registers.
LEMMA NextReg == ASSUME IInv, TypeOK', [Next]_vars PROVE RegInv'
<1>0. TypeOK /\ RegInv
  BY DEF IInv
<1> USE DEF host, host_rings, host_io, shared, rings, device, tables
<1>1. CASE UNCHANGED vars
  BY <1>0, <1>1, RegFrame DEF vars
<1>2. CASE SeeShutdown
  <2>1. /\ hpc = "wait_shst" /\ hpc' = "off"
        /\ UNCHANGED <<sessions, bar, csts, old_bar, admin_q, dpc, todo, dbs, old_dbs>>
    BY <1>2 DEF SeeShutdown
  <2> QED
    BY <1>0, <2>1 DEF RegInv, AddrInv, SeenInv, CcInv, QuietInv, noticed, TypeOK, Regs
<1>3. ASSUME NEW op \in Op \union QueueOp, NEW q \in 0 .. NR_MAX_IO_QUEUE + 1, Send(op, q)
      PROVE  RegInv'
  <2>1. hpc = "up" /\ UNCHANGED <<hpc, sessions, bar, csts, old_bar, admin_q, dpc, todo, old_dbs>>
    BY <1>3 DEF Send
  <2> QED
    BY <1>0, <2>1 DEF RegInv, AddrInv, SeenInv, CcInv, QuietInv, noticed
<1>4. CASE Handler
  BY <1>0, <1>4, RegFrame DEF Handler, Take, HandlerReturns
<1>5. CASE \E q \in Qid : SubmitIo(q) \/ TakeIo(q)
  BY <1>0, <1>5, RegFrame, AdminDbKept DEF SubmitIo, TakeIo
<1>6. CASE Worker
  BY <1>0, <1>6, RegFrame DEF Worker, WorkerCopy, WorkerPost
<1>7. CASE SeeAdminDb
  <2>1. /\ dpc = "db" /\ (dpc' = "admin" => dbs[0] # old_dbs[0])
        /\ dpc' \in {"admin", "iosq"}
        /\ UNCHANGED <<hpc, sessions, bar, csts, old_bar, admin_q, dbs, old_dbs>>
    BY <1>7 DEF SeeAdminDb
  <2>2. dpc' = "admin" => hpc = "up"
    BY <1>0, <2>1 DEF RegInv, QuietInv
  <2> QED
    BY <1>0, <2>1, <2>2 DEF RegInv, AddrInv, SeenInv, CcInv, QuietInv, noticed
<1>8. CASE AdminReq
  <2>1. PICK c \in Cid : c = sq_ring[todo.curr]
    BY <1>8 DEF AdminReq
  <2>2. /\ hpc = "up" /\ dpc' = "admin"
        /\ UNCHANGED <<hpc, sessions, bar, csts, old_bar>>
        /\ dbs'[0] = dbs[0] /\ old_dbs'[0] = old_dbs[0]
        /\ \/ \E res \in 0 .. NR_MAX_IO_QUEUE : make_cq_entry_results(c, res)
           \/ UNCHANGED admin_q
    BY <1>8, <2>1, AdminReqEffect DEF host_rest
  <2>3. /\ admin_q'.sq = admin_q.sq /\ admin_q'.cq = admin_q.cq
        /\ admin_q'.sq_depth = admin_q.sq_depth /\ admin_q'.cq_depth = admin_q.cq_depth
        /\ admin_q'.alloc = admin_q.alloc
    BY <2>2, AnswerFacts
  <2> QED
    BY <1>0, <2>2, <2>3 DEF RegInv, AddrInv, SeenInv, CcInv, QuietInv, noticed
<1>9. CASE AdminDone
  <2>1. /\ dpc = "admin" /\ dpc' = "iosq"
        /\ old_dbs'[0] = todo.new_db
        /\ UNCHANGED <<hpc, sessions, bar, csts, old_bar, admin_q, dbs>>
    BY <1>0, <1>9, Doorbells DEF AdminDone, TypeOK
  <2>2. hpc # "up" => todo.new_db = dbs[0]
    BY <1>0, <2>1 DEF RegInv, QuietInv
  <2> QED
    BY <1>0, <2>1, <2>2 DEF RegInv, AddrInv, SeenInv, CcInv, QuietInv, noticed
<1>10. ASSUME NEW accepted \in SUBSET moved, ProcIoSq(accepted) PROVE RegInv'
  <2>1. dbs'[0] = dbs[0] /\ old_dbs'[0] = old_dbs[0]
    BY <1>0, <1>10, AdminDbKept
  <2>2. /\ dpc = "iosq" /\ dpc' = "iocq"
        /\ UNCHANGED <<hpc, sessions, bar, csts, old_bar, admin_q, todo>>
    BY <1>10 DEF ProcIoSq
  <2> QED
    BY <1>0, <2>1, <2>2 DEF RegInv, AddrInv, SeenInv, CcInv, QuietInv, noticed
<1>11. CASE ProcIoCq
  <2>1. dbs'[0] = dbs[0] /\ old_dbs'[0] = old_dbs[0]
    BY <1>0, <1>11, AdminDbKept
  <2>2. /\ dpc = "iocq" /\ dpc' = "aqa"
        /\ UNCHANGED <<hpc, sessions, bar, csts, old_bar, admin_q, todo>>
    BY <1>11 DEF ProcIoCq
  <2> QED
    BY <1>0, <2>1, <2>2 DEF RegInv, AddrInv, SeenInv, CcInv, QuietInv, noticed
<1> QED
  BY <1>1, <1>2, <1>3, <1>4, <1>5, <1>6, <1>7, <1>8, <1>9, <1>10, <1>11, RegBind, RegChecks
     DEF Next, Dispatcher

-----------------------------------------------------------------------------
(* The driver outside a binding.                                           *)

\* The queues the dispatcher takes commands from are those that were rung.
LEMMA MovedIsRung ==
  ASSUME TypeOK, QueueInv, NEW q \in moved
  PROVE  q \in Qid /\ io[q] = "rung" /\ sqes[q]
<1>1. q \in Qid
  BY ControllerAssumption DEF moved, Qid, TypeOK
<1> QED
  BY <1>1 DEF moved, QueueInv, QueueOK

\* Every step keeps what the driver is outside a binding.
LEMMA NextBind == ASSUME IInv, [Next]_vars PROVE BindInv'
<1>0. TypeOK /\ RegInv /\ BindInv /\ QueueInv
  BY DEF IInv
<1> USE DEF host, host_rings, host_io, shared, rings, device, tables
<1>1. ASSUME UNCHANGED <<hpc, cmd, sq_tail, cq_head_h, cq_phase_h, granted, hq, cq_ring, io>>
      PROVE  BindInv'
  BY <1>0, <1>1 DEF BindInv
<1>2. CASE Bind
  <2>1. /\ hpc # "up" /\ hpc # "wait_shst" /\ hpc' # "wait_shst"
        /\ UNCHANGED <<cmd, sq_tail, cq_head_h, cq_phase_h, granted, hq, cq_ring, io>>
    BY <1>2 DEF Bind, WriteDisable, WriteAqa, WriteAsq, WriteAcq, WriteEnable, SeeReady,
                unchanged_but_bar
  <2> QED
    BY <1>0, <2>1 DEF BindInv
<1>3. CASE WriteShutdown
  BY <1>3 DEF WriteShutdown, unchanged_but_bar, BindInv
<1>4. CASE SeeShutdown
  BY <1>0, <1>4 DEF SeeShutdown, BindInv
<1>5. ASSUME NEW op \in Op \union QueueOp, NEW q \in 0 .. NR_MAX_IO_QUEUE + 1, Send(op, q)
      PROVE  BindInv'
  BY <1>5 DEF Send, BindInv
<1>6. CASE Handler
  BY <1>1, <1>6 DEF Handler, Take, HandlerReturns, BindInv
<1>7. ASSUME NEW q \in Qid, SubmitIo(q) \/ TakeIo(q) \/ WorkerCopy(q) \/ WorkerPost(q)
      PROVE  BindInv'
  <2>1. io[q] # "idle" \/ hpc = "up"
    BY <1>7 DEF SubmitIo, TakeIo, WorkerCopy, WorkerPost
  <2>2. hpc = "up"
    BY <1>0, <2>1 DEF BindInv
  <2>3. hpc' = "up"
    BY <1>7, <2>2 DEF SubmitIo, TakeIo, WorkerCopy, WorkerPost
  <2> QED
    BY <2>3 DEF BindInv
<1>8. CASE CheckAqa \/ CheckAsq \/ CheckAcq \/ CheckCc
  BY <1>1, <1>8 DEF CheckAqa, CheckAsq, CheckAcq, CheckCc, rest_of_bars
<1>9. CASE SeeAdminDb \/ AdminDone \/ ProcIoCq
  BY <1>1, <1>9 DEF SeeAdminDb, AdminDone, ProcIoCq
<1>10. CASE AdminReq
  <2>1. hpc' = "up"
    BY <1>10, AdminReqFacts DEF host_rest
  <2> QED
    BY <2>1 DEF BindInv
<1>11. ASSUME NEW accepted \in SUBSET moved, ProcIoSq(accepted) PROVE BindInv'
  <2>1. CASE accepted = {}
    <3>1. io' = io
      BY <1>0, <1>11, <2>1 DEF ProcIoSq, TypeOK
    <3> QED
      BY <1>1, <1>11, <3>1 DEF ProcIoSq
  <2>2. CASE accepted # {}
    <3>1. hpc = "up"
      BY <1>0, <2>2, MovedIsRung DEF BindInv
    <3> QED
      BY <1>11, <3>1 DEF ProcIoSq, BindInv
  <2> QED
    BY <2>1, <2>2
<1>12. CASE UNCHANGED vars
  BY <1>1, <1>12 DEF vars
<1> QED
  BY <1>2, <1>3, <1>4, <1>5, <1>6, <1>7, <1>8, <1>9, <1>10, <1>11, <1>12
     DEF Next, Dispatcher, Worker

-----------------------------------------------------------------------------
\* The invariant holds when the module is loaded.
LEMMA InitInv == Init => IInv
<1> SUFFICES ASSUME Init PROVE IInv
  OBVIOUS
<1>0. TypeOK
  BY InitType
<1>1. hpc = "off" /\ sessions = 0 /\ bar = no_bar /\ old_bar = no_bar /\ dpc = "aqa"
      /\ csts.rdy = 0 /\ dbs[0] = 0 /\ old_dbs[0] = 0
  BY Doorbells DEF Init
<1>2. RegInv
  <2>1. admin_q.sq = NoAddr /\ admin_q.cq = NoAddr /\ admin_q.sq_depth = 0 /\ admin_q.cq_depth = 0
    BY DEF Init
  <2> QED
    BY <1>1, <2>1 DEF RegInv, AddrInv, SeenInv, CcInv, QuietInv, noticed, no_bar, NoAddr
<1>3. BindInv
  BY <1>1 DEF Init, BindInv
<1>4. SqInv /\ CqInv
  BY <1>1 DEF SqInv, CqInv
<1>5. CmdInv
  <2>1. \A c \in Cid : cmd[c] = no_cmd
    BY DEF Init
  <2>2. no_cmd.state = "idle" /\ no_cmd.op = "none"
    BY DEF no_cmd
  <2>3. "none" \notin Op /\ "none" \notin QueueCmd
    BY ControllerAssumption DEF QueueCmd, QueueOp
  <2>4. ~(granted > 0)
    BY DEF Init
  <2> QED
    BY <1>1, <2>1, <2>2, <2>3, <2>4 DEF CmdInv, CmdShape, CmdApart
<1>6. QueueInv
  <2>1. \A op, q : ~done(op, q)
    BY DEF done, Init, no_cmd
  <2>2. \A q \in Qid : /\ hq[q] = "none" /\ io[q] = "idle" /\ ~sqes[q]
                       /\ dbs[SqDb(q)] = 0 /\ old_dbs[SqDb(q)] = 0
                       /\ dbs[CqDb(q)] = 0 /\ old_dbs[CqDb(q)] = 0
    BY Doorbells DEF Init
  <2>3. 0 \in 0 .. IO_DEPTH - 1
    BY ControllerAssumption
  <2> QED
    BY <2>1, <2>2, <2>3 DEF QueueInv, QueueOK, FlightOK
<1> QED
  BY <1>0, <1>2, <1>3, <1>4, <1>5, <1>6 DEF IInv

-----------------------------------------------------------------------------
(* The admin commands.                                                     *)

\* The names of the opcodes are different.
LEMMA Opcodes ==
  /\ Op \cap QueueOp = {} /\ "none" \notin Op \union QueueOp
  /\ QueueCmd = {"create_cq", "create_sq", "delete_sq", "delete_cq"}
  /\ QueueOp = QueueCmd \union {"set_queues"} /\ "set_queues" \notin QueueCmd
BY ControllerAssumption DEF QueueCmd, QueueOp

\* The dispatcher carries out commands that wait.
LEMMA AdminReqSent ==
  ASSUME IInv, AdminReq
  PROVE  /\ todo.curr \in unprocessed /\ todo.curr # dbs[0] /\ todo.new_db # todo.curr
         /\ cmd[sq_ring[todo.curr]].state = "sent"
<1>1. hpc = "up" /\ dpc = "admin" /\ todo.num > 0
  BY AdminReqFacts
<1>2. /\ position = todo.curr /\ todo.num = distance(todo.new_db, todo.curr, bar.aqa)
      /\ todo.new_db \in unprocessed \union {dbs[0]}
  BY <1>1 DEF IInv, SqInv, position
<1>3. todo.curr \in 0 .. bar.aqa - 1 /\ bar.aqa \in Nat
  BY <1>1, <1>2, UnprocessedSlots
<1>4. todo.new_db # todo.curr
  BY <1>1, <1>2, <1>3 DEF distance
<1>5. todo.curr # dbs[0]
  BY <1>1, <1>2, <1>4, UnprocessedSlots
<1>6. todo.curr \in unprocessed
  <2>1. PICK n \in Nat \ {0} : n = bar.aqa
    BY <1>1, UnprocessedSlots
  <2>2. PICK p \in 0 .. n - 1 : p = todo.curr
    BY <1>3, <2>1
  <2>3. PICK b \in 0 .. n - 1 : b = dbs[0]
    BY <1>1, <2>1, UnprocessedSlots
  <2>4. unprocessed = slots(p, b, n)
    BY <1>1, <1>2, <2>1, <2>2, <2>3, UnprocessedSlots
  <2> QED
    BY <1>5, <2>2, <2>3, <2>4, SlotsEmpty
<1> QED
  BY <1>1, <1>4, <1>5, <1>6 DEF IInv, SqInv

\* Steps that touch neither the commands nor the driver's view of its queues.
LEMMA CmdFrame ==
  ASSUME CmdInv, UNCHANGED <<cmd, granted, hq, nr_sq, nr_cq>>,
         hpc' = "up" => hpc = "up" /\ bar'.aqa = bar.aqa,
         \A q \in Qid : \/ io'[q] = io[q]
                        \/ io[q] \notin {"idle", "posted"}
                        \/ io[q] = "posted" /\ io'[q] = "idle"
                        \/ ~pending(q),
         TypeOK
  PROVE  CmdInv'
<1>1. ASSUME NEW c \in Cid, cmd[c].op \in QueueCmd
      PROVE  fits(cmd[c].op, cmd[c].q)'
  <2>1. cmd[c].q \in Qid /\ cmd[c].state # "idle" /\ fits(cmd[c].op, cmd[c].q)
    BY <1>1, Opcodes, ControllerAssumption DEF CmdInv, CmdShape, Qid, TypeOK, no_cmd
  <2>2. pending(cmd[c].q)
    BY <2>1 DEF pending
  <2> QED
    BY <2>1, <2>2 DEF fits
<1>2. CmdShape'
  BY <1>1 DEF CmdInv, CmdShape
<1>3. CmdApart'
  BY DEF CmdInv, CmdApart
<1>4. in_use' = in_use
  BY DEF in_use
<1> QED
  BY <1>2, <1>3, <1>4 DEF CmdInv

\* Nothing is under way.
LEMMA CmdNone ==
  ASSUME cmd' = [c \in Cid |-> no_cmd], granted' = 0 \/ UNCHANGED <<granted, nr_sq, nr_cq>>,
         CmdInv, hpc' = "up" => bar.aqa' \in Depth, granted' \in Nat
  PROVE  CmdInv'
<1>1. \A c \in Cid : cmd'[c] = no_cmd
  OBVIOUS
<1>2. no_cmd.state = "idle" /\ no_cmd.op = "none"
  BY DEF no_cmd
<1>3. in_use' = {}
  BY <1>1, <1>2 DEF in_use
<1>4. CmdShape' /\ CmdApart'
  BY <1>1, <1>2, Opcodes DEF CmdShape, CmdApart
<1>5. Cardinality(in_use') = 0
  BY <1>3, FS_EmptySet
<1> QED
  BY <1>4, <1>5, Slots DEF CmdInv

\* There are finitely many command identifiers.
LEMMA InUseFinite == IsFiniteSet(in_use) /\ Cardinality(in_use) \in Nat
<1>1. IsFiniteSet(Cid)
  BY ControllerAssumption, FS_Interval DEF Cid
<1>2. IsFiniteSet(in_use)
  BY <1>1, FS_Subset DEF in_use
<1> QED
  BY <1>2, FS_CardinalityType

\* What sending a command does.
LEMMA SendFacts ==
  ASSUME IInv, NEW op \in Op \union QueueOp, NEW q \in 0 .. NR_MAX_IO_QUEUE + 1, Send(op, q)
  PROVE  \E c \in Cid :
    /\ hpc = "up" /\ c = next_cid /\ c \notin in_use /\ cmd[c] = no_cmd
    /\ cmd'[c].state = "sent" /\ cmd'[c].op = op /\ cmd'[c].q = q
    /\ \A d \in Cid : d # c => cmd'[d] = cmd[d]
    /\ sq_ring' = [sq_ring EXCEPT ![sq_tail] = c]
    /\ sq_tail' = after(sq_tail, bar.aqa) /\ dbs' = [dbs EXCEPT ![0] = sq_tail']
    /\ bar.aqa \in Depth /\ Cardinality(in_use) < bar.aqa - 1
    /\ UNCHANGED <<hpc, cq_head_h, cq_phase_h, granted, hq, io, cq_pos, bar, cq_ring, irq, device>>
<1>1. PICK c \in Cid : c = next_cid /\ c \notin in_use
  BY NextCid DEF Send
<1>2. cmd[c] = no_cmd
  BY <1>1 DEF IInv, CmdInv, CmdShape, in_use
<1>3. cmd' = [cmd EXCEPT ![c] = [state |-> "sent", op |-> op, q |-> q]]
  BY <1>1 DEF Send
<1>4. /\ cmd'[c].state = "sent" /\ cmd'[c].op = op /\ cmd'[c].q = q
      /\ \A d \in Cid : d # c => cmd'[d] = cmd[d]
  BY <1>3 DEF IInv, TypeOK
<1>5. hpc = "up" /\ bar.aqa \in Depth /\ sq_tail \in 0 .. bar.aqa - 1
  BY DEF Send, IInv, RegInv, AddrInv, SqInv
<1>6. sq_tail' = after(sq_tail, bar.aqa)
  BY <1>5, AfterMod, Slots DEF Send
<1> QED
  BY <1>1, <1>2, <1>4, <1>5, <1>6 DEF Send, host_io

\* A new command is one the driver may send, and the only one of its queue.
LEMMA CmdSend ==
  ASSUME IInv, NEW op \in Op \union QueueOp, NEW q \in 0 .. NR_MAX_IO_QUEUE + 1, Send(op, q)
  PROVE  CmdInv'
<1>1. PICK c \in Cid :
    /\ hpc = "up" /\ c = next_cid /\ c \notin in_use /\ cmd[c] = no_cmd
    /\ cmd'[c].state = "sent" /\ cmd'[c].op = op /\ cmd'[c].q = q
    /\ \A d \in Cid : d # c => cmd'[d] = cmd[d]
    /\ bar.aqa \in Depth /\ Cardinality(in_use) < bar.aqa - 1
    /\ UNCHANGED <<hpc, granted, hq, io, bar, device>>
  BY SendFacts
<1>2. CmdInv /\ TypeOK
  BY DEF IInv
<1>3. in_order(op, q)
  BY DEF Send
<1>4. op \in Op => q = 0
  BY <1>3, Opcodes DEF in_order
<1>5. op = "set_queues" => granted = 0 /\ q > 0 /\ ~queues_pending
  BY <1>3, Opcodes DEF in_order
<1>6. op \in QueueCmd => q \in 1 .. granted /\ fits(op, q) /\ ~pending(q)
  BY <1>3, Opcodes DEF in_order, fits
<1>7. CmdShape'
  <2> SUFFICES ASSUME NEW d \in Cid
               PROVE  /\ cmd'[d].state = "idle" => cmd'[d] = no_cmd
                      /\ cmd'[d].state # "idle" => cmd'[d].op \in Op \union QueueOp
                      /\ cmd'[d].state = "dropped" => cmd'[d].op = "abort"
                      /\ cmd'[d].op \in Op => cmd'[d].q = 0
                      /\ cmd'[d].op = "set_queues" => granted' = 0 /\ cmd'[d].q > 0
                      /\ cmd'[d].op \in QueueCmd =>
                           cmd'[d].q \in 1 .. granted' /\ fits(cmd'[d].op, cmd'[d].q)
    BY <1>1 DEF CmdShape, fits
  <2>1. CASE d = c
    BY <1>1, <1>4, <1>5, <1>6, <2>1
  <2>2. CASE d # c
    BY <1>1, <1>2, <2>2 DEF CmdInv, CmdShape
  <2> QED
    BY <2>1, <2>2
<1>8. CmdApart'
  <2>1. ASSUME NEW d \in Cid, d # c
        PROVE  /\ ~(op = "set_queues" /\ cmd[d].op = "set_queues")
               /\ ~(op \in QueueCmd /\ cmd[d].op \in QueueCmd /\ cmd[d].q = q)
    <3>1. ~(op = "set_queues" /\ cmd[d].op = "set_queues")
      BY <1>5, <2>1 DEF queues_pending
    <3>2. cmd[d].op \in QueueCmd => cmd[d].state # "idle"
      BY <1>2, Opcodes DEF CmdInv, CmdShape, no_cmd
    <3> QED
      BY <1>6, <3>1, <3>2 DEF pending
  <2> QED
    BY <1>1, <1>2, <2>1 DEF CmdInv, CmdApart
<1>9. Cardinality(in_use') < bar'.aqa
  <2>1. in_use' = in_use \union {c}
    BY <1>1 DEF in_use
  <2>2. Cardinality(in_use') = Cardinality(in_use) + 1
    BY <1>1, <2>1, InUseFinite, FS_AddElement
  <2> QED
    BY <1>1, <2>2, InUseFinite, Slots
<1> QED
  BY <1>1, <1>2, <1>7, <1>8, <1>9 DEF CmdInv, device, tables

\* What taking a completion does.
LEMMA TakeFacts ==
  ASSUME IInv, Take
  PROVE  \E x \in Cid :
    /\ hpc = "up" /\ hpc' = "up" /\ x = cq_ring[cq_head_h].cid /\ cmd[x].state = "answered"
    /\ cq_head_h \in fresh_entries /\ bar.aqa \in Depth
    /\ cmd'[x] = no_cmd /\ \A d \in Cid : d # x => cmd'[d] = cmd[d]
    /\ cq_head_h' = after(cq_head_h, bar.aqa)
    /\ cq_phase_h' = IF cq_head_h' = 0 THEN 1 - cq_phase_h ELSE cq_phase_h
    /\ granted' = IF cmd[x].op = "set_queues" THEN cq_ring[cq_head_h].result ELSE granted
    /\ \A q \in Qid : ~(cmd[x].op \in QueueCmd /\ cmd[x].q = q) => hq'[q] = hq[q]
    /\ \A q \in Qid : cmd[x].q = q =>
         /\ cmd[x].op = "create_cq" => hq'[q] = "cq"
         /\ cmd[x].op = "create_sq" => hq'[q] = "pair"
         /\ cmd[x].op = "delete_sq" => hq'[q] = "drain"
         /\ cmd[x].op = "delete_cq" => hq'[q] = "none"
    /\ \A q \in Qid : cq_pos'[q] = IF hq[q] = "none" THEN 0 ELSE cq_pos[q]
    /\ UNCHANGED <<sq_tail, io, shared, device>>
<1>1. hpc = "up" /\ bar.aqa \in Depth /\ cq_head_h \in 0 .. bar.aqa - 1
  BY DEF Take, IInv, RegInv, AddrInv, CqInv
<1>2. cq_head_h \in fresh_entries
  BY <1>1, FreshIsNew DEF Take, IInv
<1>3. PICK x \in Cid : x = cq_ring[cq_head_h].cid /\ cmd[x].state = "answered"
  BY <1>1, <1>2 DEF IInv, CqInv
<1>4. cmd'[x] = no_cmd /\ \A d \in Cid : d # x => cmd'[d] = cmd[d]
  BY <1>3 DEF Take, IInv, TypeOK
<1>5. cq_head_h' = after(cq_head_h, bar.aqa)
  BY <1>1, AfterMod, Slots DEF Take
<1>6. \A q \in Qid : cmd[x].q = q => cmd[x].op \in QueueOp
  <2>1. cmd[x].op \in Op \union QueueOp /\ (cmd[x].op \in Op => cmd[x].q = 0)
    BY <1>3 DEF IInv, CmdInv, CmdShape
  <2> QED
    BY <2>1 DEF Qid
<1>7. hq' = [q \in Qid |-> IF cmd[x].q # q \/ cmd[x].op = "set_queues" THEN hq[q]
                 ELSE CASE cmd[x].op = "create_cq" -> "cq"
                        [] cmd[x].op = "create_sq" -> "pair"
                        [] cmd[x].op = "delete_sq" -> "drain"
                        [] cmd[x].op = "delete_cq" -> "none"]
  BY <1>3 DEF Take, hq_after
<1>8. \A q \in Qid : ~(cmd[x].op \in QueueCmd /\ cmd[x].q = q) => hq'[q] = hq[q]
  BY <1>6, <1>7, Opcodes
<1>9. \A q \in Qid : cmd[x].q = q =>
         /\ cmd[x].op = "create_cq" => hq'[q] = "cq"
         /\ cmd[x].op = "create_sq" => hq'[q] = "pair"
         /\ cmd[x].op = "delete_sq" => hq'[q] = "drain"
         /\ cmd[x].op = "delete_cq" => hq'[q] = "none"
  BY <1>7
<1> QED
  BY <1>1, <1>2, <1>3, <1>4, <1>5, <1>8, <1>9 DEF Take

\* The driver's picture of a queue changes with the only command of the queue.
LEMMA CmdTake ==
  ASSUME IInv, Take
  PROVE  CmdInv'
<1>1. PICK x \in Cid :
    /\ hpc = "up" /\ hpc' = "up" /\ x = cq_ring[cq_head_h].cid /\ cmd[x].state = "answered"
    /\ cq_head_h \in fresh_entries /\ bar.aqa \in Depth
    /\ cmd'[x] = no_cmd /\ \A d \in Cid : d # x => cmd'[d] = cmd[d]
    /\ granted' = IF cmd[x].op = "set_queues" THEN cq_ring[cq_head_h].result ELSE granted
    /\ \A q \in Qid : ~(cmd[x].op \in QueueCmd /\ cmd[x].q = q) => hq'[q] = hq[q]
    /\ UNCHANGED <<io, shared, device>>
  BY TakeFacts
<1>2. CmdInv /\ TypeOK /\ granted \in Nat
  BY ControllerAssumption DEF IInv, TypeOK
<1>3. cmd[x].op = "set_queues" => cq_ring[cq_head_h].result = nr_sq /\ nr_cq = nr_sq /\ nr_sq > 0
  BY <1>1 DEF IInv, CqInv
<1>4. ASSUME NEW d \in Cid, d # x
      PROVE  /\ cmd[x].op = "set_queues" => cmd[d].op \notin QueueOp
             /\ cmd[d].op \in QueueCmd =>
                  cmd[d].q \in 1 .. granted' /\ fits(cmd[d].op, cmd[d].q)'
  <2>1. ASSUME cmd[x].op = "set_queues" PROVE cmd[d].op \notin QueueOp
    <3>1. granted = 0 /\ cmd[d].op # "set_queues"
      BY <1>2, <1>4, <2>1 DEF CmdInv, CmdShape, CmdApart
    <3>2. cmd[d].op \notin QueueCmd
      BY <1>2, <3>1 DEF CmdInv, CmdShape
    <3> QED
      BY <3>1, <3>2, Opcodes
  <2>2. ASSUME cmd[d].op \in QueueCmd
        PROVE  cmd[d].q \in 1 .. granted' /\ fits(cmd[d].op, cmd[d].q)'
    <3>1. cmd[x].op # "set_queues" /\ granted' = granted
      BY <1>1, <2>1, <2>2, Opcodes
    <3>2. cmd[d].q \in Qid /\ cmd[d].q \in 1 .. granted /\ fits(cmd[d].op, cmd[d].q)
      BY <1>2, <2>2, ControllerAssumption DEF CmdInv, CmdShape, Qid, TypeOK
    <3>3. ~(cmd[x].op \in QueueCmd /\ cmd[x].q = cmd[d].q)
      BY <1>2, <1>4, <2>2 DEF CmdInv, CmdApart
    <3>4. hq'[cmd[d].q] = hq[cmd[d].q] /\ io' = io /\ cmd'[d] = cmd[d]
      BY <1>1, <1>4, <3>2, <3>3
    <3> QED
      BY <3>1, <3>2, <3>4 DEF fits
  <2> QED
    BY <2>1, <2>2
<1>5. no_cmd.state = "idle" /\ no_cmd.op = "none"
  BY DEF no_cmd
<1>6. CmdShape'
  <2> SUFFICES ASSUME NEW d \in Cid
               PROVE  /\ cmd'[d].state = "idle" => cmd'[d] = no_cmd
                      /\ cmd'[d].state # "idle" => cmd'[d].op \in Op \union QueueOp
                      /\ cmd'[d].state = "dropped" => cmd'[d].op = "abort"
                      /\ cmd'[d].op \in Op => cmd'[d].q = 0
                      /\ cmd'[d].op = "set_queues" => granted' = 0 /\ cmd'[d].q > 0
                      /\ cmd'[d].op \in QueueCmd =>
                           cmd'[d].q \in 1 .. granted' /\ fits(cmd[d].op, cmd[d].q)'
    BY <1>1, <1>5, Opcodes DEF CmdShape
  <2>1. CASE d = x
    BY <1>1, <1>5, <2>1, Opcodes
  <2>2. CASE d # x
    BY <1>1, <1>2, <1>4, <2>2, Opcodes DEF CmdInv, CmdShape
  <2> QED
    BY <2>1, <2>2
<1>7. CmdApart'
  BY <1>1, <1>2, <1>5, Opcodes DEF CmdInv, CmdApart
<1>8. Cardinality(in_use') < bar'.aqa
  <2>1. in_use' \subseteq in_use
    BY <1>1, <1>5 DEF in_use
  <2>2. Cardinality(in_use') <= Cardinality(in_use) /\ Cardinality(in_use') \in Nat
    BY <2>1, InUseFinite, FS_Subset, FS_CardinalityType
  <2> QED
    BY <1>1, <1>2, <2>2, InUseFinite, Slots DEF CmdInv, shared
<1>9. granted' > 0 => nr_sq' = granted' /\ nr_cq' = granted'
  BY <1>1, <1>2, <1>3 DEF CmdInv, device, tables
<1> QED
  BY <1>6, <1>7, <1>8, <1>9 DEF CmdInv

\* Carrying out a command leaves it in use; the number of queues changes only
\* while none has been granted.
LEMMA CmdAdminReq ==
  ASSUME IInv, AdminReq
  PROVE  CmdInv'
<1>1. PICK c \in Cid : c = sq_ring[todo.curr]
  BY DEF AdminReq
<1>2. /\ hpc = "up" /\ UNCHANGED <<host_rest, irq, old_bar>>
      /\ \A d \in Cid : /\ cmd'[d].op = cmd[d].op /\ cmd'[d].q = cmd[d].q
                        /\ d # c => cmd'[d].state = cmd[d].state
      /\ \/ cmd'[c].state = "answered"
         \/ cmd'[c].state = "dropped" /\ cmd[c].op = "abort"
      /\ cmd' \in [Cid -> Cmd]
  BY <1>1, AdminReqEffect
<1>3. cmd[c].state = "sent"
  BY <1>1, AdminReqSent
<1>4. CmdInv /\ TypeOK
  BY DEF IInv
<1>5. UNCHANGED <<granted, hq, io, bar, hpc>>
  BY <1>2 DEF host_rest, host_io
<1>6. CmdShape'
  <2> SUFFICES ASSUME NEW d \in Cid
               PROVE  /\ cmd'[d].state = "idle" => cmd'[d] = no_cmd
                      /\ cmd'[d].state # "idle" => cmd'[d].op \in Op \union QueueOp
                      /\ cmd'[d].state = "dropped" => cmd'[d].op = "abort"
                      /\ cmd'[d].op \in Op => cmd'[d].q = 0
                      /\ cmd'[d].op = "set_queues" => granted' = 0 /\ cmd'[d].q > 0
                      /\ cmd'[d].op \in QueueCmd =>
                           cmd'[d].q \in 1 .. granted' /\ fits(cmd[d].op, cmd[d].q)
    BY <1>2, <1>5 DEF CmdShape, fits
  <2>1. cmd'[d].state = "idle" => cmd'[d] = no_cmd
    <3>1. SUFFICES ASSUME cmd'[d].state = "idle" PROVE cmd'[d] = no_cmd
      OBVIOUS
    <3>2. d # c /\ cmd[d].state = "idle"
      BY <1>2, <3>1
    <3>3. cmd[d] = no_cmd
      BY <1>4, <3>2 DEF CmdInv, CmdShape
    <3> QED
      BY <1>2, <1>4, <3>1, <3>2, <3>3 DEF TypeOK, Cmd, no_cmd
  <2>2. CASE d = c
    BY <1>2, <1>3, <1>4, <1>5, <2>1, <2>2 DEF CmdInv, CmdShape
  <2>3. CASE d # c
    BY <1>2, <1>4, <1>5, <2>1, <2>3 DEF CmdInv, CmdShape
  <2> QED
    BY <2>2, <2>3
<1>7. CmdApart'
  BY <1>2, <1>4 DEF CmdInv, CmdApart
<1>8. in_use' = in_use
  BY <1>2, <1>3 DEF in_use
<1>9. granted' > 0 => nr_sq' = granted' /\ nr_cq' = granted'
  <2>1. CASE cmd[c].op = "set_queues"
    BY <1>4, <1>5, <2>1 DEF CmdInv, CmdShape
  <2>2. CASE cmd[c].op # "set_queues"
    <3>1. UNCHANGED <<nr_sq, nr_cq>>
      BY <1>1, <2>2 DEF AdminReq, CreateCq, DeleteCq, CreateSq, DeleteSq, SetQueues, Query,
                        Abort, tables
    <3> QED
      BY <1>4, <1>5, <3>1 DEF CmdInv
  <2> QED
    BY <2>1, <2>2
<1> QED
  BY <1>4, <1>5, <1>6, <1>7, <1>8, <1>9 DEF CmdInv

\* Every step keeps what is known of the commands.
LEMMA NextCmdInv == ASSUME IInv, TypeOK', [Next]_vars PROVE CmdInv'
<1>0. TypeOK /\ RegInv /\ BindInv /\ QueueInv /\ CmdInv
  BY DEF IInv
<1> USE DEF host, host_rings, host_io, shared, rings, device, tables
<1>1. CASE UNCHANGED vars
  BY <1>0, <1>1, CmdFrame DEF vars
<1>2. CASE Bind
  <2>1. /\ hpc \notin {"up", "wait_shst"} /\ UNCHANGED <<cmd, granted, nr_sq, nr_cq>>
        /\ hpc' = "up" => hpc = "wait_rdy" /\ bar' = bar
    BY <1>2 DEF Bind, WriteDisable, WriteAqa, WriteAsq, WriteAcq, WriteEnable, SeeReady,
                unchanged_but_bar
  <2>2. hpc' = "up" => bar.aqa' \in Depth
    BY <1>0, <2>1 DEF RegInv, AddrInv
  <2>3. cmd' = [c \in Cid |-> no_cmd] /\ granted' \in Nat
    BY <1>0, <2>1 DEF BindInv
  <2> QED
    BY <1>0, <2>1, <2>2, <2>3, CmdNone
<1>3. CASE WriteShutdown
  <2>1. hpc' # "up" /\ UNCHANGED <<cmd, granted, hq, io, nr_sq, nr_cq>>
    BY <1>3 DEF WriteShutdown, unchanged_but_bar
  <2> QED
    BY <1>0, <2>1, CmdFrame
<1>4. CASE SeeShutdown
  <2>1. hpc' # "up" /\ granted' = 0 /\ granted' \in Nat /\ cmd' = [c \in Cid |-> no_cmd]
    BY <1>4 DEF SeeShutdown
  <2> QED
    BY <1>0, <2>1, CmdNone
<1>5. CASE HandlerReturns
  BY <1>0, <1>5, CmdFrame DEF HandlerReturns
<1>6. ASSUME NEW q \in Qid, SubmitIo(q) PROVE CmdInv'
  <2>1. /\ ~pending(q) /\ UNCHANGED <<cmd, granted, hq, nr_sq, nr_cq, hpc, bar>>
        /\ \A r \in Qid : r # q => io'[r] = io[r]
    BY <1>0, <1>6 DEF SubmitIo, TypeOK
  <2> QED
    BY <1>0, <2>1, CmdFrame
<1>7. ASSUME NEW q \in Qid, TakeIo(q) \/ WorkerCopy(q) \/ WorkerPost(q) PROVE CmdInv'
  <2>1. /\ UNCHANGED <<cmd, granted, hq, nr_sq, nr_cq, hpc, bar>>
        /\ \A r \in Qid : r # q => io'[r] = io[r]
        /\ io[q] \in {"dispatched", "copied"} \/ (io[q] = "posted" /\ io'[q] = "idle")
    BY <1>0, <1>7 DEF TakeIo, WorkerCopy, WorkerPost, TypeOK
  <2> QED
    BY <1>0, <2>1, CmdFrame
<1>8. CASE CheckAqa \/ CheckAsq \/ CheckAcq \/ CheckCc \/ SeeAdminDb \/ AdminDone \/ ProcIoCq
  <2>1. UNCHANGED <<cmd, granted, hq, nr_sq, nr_cq, hpc, bar, io>>
    BY <1>8 DEF CheckAqa, CheckAsq, CheckAcq, CheckCc, rest_of_bars, SeeAdminDb, AdminDone,
                ProcIoCq
  <2> QED
    BY <1>0, <2>1, CmdFrame
<1>9. ASSUME NEW accepted \in SUBSET moved, ProcIoSq(accepted) PROVE CmdInv'
  <2>1. /\ UNCHANGED <<cmd, granted, hq, nr_sq, nr_cq, hpc, bar>>
        /\ \A r \in Qid : r \in accepted \/ io'[r] = io[r]
    BY <1>0, <1>9 DEF ProcIoSq, TypeOK
  <2>2. \A r \in accepted : io[r] = "rung"
    BY <1>0, MovedIsRung
  <2> QED
    BY <1>0, <2>1, <2>2, CmdFrame
<1> QED
  BY <1>1, <1>2, <1>3, <1>4, <1>5, <1>6, <1>7, <1>8, <1>9, CmdSend, CmdTake, CmdAdminReq
     DEF Next, Dispatcher, Worker, Handler

-----------------------------------------------------------------------------
(* The admin submission ring.                                              *)

\* Steps that leave the ring and the waiting commands alone.
LEMMA SqFrame ==
  ASSUME SqInv,
         hpc' = "up" =>
           /\ hpc = "up" /\ UNCHANGED <<sq_tail, bar, sq_ring>>
           /\ position' = position /\ dbs'[0] = dbs[0]
           /\ dpc' = "admin" => dpc = "admin" /\ todo' = todo
           /\ \A c \in Cid : cmd'[c].state = "sent" <=> cmd[c].state = "sent"
  PROVE  SqInv'
<1> SUFFICES ASSUME hpc' = "up" PROVE SqInv'
  BY DEF SqInv
<1>1. unprocessed = slots(position, dbs[0], bar.aqa)
  BY DEF unprocessed, position
<1>2. unprocessed' = slots(position', dbs'[0], bar'.aqa)
  BY DEF unprocessed, position
<1>3. unprocessed' = unprocessed
  BY <1>1, <1>2
<1> QED
  BY <1>3 DEF SqInv

\* In a binding the comparisons find nothing.
LEMMA ChecksUp ==
  ASSUME IInv, hpc = "up", CheckAqa \/ CheckAsq \/ CheckAcq \/ CheckCc
  PROVE  /\ UNCHANGED <<old_bar, admin_q, dbs, old_dbs, csts>>
         /\ dpc # "admin" /\ dpc' # "admin" /\ dpc # "iocq" /\ dpc' # "iocq"
<1>1. old_bar = bar
  BY DEF IInv, RegInv, CcInv
<1> QED
  BY <1>1 DEF CheckAqa, CheckAsq, CheckAcq, CheckCc

\* A new command occupies the slot at the tail, which is free.
LEMMA SqSend ==
  ASSUME IInv, NEW op \in Op \union QueueOp, NEW q \in 0 .. NR_MAX_IO_QUEUE + 1, Send(op, q)
  PROVE  SqInv'
<1>1. PICK c \in Cid :
    /\ hpc = "up" /\ c \notin in_use /\ cmd[c] = no_cmd
    /\ cmd'[c].state = "sent"
    /\ \A d \in Cid : d # c => cmd'[d] = cmd[d]
    /\ sq_ring' = [sq_ring EXCEPT ![sq_tail] = c]
    /\ sq_tail' = after(sq_tail, bar.aqa) /\ dbs' = [dbs EXCEPT ![0] = sq_tail']
    /\ bar.aqa \in Depth /\ Cardinality(in_use) < bar.aqa - 1
    /\ UNCHANGED <<hpc, bar, device>>
  BY SendFacts
<1>2. SqInv /\ TypeOK
  BY DEF IInv
<1>3. PICK n \in Nat \ {0} : n = bar.aqa
  BY <1>1, Slots
<1>4. PICK p \in 0 .. n - 1 : p = position
  BY <1>1, <1>3, UnprocessedSlots
<1>5. PICK b \in 0 .. n - 1 : b = dbs[0] /\ b = sq_tail /\ b \in Slot
  BY <1>1, <1>2, <1>3, UnprocessedSlots DEF SqInv, TypeOK
<1>6. unprocessed = slots(p, b, n)
  BY <1>1, <1>3, <1>4, <1>5, UnprocessedSlots
<1>7. after(b, n) # p
  <2>1. \A i \in slots(p, b, n) : sq_ring[i] \in in_use
    BY <1>1, <1>2, <1>6 DEF SqInv, in_use
  <2>2. \A i, j \in slots(p, b, n) : sq_ring[i] = sq_ring[j] => i = j
    BY <1>1, <1>2, <1>6 DEF SqInv
  <2>3. Cardinality(in_use) < n - 1
    BY <1>1, <1>3
  <2> QED
    BY <2>1, <2>2, <2>3, InUseFinite, Room, Zenon
<1>8. after(b, n) \in 0 .. n - 1
  BY AfterMod
<1>9. position' = p /\ dbs'[0] = after(b, n) /\ sq_tail' = after(b, n) /\ bar'.aqa = n
      /\ todo' = todo /\ dpc' = dpc
  BY <1>1, <1>2, <1>3, <1>4, <1>5, Doorbells DEF position, device, TypeOK
<1>10. unprocessed' = slots(p, after(b, n), n)
  BY <1>9 DEF unprocessed, position
<1>11. unprocessed' = unprocessed \union {b} /\ b \notin unprocessed
  BY <1>6, <1>7, <1>10, SlotsGrow
<1>12. sq_ring'[b] = c /\ \A i \in unprocessed : sq_ring'[i] = sq_ring[i]
  <2>1. unprocessed \subseteq Slot
    BY <1>1, UnprocessedSlots, Slots
  <2> QED
    BY <1>1, <1>2, <1>5, <1>11, <2>1 DEF TypeOK
<1>13. \A i \in unprocessed : sq_ring[i] \in Cid /\ sq_ring[i] # c /\ cmd[sq_ring[i]].state = "sent"
  BY <1>1, <1>2 DEF SqInv, in_use
<1>14. \A i \in unprocessed' :
         /\ sq_ring'[i] \in Cid
         /\ cmd'[sq_ring'[i]].state = "sent"
         /\ \A j \in unprocessed' : sq_ring'[i] = sq_ring'[j] => i = j
  <2>1. \A i, j \in unprocessed : sq_ring[i] = sq_ring[j] => i = j
    BY <1>1, <1>2 DEF SqInv
  <2> QED
    BY <1>1, <1>11, <1>12, <1>13, <2>1
<1>15. \A d \in Cid : cmd'[d].state = "sent" => \E i \in unprocessed' : sq_ring'[i] = d
  <2>1. \A d \in Cid : cmd[d].state = "sent" => \E i \in unprocessed : sq_ring[i] = d
    BY <1>1, <1>2 DEF SqInv
  <2> QED
    BY <1>1, <1>11, <1>12, <2>1
<1>16. dpc' = "admin" => /\ todo'.new_db \in unprocessed' \union {sq_tail'}
                         /\ todo'.num = distance(todo'.new_db, todo'.curr, bar'.aqa)
  <2>1. dpc = "admin" => /\ todo.new_db \in unprocessed \union {b}
                         /\ todo.num = distance(todo.new_db, todo.curr, n)
    BY <1>1, <1>2, <1>3, <1>5 DEF SqInv
  <2> QED
    BY <1>9, <1>11, <2>1
<1> QED
  BY <1>8, <1>9, <1>14, <1>15, <1>16 DEF SqInv

\* The dispatcher leaves the slot it was at.
LEMMA SqAdminReq ==
  ASSUME IInv, AdminReq
  PROVE  SqInv'
<1>1. PICK c \in Cid : c = sq_ring[todo.curr]
  BY DEF AdminReq
<1>2. /\ hpc = "up" /\ dpc = "admin" /\ dpc' = "admin" /\ todo.num > 0
      /\ UNCHANGED <<host_rest, irq, old_bar>>
      /\ todo'.new_db = todo.new_db /\ todo'.num = todo.num - 1
      /\ todo'.curr = after(todo.curr, bar.aqa)
      /\ todo.curr \in 0 .. bar.aqa - 1 /\ bar.aqa \in Depth
      /\ dbs'[0] = dbs[0] /\ old_dbs'[0] = old_dbs[0]
      /\ \A d \in Cid : d # c => cmd'[d].state = cmd[d].state
      /\ cmd'[c].state # "sent"
  BY <1>1, AdminReqEffect
<1>3. todo.curr \in unprocessed /\ todo.curr # dbs[0] /\ todo.new_db # todo.curr
  BY AdminReqSent
<1>4. SqInv /\ TypeOK
  BY DEF IInv
<1>5. PICK n \in Nat \ {0} : n = bar.aqa
  BY <1>2, Slots
<1>6. PICK p \in 0 .. n - 1 : p = todo.curr
  BY <1>2, <1>5
<1>7. PICK b \in 0 .. n - 1 : b = dbs[0] /\ b = sq_tail
  BY <1>2, <1>4, <1>5, UnprocessedSlots DEF SqInv
<1>8. unprocessed = slots(p, b, n)
  BY <1>2, <1>5, <1>6, <1>7 DEF unprocessed
<1>9. unprocessed' = slots(after(p, n), b, n)
  BY <1>2, <1>5, <1>6, <1>7 DEF unprocessed, host_rest
<1>10. unprocessed' = unprocessed \ {p}
  BY <1>3, <1>6, <1>7, <1>8, <1>9, SlotsShrink
<1>11. position' = after(p, n) /\ after(p, n) \in 0 .. n - 1
       /\ UNCHANGED <<sq_tail, sq_ring, bar, hpc>>
  BY <1>2, <1>5, <1>6, AfterMod DEF position, host_rest, host_rings
<1>12. PICK t \in 0 .. n - 1 : t = todo.new_db
  <2>1. todo.new_db \in unprocessed \union {b}
    BY <1>2, <1>4, <1>7 DEF SqInv
  <2> QED
    BY <1>2, <1>5, <1>7, <2>1, UnprocessedSlots
<1>13. todo'.num = distance(t, after(p, n), n)
  <2>1. todo.num = distance(t, p, n) /\ t # p
    BY <1>2, <1>3, <1>4, <1>5, <1>6, <1>12 DEF SqInv
  <2>2. distance(t, after(p, n), n) = distance(t, p, n) - 1
    BY <2>1 DEF distance, after
  <2> QED
    BY <1>2, <2>1, <2>2
<1>14. todo'.new_db \in unprocessed' \union {sq_tail'}
  BY <1>2, <1>3, <1>4, <1>6, <1>10, <1>11 DEF SqInv
<1>15. \A i \in unprocessed' :
         /\ sq_ring'[i] \in Cid
         /\ cmd'[sq_ring'[i]].state = "sent"
         /\ \A j \in unprocessed' : sq_ring'[i] = sq_ring'[j] => i = j
  <2>1. \A i \in unprocessed' : sq_ring[i] \in Cid /\ sq_ring[i] # c /\ cmd[sq_ring[i]].state = "sent"
    BY <1>1, <1>2, <1>3, <1>4, <1>6, <1>10 DEF SqInv
  <2>2. \A i, j \in unprocessed' : sq_ring[i] = sq_ring[j] => i = j
    BY <1>2, <1>4, <1>10 DEF SqInv
  <2> QED
    BY <1>2, <1>11, <2>1, <2>2
<1>16. \A d \in Cid : cmd'[d].state = "sent" => \E i \in unprocessed' : sq_ring'[i] = d
  <2>1. \A d \in Cid : cmd[d].state = "sent" => \E i \in unprocessed : sq_ring[i] = d
    BY <1>2, <1>4 DEF SqInv
  <2> QED
    BY <1>1, <1>2, <1>6, <1>10, <1>11, <2>1
<1>17. sq_tail' = dbs'[0] /\ sq_tail' \in 0 .. bar'.aqa - 1 /\ position' \in 0 .. bar'.aqa - 1
  BY <1>2, <1>5, <1>7, <1>11
<1>18. todo'.num = distance(todo'.new_db, todo'.curr, bar'.aqa)
  BY <1>2, <1>5, <1>6, <1>11, <1>12, <1>13
<1> QED
  BY <1>14, <1>15, <1>16, <1>17, <1>18 DEF SqInv

\* A binding starts with an empty ring.
LEMMA SqStart ==
  ASSUME IInv, SeeReady
  PROVE  SqInv'
<1>1. /\ hpc = "wait_rdy" /\ csts.rdy = 1 /\ hpc' = "up"
      /\ UNCHANGED <<cmd, sq_tail, bar, dbs, old_dbs, dpc, todo>>
  BY DEF SeeReady, host_rings, shared, device
<1>2. bar.aqa \in Depth /\ dbs[0] = 0 /\ old_dbs[0] = 0 /\ dpc # "admin"
  BY <1>1 DEF IInv, RegInv, AddrInv, SeenInv, CcInv, QuietInv
<1>3. sq_tail = 0 /\ \A c \in Cid : cmd[c].state = "idle"
  BY <1>1 DEF IInv, BindInv, no_cmd
<1>4. 0 \in 0 .. bar.aqa - 1 /\ bar.aqa \in Nat \ {0}
  BY <1>2, Slots
<1>5. slots(0, 0, bar.aqa) = {}
  BY <1>4, SlotsEmpty
<1>6. unprocessed' = {} /\ position' = 0
  BY <1>1, <1>2, <1>5 DEF unprocessed, position
<1> QED
  BY <1>1, <1>2, <1>3, <1>4, <1>6 DEF SqInv

\* Every step keeps what is known of the admin submission ring.
LEMMA NextSq == ASSUME IInv, [Next]_vars PROVE SqInv'
<1>0. TypeOK /\ RegInv /\ SqInv
  BY DEF IInv
<1> USE DEF host, host_rings, host_io, shared, rings, device, tables
<1>1. ASSUME UNCHANGED <<hpc, sq_tail, bar, sq_ring, dpc, todo>>, dbs'[0] = dbs[0],
             old_dbs'[0] = old_dbs[0],
             \A c \in Cid : cmd'[c].state = "sent" <=> cmd[c].state = "sent"
      PROVE  SqInv'
  BY <1>0, <1>1, SqFrame DEF position
<1>2. CASE Bind
  <2>1. CASE SeeReady
    BY <2>1, SqStart
  <2>2. CASE ~SeeReady
    BY <1>2, <2>2 DEF Bind, WriteDisable, WriteAqa, WriteAsq, WriteAcq, WriteEnable, SqInv
  <2> QED
    BY <2>1, <2>2
<1>3. CASE WriteShutdown \/ SeeShutdown
  BY <1>3 DEF WriteShutdown, SeeShutdown, SqInv
<1>4. CASE Take
  <2>1. PICK x \in Cid : /\ cmd[x].state = "answered" /\ cmd'[x] = no_cmd
                         /\ \A d \in Cid : d # x => cmd'[d] = cmd[d]
    BY <1>4, TakeFacts
  <2>2. \A c \in Cid : cmd'[c].state = "sent" <=> cmd[c].state = "sent"
    BY <2>1 DEF no_cmd
  <2> QED
    BY <1>1, <1>4, <2>2 DEF Take
<1>5. CASE HandlerReturns
  BY <1>1, <1>5 DEF HandlerReturns
<1>6. CASE \E q \in Qid : SubmitIo(q) \/ TakeIo(q)
  BY <1>0, <1>1, <1>6, AdminDbKept DEF SubmitIo, TakeIo
<1>7. CASE Worker
  BY <1>1, <1>7 DEF Worker, WorkerCopy, WorkerPost
<1>8. CASE CheckAqa \/ CheckAsq \/ CheckAcq \/ CheckCc
  <2>1. UNCHANGED <<hpc, sq_tail, bar, sq_ring, cmd>>
    BY <1>8 DEF CheckAqa, CheckAsq, CheckAcq, CheckCc, rest_of_bars
  <2>2. hpc = "up" => UNCHANGED <<dbs, old_dbs>> /\ dpc # "admin" /\ dpc' # "admin"
    BY <1>8, ChecksUp
  <2> QED
    BY <1>0, <2>1, <2>2, SqFrame DEF position
<1>9. CASE SeeAdminDb
  <2>1. /\ dpc = "db" /\ UNCHANGED <<hpc, sq_tail, bar, sq_ring, cmd, dbs, old_dbs>>
    BY <1>9 DEF SeeAdminDb
  <2>2. CASE dpc' = "iosq"
    BY <1>0, <2>1, <2>2, SqFrame DEF position
  <2>3. CASE dpc' = "admin" /\ hpc = "up"
    <3>1. todo' = [curr |-> old_dbs[0], new_db |-> dbs[0],
                   num |-> distance(dbs[0], old_dbs[0], admin_q.sq_depth)]
      BY <1>9, <2>3 DEF SeeAdminDb
    <3>2. admin_q.sq_depth = bar.aqa
      BY <1>0, <2>3 DEF RegInv, SeenInv, noticed
    <3>3. position' = position /\ unprocessed' = unprocessed
      BY <2>1, <2>3, <3>1 DEF position, unprocessed
    <3> QED
      BY <1>0, <2>1, <2>3, <3>1, <3>2, <3>3 DEF SqInv
  <2> QED
    BY <1>9, <2>1, <2>2, <2>3 DEF SeeAdminDb, SqInv
<1>10. CASE AdminDone
  <2>1. /\ dpc = "admin" /\ dpc' = "iosq" /\ todo.num = 0 /\ old_dbs'[0] = todo.new_db
        /\ UNCHANGED <<hpc, sq_tail, bar, sq_ring, cmd, dbs>>
    BY <1>0, <1>10, Doorbells DEF AdminDone, TypeOK
  <2>2. ASSUME hpc = "up" PROVE position' = position
    <3>1. /\ todo.num = distance(todo.new_db, todo.curr, bar.aqa) /\ position = todo.curr
          /\ todo.new_db \in unprocessed \union {dbs[0]}
      BY <1>0, <2>1, <2>2 DEF SqInv, position
    <3>2. /\ todo.new_db \in 0 .. bar.aqa - 1 /\ todo.curr \in 0 .. bar.aqa - 1
          /\ bar.aqa \in Nat
      BY <2>2, <3>1, UnprocessedSlots
    <3>3. todo.new_db = todo.curr
      BY <2>1, <3>1, <3>2 DEF distance
    <3> QED
      BY <2>1, <3>1, <3>3 DEF position
  <2> QED
    BY <1>0, <2>1, <2>2, SqFrame
<1>11. CASE (\E accepted \in SUBSET moved : ProcIoSq(accepted)) \/ ProcIoCq
  <2>1. dbs'[0] = dbs[0] /\ old_dbs'[0] = old_dbs[0]
    BY <1>0, <1>11, AdminDbKept
  <2>2. dpc # "admin" /\ dpc' # "admin" /\ UNCHANGED <<hpc, sq_tail, bar, sq_ring, cmd>>
    BY <1>11 DEF ProcIoSq, ProcIoCq
  <2> QED
    BY <1>0, <2>1, <2>2, SqFrame DEF position
<1>12. CASE UNCHANGED vars
  BY <1>1, <1>12 DEF vars
<1> QED
  BY <1>2, <1>3, <1>4, <1>5, <1>6, <1>7, <1>8, <1>9, <1>10, <1>11, <1>12, SqSend, SqAdminReq
     DEF Next, Dispatcher, Handler

-----------------------------------------------------------------------------
(* The admin completion ring.                                              *)

\* Steps that leave the ring and the answered commands alone.
LEMMA CqFrame ==
  ASSUME CqInv,
         hpc' = "up" =>
           /\ hpc = "up" /\ UNCHANGED <<cq_head_h, cq_phase_h, bar, cq_ring>>
           /\ admin_q'.cq_head = admin_q.cq_head /\ admin_q'.phase = admin_q.phase
           /\ \A c \in Cid : cmd'[c].state = "answered" <=> cmd[c].state = "answered"
           /\ \A c \in Cid : cmd[c].state = "answered" => cmd'[c].op = cmd[c].op
           /\ UNCHANGED <<nr_sq, nr_cq>>
           /\ (irq \/ dpc = "admin") => (irq' \/ dpc' = "admin") \/ fresh_entries = {}
  PROVE  CqInv'
<1> SUFFICES ASSUME hpc' = "up" PROVE CqInv'
  BY DEF CqInv
<1>1. fresh_entries' = fresh_entries /\ \A i : new_phase(i)' = new_phase(i)
  BY DEF fresh_entries, new_phase
<1>2. \A i \in fresh_entries' :
         /\ cq_ring'[i].cid \in Cid
         /\ cmd'[cq_ring'[i].cid].state = "answered"
         /\ \A j \in fresh_entries' : cq_ring'[i].cid = cq_ring'[j].cid => i = j
         /\ cmd'[cq_ring'[i].cid].op = "set_queues" =>
              cq_ring'[i].result = nr_sq' /\ nr_cq' = nr_sq' /\ nr_sq' > 0
  BY <1>1 DEF CqInv
<1>3. \A c \in Cid : cmd'[c].state = "answered" => \E i \in fresh_entries' : cq_ring'[i].cid = c
  BY <1>1 DEF CqInv
<1>4. \A i \in 0 .. bar'.aqa - 1 :
         cq_ring'[i].phase = IF i \in fresh_entries' THEN new_phase(i)' ELSE 1 - new_phase(i)'
  BY <1>1 DEF CqInv
<1> QED
  BY <1>1, <1>2, <1>3, <1>4 DEF CqInv, new_phase

\* A binding starts with an empty ring of zeroed entries.
LEMMA CqStart ==
  ASSUME IInv, SeeReady
  PROVE  CqInv'
<1>1. /\ hpc = "wait_rdy" /\ csts.rdy = 1 /\ hpc' = "up"
      /\ UNCHANGED <<cmd, cq_head_h, cq_phase_h, cq_ring, bar, admin_q, dpc, irq>>
  BY DEF SeeReady, host_rings, shared, rings, device
<1>2. bar.aqa \in Depth /\ admin_q.cq_head = 0 /\ admin_q.phase = 1
  BY <1>1 DEF IInv, RegInv, AddrInv, SeenInv, CcInv
<1>3. cq_head_h = 0 /\ cq_phase_h = 1 /\ cq_ring = empty_cq /\ \A c \in Cid : cmd[c].state = "idle"
  BY <1>1 DEF IInv, BindInv, no_cmd
<1>4. 0 \in 0 .. bar.aqa - 1 /\ bar.aqa \in Nat \ {0} /\ 0 .. bar.aqa - 1 \subseteq Slot
  BY <1>2, Slots
<1>5. slots(0, 0, bar.aqa) = {}
  BY <1>4, SlotsEmpty
<1>6. fresh_entries' = {}
  BY <1>1, <1>2, <1>3, <1>5 DEF fresh_entries
<1>7. \A i \in 0 .. bar'.aqa - 1 : cq_ring'[i].phase = 0
  BY <1>1, <1>3, <1>4 DEF empty_cq, no_cqe
<1>8. \A i \in 0 .. bar'.aqa - 1 : new_phase(i)' = 1
  BY <1>1, <1>3, <1>4 DEF new_phase
<1>9. admin_q'.phase = (IF admin_q'.cq_head >= cq_head_h' THEN cq_phase_h' ELSE 1 - cq_phase_h')
  BY <1>1, <1>2, <1>3
<1> QED
  BY <1>1, <1>2, <1>3, <1>4, <1>6, <1>7, <1>8, <1>9 DEF CqInv, new_phase

\* An answer fills the slot at the device's position, which is free.
LEMMA CqAnswer ==
  ASSUME IInv, AdminReq, NEW c \in Cid, c = sq_ring[todo.curr],
         NEW res \in 0 .. NR_MAX_IO_QUEUE, make_cq_entry_results(c, res),
         cmd[c].op = "set_queues" => res = nr_sq' /\ nr_cq' = nr_sq' /\ nr_sq' > 0,
         cmd[c].op # "set_queues" => UNCHANGED <<nr_sq, nr_cq>>
  PROVE  CqInv'
<1>1. /\ hpc = "up" /\ dpc' = "admin" /\ UNCHANGED <<host_rest, irq, old_bar>>
  BY AdminReqEffect
<1>2. cmd[c].state = "sent"
  BY AdminReqSent
<1>3. TypeOK /\ CqInv /\ CmdInv
  BY DEF IInv
<1>4. UNCHANGED <<hpc, cq_head_h, cq_phase_h, bar>> /\ bar.aqa \in Depth
  BY <1>1 DEF host_rest, host_rings, IInv, RegInv, AddrInv
<1>5. PICK n \in Nat \ {0} : n = bar.aqa /\ 0 .. n - 1 \subseteq Slot
  BY <1>4, Slots
<1>6. PICK h \in 0 .. n - 1 : h = cq_head_h
  BY <1>1, <1>3, <1>5 DEF CqInv
<1>7. PICK e \in 0 .. n - 1 : e = admin_q.cq_head
  BY <1>1, <1>3, <1>5 DEF CqInv
<1>8. PICK ph \in Bit : ph = cq_phase_h
  BY <1>3 DEF TypeOK
<1>9. fresh_entries = slots(h, e, n)
  BY <1>5, <1>6, <1>7 DEF fresh_entries
<1>10. after(e, n) # h
  <2> DEFINE T == in_use \ {c}
             f == [i \in 0 .. n - 1 |-> cq_ring[i].cid]
  <2>1. c \in in_use /\ Cardinality(in_use) < n
    BY <1>1, <1>2, <1>3, <1>5 DEF in_use, CmdInv
  <2>2. IsFiniteSet(T) /\ Cardinality(T) = Cardinality(in_use) - 1
    BY <2>1, InUseFinite, FS_RemoveElement
  <2>3. Cardinality(T) < n - 1
    BY <2>1, <2>2, InUseFinite
  <2>4. \A i \in slots(h, e, n) : i \in 0 .. n - 1
    BY SlotsEmpty
  <2>5. \A i \in slots(h, e, n) : f[i] \in T
    BY <1>1, <1>2, <1>3, <1>9, <2>4 DEF CqInv, in_use
  <2>6. \A i, j \in slots(h, e, n) : f[i] = f[j] => i = j
    BY <1>1, <1>3, <1>9, <2>4 DEF CqInv
  <2> HIDE DEF T, f
  <2> QED
    BY <2>2, <2>3, <2>5, <2>6, Room, Zenon
<1>11. admin_q'.cq_head = after(e, n) /\ after(e, n) \in 0 .. n - 1
       /\ admin_q'.phase = IF e + 1 = n THEN 1 - admin_q.phase ELSE admin_q.phase
  BY <1>1, <1>5, <1>7, AnswerFacts, AfterMod
<1>12. fresh_entries' = slots(h, after(e, n), n)
  BY <1>4, <1>5, <1>6, <1>11 DEF fresh_entries
<1>13. fresh_entries' = fresh_entries \union {e} /\ e \notin fresh_entries
       /\ fresh_entries \subseteq 0 .. n - 1
  BY <1>9, <1>10, <1>12, SlotsGrow, SlotsEmpty
<1>14. /\ cq_ring'[e].cid = c /\ cq_ring'[e].phase = admin_q.phase /\ cq_ring'[e].result = res
       /\ \A i \in 0 .. n - 1 : i # e => cq_ring'[i] = cq_ring[i]
  <2>1. cq_ring' = [cq_ring EXCEPT ![e] = [cid |-> c, phase |-> admin_q.phase, result |-> res]]
    BY <1>7 DEF make_cq_entry_results
  <2> QED
    BY <1>3, <1>5, <2>1 DEF TypeOK
<1>15. \A d \in Cid : /\ cmd'[d].op = cmd[d].op
                      /\ cmd'[d].state = IF d = c THEN "answered" ELSE cmd[d].state
  BY <1>1, AnswerFacts
<1>16. \A i \in 0 .. n - 1 : new_phase(i)' = new_phase(i)
  BY <1>4 DEF new_phase
<1>17. \A i \in fresh_entries :
         /\ cq_ring[i].cid \in Cid /\ cq_ring[i].cid # c
         /\ cmd[cq_ring[i].cid].state = "answered"
         /\ cq_ring'[i] = cq_ring[i]
         /\ cmd[cq_ring[i].cid].op = "set_queues" =>
              cq_ring[i].result = nr_sq' /\ nr_cq' = nr_sq' /\ nr_sq' > 0
  <2> SUFFICES ASSUME NEW i \in fresh_entries
               PROVE  /\ cq_ring[i].cid \in Cid /\ cq_ring[i].cid # c
                      /\ cmd[cq_ring[i].cid].state = "answered"
                      /\ cq_ring'[i] = cq_ring[i]
                      /\ cmd[cq_ring[i].cid].op = "set_queues" =>
                           cq_ring[i].result = nr_sq' /\ nr_cq' = nr_sq' /\ nr_sq' > 0
    OBVIOUS
  <2>1. PICK d \in Cid : d = cq_ring[i].cid /\ cmd[d].state = "answered"
    BY <1>1, <1>3 DEF CqInv
  <2>2. d # c
    BY <1>2, <2>1
  <2>3. cq_ring'[i] = cq_ring[i]
    BY <1>13, <1>14
  <2>4. cmd[d].op = "set_queues" => cmd[c].op # "set_queues"
    BY <1>3, <2>2 DEF CmdInv, CmdApart
  <2>5. cmd[d].op = "set_queues" => cq_ring[i].result = nr_sq /\ nr_cq = nr_sq /\ nr_sq > 0
    BY <1>1, <1>3, <2>1 DEF CqInv
  <2> QED
    BY <2>1, <2>2, <2>3, <2>4, <2>5
<1>18. \A i \in fresh_entries' :
         /\ cq_ring'[i].cid \in Cid
         /\ cmd'[cq_ring'[i].cid].state = "answered"
         /\ \A j \in fresh_entries' : cq_ring'[i].cid = cq_ring'[j].cid => i = j
         /\ cmd'[cq_ring'[i].cid].op = "set_queues" =>
              cq_ring'[i].result = nr_sq' /\ nr_cq' = nr_sq' /\ nr_sq' > 0
  <2>1. \A i, j \in fresh_entries : cq_ring[i].cid = cq_ring[j].cid => i = j
    BY <1>1, <1>3 DEF CqInv
  <2> QED
    BY <1>13, <1>14, <1>15, <1>17, <2>1
<1>19. \A d \in Cid : cmd'[d].state = "answered" => \E i \in fresh_entries' : cq_ring'[i].cid = d
  <2>1. \A d \in Cid : cmd[d].state = "answered" => \E i \in fresh_entries : cq_ring[i].cid = d
    BY <1>1, <1>3 DEF CqInv
  <2> QED
    BY <1>13, <1>14, <1>15, <1>17, <2>1
<1>20. admin_q.phase = new_phase(e)
  BY <1>1, <1>3, <1>7 DEF CqInv, new_phase
<1>21. \A i \in 0 .. n - 1 :
         cq_ring'[i].phase = IF i \in fresh_entries' THEN new_phase(i)' ELSE 1 - new_phase(i)'
  <2>1. \A i \in 0 .. n - 1 :
         cq_ring[i].phase = IF i \in fresh_entries THEN new_phase(i) ELSE 1 - new_phase(i)
    BY <1>1, <1>3, <1>5 DEF CqInv
  <2> QED
    BY <1>13, <1>14, <1>16, <1>20, <2>1
<1>22. admin_q'.phase = (IF admin_q'.cq_head >= cq_head_h' THEN cq_phase_h' ELSE 1 - cq_phase_h')
  <2>1. new_phase(e) = (IF e >= h THEN ph ELSE 1 - ph)
    BY <1>6, <1>8 DEF new_phase
  <2>2. admin_q'.phase = IF after(e, n) >= h THEN ph ELSE 1 - ph
    <3>1. CASE e + 1 = n
      BY <1>8, <1>10, <1>11, <1>20, <2>1, <3>1 DEF after, Bit
    <3>2. CASE e + 1 # n
      BY <1>8, <1>10, <1>11, <1>20, <2>1, <3>2 DEF after, Bit
    <3> QED
      BY <3>1, <3>2
  <2> QED
    BY <1>4, <1>6, <1>8, <1>11, <2>2
<1> QED
  BY <1>1, <1>4, <1>5, <1>6, <1>11, <1>18, <1>19, <1>21, <1>22 DEF CqInv, new_phase

\* The driver leaves the slot it was at; the phase it expects changes with it.
LEMMA CqTake ==
  ASSUME IInv, Take
  PROVE  CqInv'
<1>1. PICK x \in Cid :
    /\ hpc = "up" /\ hpc' = "up" /\ x = cq_ring[cq_head_h].cid /\ cmd[x].state = "answered"
    /\ cq_head_h \in fresh_entries /\ bar.aqa \in Depth
    /\ cmd'[x] = no_cmd /\ \A d \in Cid : d # x => cmd'[d] = cmd[d]
    /\ cq_head_h' = after(cq_head_h, bar.aqa)
    /\ cq_phase_h' = IF cq_head_h' = 0 THEN 1 - cq_phase_h ELSE cq_phase_h
    /\ UNCHANGED <<shared, device>>
  BY TakeFacts
<1>2. TypeOK /\ CqInv
  BY DEF IInv
<1>3. UNCHANGED <<bar, cq_ring, irq, admin_q, dpc, nr_sq, nr_cq>> /\ irq
  BY <1>1 DEF Take, shared, rings, device, tables
<1>4. PICK n \in Nat \ {0} : n = bar.aqa
  BY <1>1, Slots
<1>5. PICK h \in 0 .. n - 1 : h = cq_head_h
  BY <1>1, <1>2, <1>4 DEF CqInv
<1>6. PICK e \in 0 .. n - 1 : e = admin_q.cq_head
  BY <1>1, <1>2, <1>4 DEF CqInv
<1>7. PICK ph \in Bit : ph = cq_phase_h
  BY <1>2 DEF TypeOK
<1>8. fresh_entries = slots(h, e, n) /\ h \in slots(h, e, n)
  BY <1>1, <1>4, <1>5, <1>6 DEF fresh_entries
<1>9. h # e
  BY <1>8, SlotsEmpty
<1>10. fresh_entries' = slots(after(h, n), e, n)
  BY <1>1, <1>3, <1>4, <1>5, <1>6 DEF fresh_entries
<1>11. fresh_entries' = fresh_entries \ {h} /\ after(h, n) \in 0 .. n - 1
  BY <1>8, <1>9, <1>10, SlotsShrink, AfterMod
<1>12. cmd'[x].state # "answered"
  BY <1>1 DEF no_cmd
<1>13. \A i \in fresh_entries' :
         /\ cq_ring'[i].cid \in Cid
         /\ cmd'[cq_ring'[i].cid].state = "answered"
         /\ \A j \in fresh_entries' : cq_ring'[i].cid = cq_ring'[j].cid => i = j
         /\ cmd'[cq_ring'[i].cid].op = "set_queues" =>
              cq_ring'[i].result = nr_sq' /\ nr_cq' = nr_sq' /\ nr_sq' > 0
  <2>1. \A i \in fresh_entries :
         /\ cq_ring[i].cid \in Cid
         /\ cmd[cq_ring[i].cid].state = "answered"
         /\ \A j \in fresh_entries : cq_ring[i].cid = cq_ring[j].cid => i = j
         /\ cmd[cq_ring[i].cid].op = "set_queues" =>
              cq_ring[i].result = nr_sq /\ nr_cq = nr_sq /\ nr_sq > 0
    BY <1>1, <1>2 DEF CqInv
  <2>2. \A i \in fresh_entries' : cq_ring[i].cid # x
    BY <1>1, <1>5, <1>8, <1>11, <2>1
  <2> QED
    BY <1>1, <1>3, <1>11, <2>1, <2>2
<1>14. \A d \in Cid : cmd'[d].state = "answered" => \E i \in fresh_entries' : cq_ring'[i].cid = d
  <2>1. \A d \in Cid : cmd[d].state = "answered" => \E i \in fresh_entries : cq_ring[i].cid = d
    BY <1>1, <1>2 DEF CqInv
  <2> QED
    BY <1>1, <1>3, <1>5, <1>11, <1>12, <2>1
<1>15. \A i \in 0 .. n - 1 : new_phase(i)' = IF i = h THEN 1 - new_phase(i) ELSE new_phase(i)
  <2> SUFFICES ASSUME NEW i \in 0 .. n - 1
               PROVE  new_phase(i)' = IF i = h THEN 1 - new_phase(i) ELSE new_phase(i)
    OBVIOUS
  <2>1. new_phase(i) = (IF i >= h THEN ph ELSE 1 - ph)
    BY <1>5, <1>7 DEF new_phase
  <2>2. new_phase(i)' = (IF i >= cq_head_h' THEN cq_phase_h' ELSE 1 - cq_phase_h')
    BY DEF new_phase
  <2>3. cq_head_h' = after(h, n) /\ cq_phase_h' = IF after(h, n) = 0 THEN 1 - ph ELSE ph
    BY <1>1, <1>4, <1>5, <1>7
  <2>4. CASE h + 1 = n
    BY <1>7, <2>1, <2>2, <2>3, <2>4 DEF after, Bit
  <2>5. CASE h + 1 # n
    BY <1>7, <2>1, <2>2, <2>3, <2>5 DEF after, Bit
  <2> QED
    BY <2>4, <2>5
<1>16. \A i \in 0 .. n - 1 :
         cq_ring'[i].phase = IF i \in fresh_entries' THEN new_phase(i)' ELSE 1 - new_phase(i)'
  <2>1. \A i \in 0 .. n - 1 :
         cq_ring[i].phase = IF i \in fresh_entries THEN new_phase(i) ELSE 1 - new_phase(i)
    BY <1>1, <1>2, <1>4 DEF CqInv
  <2>2. new_phase(h) \in Bit
    BY <1>5, <1>7 DEF new_phase, Bit
  <2>3. 1 - (1 - new_phase(h)) = new_phase(h)
    BY <2>2 DEF Bit
  <2> QED
    BY <1>3, <1>8, <1>11, <1>15, <2>1, <2>3
<1>17. admin_q'.phase = (IF admin_q'.cq_head >= cq_head_h' THEN cq_phase_h' ELSE 1 - cq_phase_h')
  <2>1. admin_q.phase = new_phase(e)
    BY <1>1, <1>2, <1>6 DEF CqInv, new_phase
  <2>2. admin_q'.phase = new_phase(e)'
    BY <1>3, <1>9, <1>15, <2>1
  <2> QED
    BY <1>3, <1>6, <2>2 DEF new_phase
<1> QED
  BY <1>1, <1>3, <1>4, <1>5, <1>6, <1>11, <1>13, <1>14, <1>16, <1>17 DEF CqInv, new_phase

\* The commands the dispatcher carries out, with their answers or without.
LEMMA CqAdminReq ==
  ASSUME IInv, AdminReq
  PROVE  CqInv'
<1>1. PICK c \in Cid :
    /\ hpc = "up" /\ c = sq_ring[todo.curr] /\ dpc = "admin"
    /\ \/ QueueEffect(c)
       \/ SetQueues(c) /\ make_cq_entry_results(c, Granted(c))
       \/ Query(c) /\ \E res \in 0 .. NR_MAX_IO_QUEUE : make_cq_entry_results(c, res)
       \/ Abort(c)
    /\ UNCHANGED <<host_rest, irq, old_bar, dpc>>
  BY AdminReqFacts
<1>2. CASE QueueEffect(c)
  <2>1. UNCHANGED <<nr_sq, nr_cq>> /\ cmd[c].op # "set_queues" /\ make_cq_entry_results(c, 0)
    BY <1>2 DEF QueueEffect, CreateCq, DeleteCq, CreateSq, DeleteSq
  <2>2. 0 \in 0 .. NR_MAX_IO_QUEUE
    BY ControllerAssumption
  <2> QED
    BY <1>1, <2>1, <2>2, CqAnswer
<1>3. CASE SetQueues(c) /\ make_cq_entry_results(c, Granted(c))
  <2>1. cmd[c].op = "set_queues" /\ nr_sq' = Granted(c) /\ nr_cq' = Granted(c)
    BY <1>3 DEF SetQueues, Granted
  <2>2. cmd[c].q > 0 /\ cmd[c].q \in Nat
    BY <2>1 DEF IInv, CmdInv, CmdShape, TypeOK, Cmd
  <2>3. Granted(c) > 0 /\ Granted(c) \in 0 .. NR_MAX_IO_QUEUE
    BY <2>2, ControllerAssumption DEF Granted
  <2> QED
    BY <1>1, <1>3, <2>1, <2>3, CqAnswer
<1>4. CASE Query(c) /\ \E res \in 0 .. NR_MAX_IO_QUEUE : make_cq_entry_results(c, res)
  <2>1. UNCHANGED <<nr_sq, nr_cq>> /\ cmd[c].op # "set_queues"
    BY <1>4, Opcodes DEF Query, tables
  <2> QED
    BY <1>1, <1>4, <2>1, CqAnswer
<1>5. CASE Abort(c)
  <2>1. /\ UNCHANGED <<nr_sq, nr_cq, admin_q, cq_ring, irq, dpc, hpc, cq_head_h, cq_phase_h, bar>>
        /\ cmd' = [cmd EXCEPT ![c].state = "dropped"]
    BY <1>1, <1>5 DEF Abort, tables, host_rest, host_rings
  <2>2. cmd[c].state = "sent"
    BY <1>1, AdminReqSent
  <2>3. \A d \in Cid : /\ cmd'[d].state = "answered" <=> cmd[d].state = "answered"
                       /\ cmd[d].state = "answered" => cmd'[d].op = cmd[d].op
    BY <2>1, <2>2 DEF IInv, TypeOK, Cmd
  <2> QED
    BY <2>1, <2>3, CqFrame DEF IInv
<1> QED
  BY <1>1, <1>2, <1>3, <1>4, <1>5

\* Every step keeps what is known of the admin completion ring.
LEMMA NextCq == ASSUME IInv, [Next]_vars PROVE CqInv'
<1>0. TypeOK /\ RegInv /\ CqInv
  BY DEF IInv
<1> USE DEF host, host_rings, host_io, shared, rings, device, tables
<1>1. ASSUME UNCHANGED <<hpc, cq_head_h, cq_phase_h, bar, cq_ring, admin_q, cmd, nr_sq, nr_cq>>,
             hpc = "up" /\ (irq \/ dpc = "admin") => (irq' \/ dpc' = "admin") \/ fresh_entries = {}
      PROVE  CqInv'
  BY <1>0, <1>1, CqFrame
<1>2. CASE Bind
  <2>1. CASE SeeReady
    BY <2>1, CqStart
  <2>2. CASE ~SeeReady
    BY <1>2, <2>2 DEF Bind, WriteDisable, WriteAqa, WriteAsq, WriteAcq, WriteEnable, CqInv
  <2> QED
    BY <2>1, <2>2
<1>3. CASE WriteShutdown \/ SeeShutdown
  BY <1>3 DEF WriteShutdown, SeeShutdown, CqInv
<1>4. ASSUME NEW op \in Op \union QueueOp, NEW q \in 0 .. NR_MAX_IO_QUEUE + 1, Send(op, q)
      PROVE  CqInv'
  <2>1. PICK c \in Cid :
          /\ cmd[c] = no_cmd /\ cmd'[c].state = "sent" /\ \A d \in Cid : d # c => cmd'[d] = cmd[d]
          /\ UNCHANGED <<hpc, cq_head_h, cq_phase_h, bar, cq_ring, irq, device>>
    BY <1>4, SendFacts
  <2>2. \A d \in Cid : /\ cmd'[d].state = "answered" <=> cmd[d].state = "answered"
                       /\ cmd[d].state = "answered" => cmd'[d].op = cmd[d].op
    BY <2>1 DEF no_cmd
  <2> QED
    BY <1>0, <2>1, <2>2, CqFrame
<1>5. CASE HandlerReturns
  <2>1. hpc = "up" => fresh_entries = {}
    <3>1. hpc = "up" => bar.aqa \in Depth
      BY <1>0 DEF RegInv, AddrInv
    <3> QED
      BY <1>0, <1>5, <3>1, FreshIsNew DEF HandlerReturns
  <2> QED
    BY <1>1, <1>5, <2>1 DEF HandlerReturns
<1>6. CASE \E q \in Qid : SubmitIo(q) \/ TakeIo(q)
  BY <1>1, <1>6 DEF SubmitIo, TakeIo
<1>7. CASE Worker
  BY <1>1, <1>7 DEF Worker, WorkerCopy, WorkerPost
<1>8. CASE CheckAqa \/ CheckAsq \/ CheckAcq \/ CheckCc
  <2>1. UNCHANGED <<hpc, cq_head_h, cq_phase_h, bar, cq_ring, cmd, irq, nr_sq, nr_cq>>
    BY <1>8 DEF CheckAqa, CheckAsq, CheckAcq, CheckCc, rest_of_bars
  <2>2. hpc = "up" => admin_q' = admin_q /\ dpc # "admin" /\ dpc' # "admin"
    BY <1>8, ChecksUp
  <2> QED
    BY <1>0, <2>1, <2>2, CqFrame
<1>9. CASE SeeAdminDb
  <2>1. dpc # "admin"
    BY <1>9 DEF SeeAdminDb
  <2> QED
    BY <1>1, <1>9, <2>1 DEF SeeAdminDb
<1>10. CASE AdminDone
  BY <1>1, <1>10 DEF AdminDone
<1>11. CASE (\E accepted \in SUBSET moved : ProcIoSq(accepted)) \/ ProcIoCq
  <2>1. dpc # "admin"
    BY <1>11 DEF ProcIoSq, ProcIoCq
  <2> QED
    BY <1>1, <1>11, <2>1 DEF ProcIoSq, ProcIoCq
<1>12. CASE UNCHANGED vars
  BY <1>1, <1>12 DEF vars
<1> QED
  BY <1>2, <1>3, <1>4, <1>5, <1>6, <1>7, <1>8, <1>9, <1>10, <1>11, <1>12, CqTake, CqAdminReq
     DEF Next, Dispatcher, Handler

-----------------------------------------------------------------------------
(* The I/O queues.                                                         *)

\* A queue no step touches.
LEMMA QueueFrame ==
  ASSUME TypeOK, NEW q \in Qid, QueueOK(q), FlightOK(q),
         hq'[q] = hq[q], io'[q] = io[q], sqes'[q] = sqes[q], cqes'[q] = cqes[q],
         dbs'[SqDb(q)] = dbs[SqDb(q)], old_dbs'[SqDb(q)] = old_dbs[SqDb(q)],
         dbs'[CqDb(q)] = dbs[CqDb(q)], old_dbs'[CqDb(q)] = old_dbs[CqDb(q)],
         nr_in_flight'[q] = nr_in_flight[q],
         hq[q] # "none" => cq_pos'[q] = cq_pos[q] /\ q <= granted',
         \A op \in QueueCmd : done(op, q)' <=> done(op, q),
         dpc = "iocq" => dpc' = "iocq"
  PROVE  QueueOK(q)' /\ FlightOK(q)'
<1>1. /\ done("create_cq", q)' <=> done("create_cq", q)
      /\ done("create_sq", q)' <=> done("create_sq", q)
      /\ done("delete_cq", q)' <=> done("delete_cq", q)
      /\ done("delete_sq", q)' <=> done("delete_sq", q)
  BY Opcodes
<1>2. QueueOK(q)'
  BY <1>1 DEF QueueOK
<1>3. unseen_acks(q)' = unseen_acks(q) /\ in_flight(q)' = in_flight(q)
  BY DEF unseen_acks, in_flight
<1>4. nr_in_flight[q] \in Int
  BY DEF TypeOK
<1> QED
  BY <1>2, <1>3, <1>4 DEF FlightOK

\* A command of queue management fits its queue, and is alone with it.
LEMMA OnlyCmd ==
  ASSUME CmdInv, TypeOK, NEW c \in Cid, cmd[c].op \in QueueCmd
  PROVE  /\ cmd[c].q \in Qid /\ cmd[c].q <= granted /\ fits(cmd[c].op, cmd[c].q)
         /\ \A d \in Cid : cmd[d].op \in QueueCmd /\ cmd[d].q = cmd[c].q => d = c
BY ControllerAssumption DEF CmdInv, CmdShape, CmdApart, Qid, TypeOK

\* What the device has done to a queue fits what the driver has.
LEMMA DoneFits ==
  ASSUME CmdInv, TypeOK, NEW q \in Qid
  PROVE  /\ done("create_cq", q) => hq[q] = "none"
         /\ done("create_sq", q) => hq[q] = "cq"
         /\ done("delete_sq", q) => hq[q] = "pair" /\ io[q] \in {"idle", "posted"}
         /\ done("delete_cq", q) => hq[q] = "drain" /\ io[q] = "idle"
<1>1. \A op \in QueueCmd : done(op, q) => fits(op, q)
  BY DEF done, CmdInv, CmdShape
<1> QED
  BY <1>1, Opcodes DEF fits

\* The difference of two positions, modulo the size of the ring.
LEMMA Behind ==
  ASSUME NEW n \in Nat \ {0}, NEW a \in 0 .. n - 1, NEW b \in 0 .. n - 1
  PROVE  /\ (a - b) % n = IF a < b THEN n - b + a ELSE a - b
         /\ (a - b) % n \in 0 .. n - 1
<1> DEFINE x == a - b
<1>1. x \in Int /\ -n < x /\ x < n
  OBVIOUS
<1>2. x % n = IF x < 0 THEN x + n ELSE x
  <2> HIDE DEF x
  <2> QED BY <1>1
<1> QED
  BY <1>2

\* Acknowledging one more, as long as they are fewer than the ring's entries.
LEMMA OneMoreBehind ==
  ASSUME NEW n \in Nat \ {0}, NEW a \in 0 .. n - 1, NEW b \in 0 .. n - 1,
         ((a - b) % n) + 1 < n
  PROVE  (after(a, n) - b) % n = ((a - b) % n) + 1
<1>1. (a - b) % n = IF a < b THEN n - b + a ELSE a - b
  BY Behind
<1>2. after(a, n) \in 0 .. n - 1
  BY AfterMod
<1>3. (after(a, n) - b) % n = IF after(a, n) < b THEN n - b + after(a, n) ELSE after(a, n) - b
  BY <1>2, Behind
<1> QED
  BY <1>1, <1>3 DEF after

\* Taking a completion: the driver's picture catches up with what was done.
LEMMA QueueTake ==
  ASSUME IInv, TypeOK', Take
  PROVE  QueueInv'
<1>1. PICK x \in Cid :
    /\ cmd[x].state = "answered"
    /\ cmd'[x] = no_cmd /\ \A d \in Cid : d # x => cmd'[d] = cmd[d]
    /\ granted' = IF cmd[x].op = "set_queues" THEN cq_ring[cq_head_h].result ELSE granted
    /\ \A q \in Qid : ~(cmd[x].op \in QueueCmd /\ cmd[x].q = q) => hq'[q] = hq[q]
    /\ \A q \in Qid : cmd[x].q = q =>
         /\ cmd[x].op = "create_cq" => hq'[q] = "cq"
         /\ cmd[x].op = "create_sq" => hq'[q] = "pair"
         /\ cmd[x].op = "delete_sq" => hq'[q] = "drain"
         /\ cmd[x].op = "delete_cq" => hq'[q] = "none"
    /\ \A q \in Qid : cq_pos'[q] = IF hq[q] = "none" THEN 0 ELSE cq_pos[q]
    /\ UNCHANGED <<io, shared, device>>
  BY TakeFacts
<1>2. TypeOK /\ CmdInv /\ QueueInv
  BY DEF IInv
<1>3. UNCHANGED <<io, dbs, old_dbs, sqes, cqes, nr_in_flight, dpc>>
  BY <1>1 DEF shared, device, tables
<1>4. no_cmd.state = "idle"
  BY DEF no_cmd
<1> SUFFICES ASSUME NEW q \in Qid PROVE QueueOK(q)' /\ FlightOK(q)'
  BY DEF QueueInv
<1>5. QueueOK(q) /\ FlightOK(q)
  BY <1>2 DEF QueueInv
<1>6. CASE ~(cmd[x].op \in QueueCmd /\ cmd[x].q = q)
  <2>1. \A op \in QueueCmd : done(op, q)' <=> done(op, q)
    BY <1>1, <1>4, <1>6 DEF done
  <2>2. hq[q] # "none" => q <= granted'
    <3>1. hq[q] # "none" => q <= granted
      BY <1>5 DEF QueueOK
    <3>2. cmd[x].op = "set_queues" => granted = 0
      BY <1>2 DEF CmdInv, CmdShape
    <3> QED
      BY <1>1, <3>1, <3>2 DEF Qid
  <2> QED
    BY <1>1, <1>2, <1>3, <1>5, <1>6, <2>1, <2>2, QueueFrame
<1>7. CASE cmd[x].op \in QueueCmd /\ cmd[x].q = q
  <2>1. done(cmd[x].op, q) /\ fits(cmd[x].op, q) /\ q <= granted /\ granted' = granted
    BY <1>1, <1>2, <1>7, OnlyCmd, Opcodes DEF done
  <2>2. \A op \in QueueCmd : ~done(op, q)' /\ (done(op, q) => op = cmd[x].op)
    BY <1>1, <1>2, <1>4, <1>7, OnlyCmd DEF done
  <2>3. /\ ~done("create_cq", q)' /\ ~done("create_sq", q)'
        /\ ~done("delete_cq", q)' /\ ~done("delete_sq", q)'
    BY <2>2, Opcodes
  <2>4. CASE cmd[x].op = "create_cq"
    <3>1. hq[q] = "none" /\ hq'[q] = "cq" /\ cq_pos'[q] = 0 /\ done("create_cq", q)
      BY <1>1, <1>7, <2>1, <2>4 DEF fits
    <3> QED
      BY <1>3, <1>5, <2>1, <2>3, <3>1 DEF QueueOK, FlightOK
  <2>5. CASE cmd[x].op = "create_sq"
    <3>1. /\ hq[q] = "cq" /\ hq'[q] = "pair" /\ cq_pos'[q] = cq_pos[q] /\ done("create_sq", q)
          /\ ~done("delete_cq", q)
      BY <1>1, <1>7, <2>1, <2>2, <2>5, Opcodes DEF fits
    <3>2. QueueOK(q)'
      BY <1>3, <1>5, <2>1, <2>3, <3>1 DEF QueueOK
    <3>3. nr_in_flight[q] = 0 /\ dbs[CqDb(q)] = old_dbs[CqDb(q)] /\ io[q] = "idle"
          /\ dbs[CqDb(q)] \in 0 .. IO_DEPTH - 1
      BY <1>5, <3>1 DEF QueueOK
    <3>4. in_flight(q)' = 0
      BY <1>3, <3>3 DEF in_flight
    <3>5. unseen_acks(q)' = 0
      <4>1. PICK a \in 0 .. IO_DEPTH - 1 : a = dbs[CqDb(q)]
        BY <3>3
      <4>2. (a - a) % IO_DEPTH = 0
        BY Behind, ControllerAssumption
      <4> QED
        BY <1>3, <3>3, <4>1, <4>2 DEF unseen_acks
    <3> QED
      BY <1>3, <3>2, <3>3, <3>4, <3>5 DEF FlightOK
  <2>6. CASE cmd[x].op = "delete_sq"
    <3>1. /\ hq[q] = "pair" /\ hq'[q] = "drain" /\ cq_pos'[q] = cq_pos[q]
          /\ io[q] \in {"idle", "posted"} /\ ~done("delete_cq", q)
      BY <1>1, <1>7, <2>1, <2>2, <2>6, Opcodes DEF fits
    <3> QED
      BY <1>3, <1>5, <2>1, <2>3, <3>1 DEF QueueOK, FlightOK
  <2>7. CASE cmd[x].op = "delete_cq"
    <3>1. hq[q] = "drain" /\ hq'[q] = "none" /\ io[q] = "idle"
      BY <1>1, <1>7, <2>1, <2>7 DEF fits
    <3> QED
      BY <1>3, <1>5, <2>1, <2>3, <3>1 DEF QueueOK, FlightOK
  <2> QED
    BY <1>7, <2>4, <2>5, <2>6, <2>7, Opcodes
<1> QED
  BY <1>6, <1>7

\* Carrying out a command: the queue it names is what its fit says, and no other
\* queue is touched.
LEMMA QueueAdminReq ==
  ASSUME IInv, TypeOK', AdminReq
  PROVE  QueueInv'
<1>1. PICK c \in Cid :
    /\ c = sq_ring[todo.curr] /\ dpc = "admin"
    /\ \/ QueueEffect(c)
       \/ SetQueues(c) /\ make_cq_entry_results(c, Granted(c))
       \/ Query(c) /\ \E res \in 0 .. NR_MAX_IO_QUEUE : make_cq_entry_results(c, res)
       \/ Abort(c)
    /\ UNCHANGED <<host_rest, irq, old_bar, dpc>>
  BY AdminReqFacts
<1>2. /\ \A d \in Cid : /\ cmd'[d].op = cmd[d].op /\ cmd'[d].q = cmd[d].q
                        /\ d # c => cmd'[d].state = cmd[d].state
  BY <1>1, AdminReqEffect
<1>3. TypeOK /\ CmdInv /\ QueueInv /\ cmd[c].state = "sent"
  BY <1>1, AdminReqSent DEF IInv
<1>4. UNCHANGED <<granted, hq, io, cq_pos, dpc>>
  BY <1>1 DEF host_rest, host_io
<1> SUFFICES ASSUME NEW q \in Qid PROVE QueueOK(q)' /\ FlightOK(q)'
  BY DEF QueueInv
<1>5. QueueOK(q) /\ FlightOK(q)
  BY <1>3 DEF QueueInv
<1>6. CASE ~(QueueEffect(c) /\ cmd[c].q = q)
  <2>1. /\ sqes'[q] = sqes[q] /\ cqes'[q] = cqes[q] /\ nr_in_flight'[q] = nr_in_flight[q]
        /\ dbs'[SqDb(q)] = dbs[SqDb(q)] /\ old_dbs'[SqDb(q)] = old_dbs[SqDb(q)]
        /\ dbs'[CqDb(q)] = dbs[CqDb(q)] /\ old_dbs'[CqDb(q)] = old_dbs[CqDb(q)]
    <3>1. CASE QueueEffect(c)
      <4>1. cmd[c].op \in QueueCmd
        BY <3>1 DEF QueueEffect, CreateCq, DeleteCq, CreateSq, DeleteSq, QueueCmd, QueueOp
      <4>2. PICK r \in Qid : r = cmd[c].q
        BY <1>3, <4>1, OnlyCmd
      <4>3. r # q
        BY <1>6, <3>1, <4>2
      <4>4. /\ SqDb(q) # SqDb(r) /\ SqDb(q) # CqDb(r) /\ CqDb(q) # SqDb(r) /\ CqDb(q) # CqDb(r)
            /\ SqDb(q) \in Db /\ CqDb(q) \in Db
        BY <4>3, Doorbells
      <4> QED
        BY <1>3, <3>1, <4>2, <4>3, <4>4
           DEF QueueEffect, CreateCq, DeleteCq, CreateSq, DeleteSq, cleared_at_create_sq, TypeOK
    <3>2. CASE ~QueueEffect(c)
      BY <1>1, <3>2 DEF SetQueues, Query, Abort, tables
    <3> QED
      BY <3>1, <3>2
  <2>2. ~(cmd[c].op \in QueueCmd /\ cmd[c].q = q)
    <3>1. ~QueueEffect(c) => cmd[c].op \notin QueueCmd
      BY <1>1, Opcodes DEF SetQueues, Query, Abort
    <3> QED
      BY <1>6, <3>1
  <2>3. \A op \in QueueCmd : done(op, q)' <=> done(op, q)
    BY <1>2, <2>2 DEF done
  <2>4. hq[q] # "none" => q <= granted'
    BY <1>4, <1>5 DEF QueueOK
  <2> QED
    BY <1>3, <1>4, <1>5, <2>1, <2>3, <2>4, QueueFrame
<1>7. CASE QueueEffect(c) /\ cmd[c].q = q
  <2>1. cmd[c].op \in QueueCmd
    BY <1>7 DEF QueueEffect, CreateCq, DeleteCq, CreateSq, DeleteSq, QueueCmd, QueueOp
  <2>2. fits(cmd[c].op, q) /\ \A d \in Cid : cmd[d].op \in QueueCmd /\ cmd[d].q = q => d = c
    BY <1>3, <1>7, <2>1, OnlyCmd
  <2>3. \A op \in QueueCmd : ~done(op, q)
    BY <1>3, <2>2 DEF done
  <2>4. cmd'[c].state = "answered"
    <3>1. cmd' = [cmd EXCEPT ![c].state = "answered"]
      BY <1>7 DEF QueueEffect, make_cq_entry_results
    <3> QED
      BY <1>3, <3>1 DEF TypeOK, Cmd
  <2>5. \A op \in QueueCmd : done(op, q)' <=> op = cmd[c].op
    BY <1>2, <1>7, <2>1, <2>2, <2>4 DEF done
  <2>6. \A op \in {"create_cq", "create_sq", "delete_sq", "delete_cq"} :
          ~done(op, q) /\ (done(op, q)' <=> op = cmd[c].op)
    BY <2>3, <2>5, Opcodes
  <2>7. SqDb(q) \in Db /\ CqDb(q) \in Db /\ SqDb(q) # CqDb(q)
    BY Doorbells
  <2>8. 0 \in 0 .. IO_DEPTH - 1
    BY ControllerAssumption
  <2>9. CASE CreateCq(c)
    <3>1. /\ cmd[c].op = "create_cq" /\ cqes'[q] /\ dbs'[CqDb(q)] = 0 /\ old_dbs'[CqDb(q)] = 0
          /\ dbs'[SqDb(q)] = dbs[SqDb(q)] /\ old_dbs'[SqDb(q)] = old_dbs[SqDb(q)]
          /\ UNCHANGED <<sqes, nr_in_flight>>
      BY <1>3, <1>7, <2>7, <2>9 DEF CreateCq, TypeOK
    <3>2. hq[q] = "none"
      BY <2>2, <3>1 DEF fits
    <3>3. QueueOK(q)'
      BY <1>4, <1>5, <2>6, <2>8, <3>1, <3>2 DEF QueueOK
    <3> QED
      BY <1>4, <3>2, <3>3 DEF FlightOK
  <2>10. CASE DeleteCq(c)
    <3>1. cmd[c].op = "delete_cq" /\ UNCHANGED <<sqes, nr_in_flight, dbs, old_dbs>>
      BY <2>10 DEF DeleteCq
    <3>2. hq[q] = "drain"
      BY <2>2, <3>1 DEF fits
    <3>3. QueueOK(q)'
      BY <1>4, <1>5, <2>6, <3>1, <3>2 DEF QueueOK
    <3> QED
      BY <1>4, <3>2, <3>3 DEF FlightOK
  <2>11. CASE CreateSq(c)
    <3>1. /\ cmd[c].op = "create_sq" /\ sqes'[q] /\ dbs'[SqDb(q)] = 0 /\ old_dbs'[SqDb(q)] = 0
          /\ dbs'[CqDb(q)] = dbs[CqDb(q)] /\ old_dbs'[CqDb(q)] = old_dbs[CqDb(q)]
          /\ cqes' = cqes /\ nr_in_flight'[q] = 0
      BY <1>3, <1>7, <2>7, <2>11 DEF CreateSq, cleared_at_create_sq, TypeOK
    <3>2. hq[q] = "cq"
      BY <2>2, <3>1 DEF fits
    <3>3. QueueOK(q)'
      BY <1>4, <1>5, <2>6, <2>8, <3>1, <3>2 DEF QueueOK
    <3> QED
      BY <1>4, <3>2, <3>3 DEF FlightOK
  <2>12. CASE DeleteSq(c)
    <3>1. /\ cmd[c].op = "delete_sq" /\ ~sqes'[q] /\ UNCHANGED <<cqes, dbs, old_dbs>>
          /\ nr_in_flight'[q] = 0
      BY <1>3, <1>7, <2>12 DEF DeleteSq, TypeOK
    <3>2. hq[q] = "pair" /\ io[q] \in {"idle", "posted"}
      BY <2>2, <3>1 DEF fits
    <3>3. QueueOK(q)'
      BY <1>4, <1>5, <2>6, <3>1, <3>2 DEF QueueOK
    <3> QED
      BY <3>1, <3>3 DEF FlightOK
  <2> QED
    BY <1>7, <2>9, <2>10, <2>11, <2>12 DEF QueueEffect
<1> QED
  BY <1>6, <1>7

\* The driver rings a doorbell, or acknowledges a completion.
LEMMA QueueIo ==
  ASSUME IInv, TypeOK', NEW q \in Qid, SubmitIo(q) \/ TakeIo(q) \/ WorkerCopy(q) \/ WorkerPost(q)
  PROVE  QueueInv'
<1>1. TypeOK /\ CmdInv /\ QueueInv
  BY DEF IInv
<1>2. UNCHANGED <<hq, granted, cmd, old_dbs, sqes, cqes, nr_in_flight, dpc>>
  BY DEF SubmitIo, TakeIo, WorkerCopy, WorkerPost, device, tables
<1>3. QueueOK(q) /\ FlightOK(q)
  BY <1>1 DEF QueueInv
<1>4. \A op, r : done(op, r)' <=> done(op, r)
  BY <1>2 DEF done
<1>5. ASSUME NEW r \in Qid, r # q PROVE QueueOK(r)' /\ FlightOK(r)'
  <2>1. QueueOK(r) /\ FlightOK(r)
    BY <1>1 DEF QueueInv
  <2>2. /\ SqDb(r) # SqDb(q) /\ CqDb(r) # SqDb(q) /\ SqDb(r) # CqDb(q) /\ CqDb(r) # CqDb(q)
        /\ SqDb(r) \in Db /\ CqDb(r) \in Db
    BY <1>5, Doorbells
  <2>3. io'[r] = io[r] /\ dbs'[SqDb(r)] = dbs[SqDb(r)] /\ dbs'[CqDb(r)] = dbs[CqDb(r)]
        /\ cq_pos'[r] = cq_pos[r]
    BY <1>1, <1>5, <2>2 DEF SubmitIo, TakeIo, WorkerCopy, WorkerPost, TypeOK, shared
  <2>4. hq[r] # "none" => r <= granted'
    BY <1>2, <2>1 DEF QueueOK
  <2> QED
    BY <1>1, <1>2, <1>4, <2>1, <2>3, <2>4, QueueFrame
<1>6. SqDb(q) \in Db /\ CqDb(q) \in Db /\ SqDb(q) # CqDb(q) /\ IO_DEPTH \in Nat \ {0}
  BY Doorbells, ControllerAssumption
<1>7. CASE SubmitIo(q)
  <2>1. /\ hq[q] = "pair" /\ ~pending(q) /\ io[q] = "idle" /\ io'[q] = "rung"
        /\ dbs'[SqDb(q)] = (dbs[SqDb(q)] + 1) % IO_DEPTH /\ dbs'[CqDb(q)] = dbs[CqDb(q)]
        /\ cq_pos' = cq_pos
    BY <1>1, <1>6, <1>7 DEF SubmitIo, TypeOK
  <2>2. PICK a \in 0 .. IO_DEPTH - 1 : a = dbs[SqDb(q)]
    BY <1>3 DEF QueueOK
  <2>3. dbs'[SqDb(q)] = after(a, IO_DEPTH) /\ after(a, IO_DEPTH) \in 0 .. IO_DEPTH - 1
    BY <1>6, <2>1, <2>2, AfterMod
  <2>4. after(a, IO_DEPTH) # a
    BY <2>2, ControllerAssumption DEF after
  <2>5. \A op : ~done(op, q)
    BY <2>1 DEF pending, done
  <2>6. QueueOK(q)'
    BY <1>2, <1>3, <1>4, <2>1, <2>2, <2>3, <2>4, <2>5 DEF QueueOK
  <2>7. in_flight(q)' = in_flight(q) /\ unseen_acks(q)' = unseen_acks(q)
    BY <1>2, <2>1 DEF in_flight, unseen_acks
  <2>8. FlightOK(q)'
    BY <1>2, <1>3, <2>7 DEF FlightOK
  <2> QED
    BY <1>5, <2>6, <2>8 DEF QueueInv
<1>8. CASE TakeIo(q)
  <2>1. /\ io[q] = "posted" /\ io'[q] = "idle" /\ cq_pos'[q] = (cq_pos[q] + 1) % IO_DEPTH
        /\ dbs'[CqDb(q)] = cq_pos'[q] /\ dbs'[SqDb(q)] = dbs[SqDb(q)]
    BY <1>1, <1>6, <1>8 DEF TakeIo, TypeOK
  <2>2. hq[q] \in {"pair", "drain"}
    BY <1>1, <1>3, <2>1 DEF QueueOK, TypeOK
  <2>3. ~done("create_cq", q) /\ dbs[CqDb(q)] = cq_pos[q]
    BY <1>1, <1>3, <2>2, DoneFits DEF QueueOK
  <2>4. PICK a \in 0 .. IO_DEPTH - 1 : a = dbs[CqDb(q)]
    BY <1>3 DEF QueueOK
  <2>5. PICK b \in 0 .. IO_DEPTH - 1 : b = old_dbs[CqDb(q)]
    BY <1>3 DEF QueueOK
  <2>6. dbs'[CqDb(q)] = after(a, IO_DEPTH) /\ after(a, IO_DEPTH) \in 0 .. IO_DEPTH - 1
    BY <1>6, <2>1, <2>3, <2>4, AfterMod
  <2>7. QueueOK(q)'
    BY <1>2, <1>3, <1>4, <2>1, <2>2, <2>3, <2>6 DEF QueueOK
  <2>8. ASSUME IO_DEPTH > 2, hq[q] = "pair", sqes[q]
        PROVE  nr_in_flight[q] = unseen_acks(q)' + in_flight(q)'
    <3>1. unseen_acks(q) = (a - b) % IO_DEPTH /\ unseen_acks(q)' = (after(a, IO_DEPTH) - b) % IO_DEPTH
      BY <1>2, <2>4, <2>5, <2>6 DEF unseen_acks
    <3>2. in_flight(q) = 1 /\ in_flight(q)' = 0
      BY <2>1 DEF in_flight
    <3>3. nr_in_flight[q] = ((a - b) % IO_DEPTH) + 1 /\ nr_in_flight[q] <= 2
      BY <1>1, <1>3, <2>8, <3>1, <3>2 DEF FlightOK, TypeOK
    <3>4. ((a - b) % IO_DEPTH) + 1 < IO_DEPTH
      BY <2>8, <3>3, ControllerAssumption
    <3>5. (after(a, IO_DEPTH) - b) % IO_DEPTH = ((a - b) % IO_DEPTH) + 1
      BY <1>6, <3>4, OneMoreBehind
    <3>6. (a - b) % IO_DEPTH \in 0 .. IO_DEPTH - 1
      BY <1>6, Behind
    <3> QED
      BY <3>1, <3>2, <3>3, <3>5, <3>6
  <2>9. FlightOK(q)'
    BY <1>2, <1>3, <2>8 DEF FlightOK
  <2> QED
    BY <1>5, <2>7, <2>9 DEF QueueInv
<1>9. CASE WorkerCopy(q) \/ WorkerPost(q)
  <2>1. /\ io[q] \in {"dispatched", "copied"} /\ io'[q] \in {"copied", "posted"}
        /\ UNCHANGED <<dbs, cq_pos>>
    BY <1>1, <1>9 DEF WorkerCopy, WorkerPost, TypeOK, shared
  <2>2. hq[q] = "pair"
    BY <1>1, <1>3, <2>1 DEF QueueOK, TypeOK
  <2>3. QueueOK(q)'
    BY <1>2, <1>3, <1>4, <2>1, <2>2 DEF QueueOK
  <2>4. in_flight(q)' = in_flight(q) /\ unseen_acks(q)' = unseen_acks(q)
    BY <1>2, <2>1 DEF in_flight, unseen_acks
  <2>5. FlightOK(q)'
    BY <1>2, <1>3, <2>4 DEF FlightOK
  <2> QED
    BY <1>5, <2>3, <2>5 DEF QueueInv
<1> QED
  BY <1>7, <1>8, <1>9

\* The dispatcher takes the commands of the queues that were rung.
LEMMA QueueIoSq ==
  ASSUME IInv, TypeOK', NEW accepted \in SUBSET moved, ProcIoSq(accepted)
  PROVE  QueueInv'
<1>1. TypeOK /\ CmdInv /\ QueueInv
  BY DEF IInv
<1>2. /\ UNCHANGED <<hq, granted, cmd, dbs, cq_pos, sqes, cqes>>
      /\ dpc = "iosq" /\ dpc' = "iocq"
  BY DEF ProcIoSq, shared
<1>3. \A op, r : done(op, r)' <=> done(op, r)
  BY <1>2 DEF done
<1>4. accepted \subseteq Qid /\ \A r \in accepted : io[r] = "rung" /\ sqes[r]
  BY <1>1, MovedIsRung
<1> SUFFICES ASSUME NEW q \in Qid PROVE QueueOK(q)' /\ FlightOK(q)'
  BY DEF QueueInv
<1>5. QueueOK(q) /\ FlightOK(q)
  BY <1>1 DEF QueueInv
<1>6. old_dbs'[CqDb(q)] = old_dbs[CqDb(q)]
      /\ old_dbs'[SqDb(q)] = IF q \in accepted THEN dbs[SqDb(q)] ELSE old_dbs[SqDb(q)]
  <2>1. /\ \A i \in Db : old_dbs'[i] = IF \E r \in accepted : i = SqDb(r) THEN dbs[i] ELSE old_dbs[i]
    BY DEF ProcIoSq
  <2> QED
    BY <1>4, <2>1, Doorbells
<1>7. /\ io'[q] = IF q \in accepted THEN "dispatched" ELSE io[q]
      /\ nr_in_flight'[q] = nr_in_flight[q] + (IF q \in accepted THEN 1 ELSE 0)
      /\ nr_in_flight[q] \in Int
  BY <1>1 DEF ProcIoSq, TypeOK
<1>8. CASE q \notin accepted
  <2>1. hq[q] # "none" => q <= granted'
    BY <1>2, <1>5 DEF QueueOK
  <2> QED
    BY <1>1, <1>2, <1>3, <1>5, <1>6, <1>7, <1>8, <2>1, QueueFrame
<1>9. CASE q \in accepted
  <2>1. io[q] = "rung" /\ hq[q] = "pair" /\ sqes[q] /\ io'[q] = "dispatched"
    BY <1>1, <1>4, <1>5, <1>7, <1>9 DEF QueueOK, TypeOK
  <2>2. ~done("create_sq", q) /\ ~done("create_cq", q)
    BY <1>1, <2>1, DoneFits
  <2>3. QueueOK(q)'
    BY <1>2, <1>3, <1>5, <1>6, <1>9, <2>1, <2>2 DEF QueueOK
  <2>4. in_flight(q) = 0 /\ in_flight(q)' = 1 /\ unseen_acks(q)' = unseen_acks(q)
    BY <1>2, <1>6, <2>1 DEF in_flight, unseen_acks
  <2>5. unseen_acks(q) \in Int
    <3>1. PICK a \in 0 .. IO_DEPTH - 1 : a = dbs[CqDb(q)]
      BY <1>5 DEF QueueOK
    <3>2. PICK b \in 0 .. IO_DEPTH - 1 : b = old_dbs[CqDb(q)]
      BY <1>5 DEF QueueOK
    <3>3. (a - b) % IO_DEPTH \in 0 .. IO_DEPTH - 1
      BY Behind, ControllerAssumption
    <3> QED
      BY <3>1, <3>2, <3>3 DEF unseen_acks
  <2>6. FlightOK(q)'
    BY <1>2, <1>5, <1>7, <1>9, <2>1, <2>4, <2>5 DEF FlightOK
  <2> QED
    BY <2>3, <2>6
<1> QED
  BY <1>8, <1>9

\* The dispatcher counts the completions that were acknowledged: it looks at every
\* queue the driver uses.
LEMMA QueueIoCq ==
  ASSUME IInv, TypeOK', ProcIoCq
  PROVE  QueueInv'
<1>1. TypeOK /\ CmdInv /\ QueueInv
  BY DEF IInv
<1>2. /\ UNCHANGED <<hq, io, granted, cmd, dbs, cq_pos, sqes, cqes>>
      /\ dpc = "iocq" /\ dpc' = "aqa"
  BY DEF ProcIoCq, shared, host, host_io
<1>3. \A op, r : done(op, r)' <=> done(op, r)
  BY <1>2 DEF done
<1> DEFINE seen == {q \in 1 .. nr_cq : cqes[q]}
<1>4. seen \subseteq Qid
  BY <1>1, ControllerAssumption DEF Qid, TypeOK
<1> SUFFICES ASSUME NEW q \in Qid PROVE QueueOK(q)' /\ FlightOK(q)'
  BY DEF QueueInv
<1>5. QueueOK(q) /\ FlightOK(q)
  BY <1>1 DEF QueueInv
<1>6. old_dbs'[SqDb(q)] = old_dbs[SqDb(q)]
      /\ old_dbs'[CqDb(q)] = IF q \in seen THEN dbs[CqDb(q)] ELSE old_dbs[CqDb(q)]
  <2>1. /\ \A i \in Db : old_dbs'[i] = IF \E r \in seen : i = CqDb(r) THEN dbs[i] ELSE old_dbs[i]
    BY DEF ProcIoCq
  <2> HIDE DEF seen
  <2> QED
    BY <1>4, <2>1, Doorbells
<1>7. nr_in_flight'[q] = IF q \in seen /\ sqes[q]
                         THEN nr_in_flight[q] - acknowledged(dbs[CqDb(q)], old_dbs[CqDb(q)])
                         ELSE nr_in_flight[q]
  BY DEF ProcIoCq, counts_cqe
<1>8. PICK a \in 0 .. IO_DEPTH - 1 : a = dbs[CqDb(q)]
  BY <1>5 DEF QueueOK
<1>9. PICK b \in 0 .. IO_DEPTH - 1 : b = old_dbs[CqDb(q)]
  BY <1>5 DEF QueueOK
<1>10. acknowledged(a, b) = (a - b) % IO_DEPTH /\ (a - b) % IO_DEPTH \in 0 .. IO_DEPTH - 1
       /\ acknowledged(a, a) = 0 /\ (a - a) % IO_DEPTH = 0
  BY Behind, ControllerAssumption, SMTT(30) DEF acknowledged
<1>11. nr_in_flight[q] \in Int
  BY <1>1 DEF TypeOK
<1>12. QueueOK(q)'
  <2>1. done("create_sq", q) => nr_in_flight'[q] = 0
    <3>1. done("create_sq", q) => hq[q] = "cq" /\ nr_in_flight[q] = 0
      BY <1>1, <1>5, DoneFits DEF QueueOK
    <3>2. hq[q] = "cq" => a = b
      BY <1>5, <1>8, <1>9 DEF QueueOK
    <3> QED
      BY <1>7, <1>8, <1>9, <1>10, <3>1, <3>2
  <2> HIDE DEF seen
  <2> QED
    BY <1>2, <1>3, <1>5, <1>6, <2>1 DEF QueueOK
<1>13. FlightOK(q)'
  <2> SUFFICES ASSUME IO_DEPTH > 2, hq[q] = "pair", sqes[q]
               PROVE  nr_in_flight'[q] = unseen_acks(q)' + in_flight(q)' /\ nr_in_flight'[q] <= 1
    BY <1>2 DEF FlightOK
  <2>1. q \in seen
    <3>1. q <= granted /\ ~done("delete_cq", q)
      BY <1>1, <1>5, DoneFits DEF QueueOK
    <3>2. cqes[q] /\ nr_cq = granted /\ granted \in Nat
      BY <1>1, <1>5, <3>1, ControllerAssumption DEF QueueOK, CmdInv, Qid, TypeOK
    <3> QED
      BY <3>1, <3>2 DEF Qid
  <2>2. old_dbs'[CqDb(q)] = a /\ unseen_acks(q)' = 0
    BY <1>2, <1>6, <1>8, <1>10, <2>1 DEF unseen_acks
  <2>3. in_flight(q)' = in_flight(q) /\ in_flight(q) \in 0 .. 1
    BY <1>2 DEF in_flight
  <2>4. nr_in_flight[q] = ((a - b) % IO_DEPTH) + in_flight(q)
    BY <1>5, <1>8, <1>9 DEF FlightOK, unseen_acks
  <2>5. nr_in_flight'[q] = nr_in_flight[q] - ((a - b) % IO_DEPTH)
    BY <1>7, <1>8, <1>9, <1>10, <2>1
  <2> QED
    BY <1>10, <1>11, <2>2, <2>3, <2>4, <2>5
<1> QED
  BY <1>12, <1>13

\* Every step keeps what is known of the I/O queues.
LEMMA NextQueue == ASSUME IInv, TypeOK', [Next]_vars PROVE QueueInv'
<1>0. TypeOK /\ RegInv /\ BindInv /\ QueueInv
  BY DEF IInv
<1> USE DEF host, host_rings, host_io, shared, rings, device, tables
<1>1. ASSUME UNCHANGED <<hq, io, cq_pos, granted, sqes, cqes, nr_in_flight>>,
             \A op \in QueueCmd, q \in Qid : done(op, q)' <=> done(op, q),
             \A q \in Qid : /\ dbs'[SqDb(q)] = dbs[SqDb(q)] /\ old_dbs'[SqDb(q)] = old_dbs[SqDb(q)]
                            /\ dbs'[CqDb(q)] = dbs[CqDb(q)] /\ old_dbs'[CqDb(q)] = old_dbs[CqDb(q)],
             dpc = "iocq" => dpc' = "iocq"
      PROVE  QueueInv'
  <2> SUFFICES ASSUME NEW q \in Qid PROVE QueueOK(q)' /\ FlightOK(q)'
    BY DEF QueueInv
  <2>1. QueueOK(q) /\ FlightOK(q)
    BY <1>0 DEF QueueInv
  <2>2. hq[q] # "none" => q <= granted'
    BY <1>1, <2>1 DEF QueueOK
  <2> QED
    BY <1>0, <1>1, <2>1, <2>2, QueueFrame
<1>2. ASSUME UNCHANGED cmd PROVE \A op \in QueueCmd, q \in Qid : done(op, q)' <=> done(op, q)
  BY <1>2 DEF done
<1>3. CASE Bind \/ WriteShutdown
  BY <1>1, <1>2, <1>3 DEF Bind, WriteDisable, WriteAqa, WriteAsq, WriteAcq, WriteEnable, SeeReady,
                          WriteShutdown, unchanged_but_bar
<1>4. CASE SeeShutdown
  <2>1. \A op, q : ~done(op, q)'
    BY <1>4 DEF SeeShutdown, done, no_cmd
  <2>2. /\ \A q \in Qid : hq'[q] = "none" /\ io[q] = "idle"
        /\ UNCHANGED <<io, sqes, cqes, dbs, old_dbs, nr_in_flight>>
    BY <1>0, <1>4 DEF SeeShutdown, BindInv
  <2>3. ASSUME NEW q \in Qid PROVE QueueOK(q)' /\ FlightOK(q)'
    <3>1. QueueOK(q)
      BY <1>0 DEF QueueInv
    <3> QED
      BY <2>1, <2>2, <3>1 DEF QueueOK, FlightOK
  <2> QED
    BY <2>3 DEF QueueInv
<1>5. ASSUME NEW op \in Op \union QueueOp, NEW q \in 0 .. NR_MAX_IO_QUEUE + 1, Send(op, q)
      PROVE  QueueInv'
  <2>1. PICK c \in Cid :
          /\ cmd[c] = no_cmd /\ cmd'[c].state = "sent" /\ \A d \in Cid : d # c => cmd'[d] = cmd[d]
          /\ dbs' = [dbs EXCEPT ![0] = sq_tail']
          /\ UNCHANGED <<granted, hq, io, cq_pos, device>>
    BY <1>5, SendFacts
  <2>2. \A o \in QueueCmd, r \in Qid : done(o, r)' <=> done(o, r)
    BY <2>1 DEF done, no_cmd
  <2>3. \A r \in Qid : dbs'[SqDb(r)] = dbs[SqDb(r)] /\ dbs'[CqDb(r)] = dbs[CqDb(r)]
    BY <1>0, <2>1, Doorbells DEF TypeOK
  <2> QED
    BY <1>1, <2>1, <2>2, <2>3
<1>6. CASE HandlerReturns
  BY <1>1, <1>2, <1>6 DEF HandlerReturns
<1>7. CASE CheckAqa \/ CheckAsq \/ CheckAcq \/ CheckCc
  <2>1. /\ UNCHANGED <<cmd, hq, io, cq_pos, granted, sqes, cqes, nr_in_flight>>
        /\ dpc # "iocq"
    BY <1>7 DEF CheckAqa, CheckAsq, CheckAcq, CheckCc, rest_of_bars
  <2>2. \/ UNCHANGED <<dbs, old_dbs>>
        \/ clear_admin_db
    BY <1>7 DEF CheckAqa, CheckAsq, CheckAcq, CheckCc
  <2>3. \A q \in Qid : /\ dbs'[SqDb(q)] = dbs[SqDb(q)] /\ old_dbs'[SqDb(q)] = old_dbs[SqDb(q)]
                       /\ dbs'[CqDb(q)] = dbs[CqDb(q)] /\ old_dbs'[CqDb(q)] = old_dbs[CqDb(q)]
    BY <1>0, <2>2, Doorbells DEF clear_admin_db, TypeOK
  <2> QED
    BY <1>1, <1>2, <2>1, <2>3
<1>8. CASE SeeAdminDb
  BY <1>1, <1>2, <1>8 DEF SeeAdminDb
<1>9. CASE AdminDone
  <2>1. \A q \in Qid : old_dbs'[SqDb(q)] = old_dbs[SqDb(q)] /\ old_dbs'[CqDb(q)] = old_dbs[CqDb(q)]
    BY <1>0, <1>9, Doorbells DEF AdminDone, TypeOK
  <2> QED
    BY <1>1, <1>2, <1>9, <2>1 DEF AdminDone
<1>10. CASE UNCHANGED vars
  BY <1>1, <1>2, <1>10 DEF vars
<1> QED
  BY <1>3, <1>4, <1>5, <1>6, <1>7, <1>8, <1>9, <1>10, QueueTake, QueueAdminReq, QueueIo,
     QueueIoSq, QueueIoCq DEF Next, Dispatcher, Handler, Worker

-----------------------------------------------------------------------------
(* The theorems.                                                           *)

\* The invariant of the controller and its driver.
LEMMA Invariance == Spec => []IInv
<1>1. IInv /\ [Next]_vars => IInv'
  <2> SUFFICES ASSUME IInv, [Next]_vars PROVE IInv'
    OBVIOUS
  <2>1. TypeOK'
    BY NextType
  <2> QED
    BY <2>1, NextReg, NextBind, NextSq, NextCq, NextCmdInv, NextQueue DEF IInv
<1> QED
  BY <1>1, InitInv, PTL DEF Spec

\* A one-to-one correspondence makes two sets equally large.
LEMMA SameSize ==
  ASSUME NEW S, IsFiniteSet(S), NEW Q, NEW f \in [S -> Q],
         \A i, j \in S : f[i] = f[j] => i = j, \A x \in Q : \E i \in S : f[i] = x
  PROVE  Cardinality(S) = Cardinality(Q)
<1>1. f \in Bijection(S, Q)
  BY DEF Bijection, Injection, Surjection, IsInjective
<1> QED
  BY <1>1, FS_Bijection DEF ExistsBijection

\* A driver that sees csts.rdy finds its rings programmed (nvmev_proc_bars), for
\* rings of any sizes and any number of bindings, wherever its writes fall between
\* the comparisons of the dispatcher.
THEOREM ReadyMeansProgrammed == Spec => []ReadyIsProgrammed
<1>1. IInv => ReadyIsProgrammed
  BY DEF IInv, RegInv, AddrInv, SeenInv, CcInv, QuietInv, ReadyIsProgrammed, on_rings
<1> QED
  BY <1>1, Invariance, PTL

\* Every admin command is carried out exactly once (nvmev_proc_admin_sq): the
\* commands that wait are those in the slots the dispatcher has not come to, each
\* in one of them.
THEOREM AdminExactlyOnce == Spec => []AdminOnce
<1>1. IInv => AdminOnce
  <2> SUFFICES ASSUME IInv, hpc = "up"
               PROVE  /\ {sq_ring[i] : i \in unprocessed} = {c \in Cid : cmd[c].state = "sent"}
                      /\ Cardinality(unprocessed) = Cardinality({c \in Cid : cmd[c].state = "sent"})
    BY DEF AdminOnce
  <2> DEFINE Q == {c \in Cid : cmd[c].state = "sent"}
             S == unprocessed
             f == [i \in S |-> sq_ring[i]]
  <2>1. SqInv
    BY DEF IInv
  <2>2. {sq_ring[i] : i \in unprocessed} = Q
    BY <2>1 DEF SqInv
  <2>3. IsFiniteSet(S)
    <3>1. bar.aqa \in Nat \ {0} /\ unprocessed \subseteq 0 .. bar.aqa - 1
      BY UnprocessedSlots
    <3>2. IsFiniteSet(0 .. bar.aqa - 1)
      BY <3>1, FS_Interval
    <3> QED
      BY <3>1, <3>2, FS_Subset
  <2>4. f \in [S -> Q] /\ (\A i, j \in S : f[i] = f[j] => i = j) /\ \A x \in Q : \E i \in S : f[i] = x
    BY <2>1 DEF SqInv
  <2>5. Cardinality(S) = Cardinality(Q)
    <3> HIDE DEF S, Q, f
    <3> QED
      BY <2>3, <2>4, SameSize
  <2> QED
    BY <2>2, <2>5
<1> QED
  BY <1>1, Invariance, PTL

\* The driver recognises every admin completion by its phase bit, once, in every
\* binding and through any number of wraps (__make_cq_entry); the completion ring
\* never overflows although the device does not look at the driver's position.
THEOREM AdminAnswersAreNew == Spec => []AnswersAreNew
<1>1. IInv => AnswersAreNew
  <2> SUFFICES ASSUME IInv PROVE AnswersAreNew
    OBVIOUS
  <2>1. TypeOK /\ CqInv
    BY DEF IInv
  <2>2. ASSUME hpc = "up"
        PROVE  /\ {cq_ring[i].cid : i \in fresh_entries} = {c \in Cid : cmd[c].state = "answered"}
               /\ Cardinality(fresh_entries) = Cardinality({c \in Cid : cmd[c].state = "answered"})
               /\ entry_is_new <=> fresh_entries # {}
    <3> DEFINE Q == {c \in Cid : cmd[c].state = "answered"}
               S == fresh_entries
               f == [i \in S |-> cq_ring[i].cid]
    <3>1. bar.aqa \in Depth
      BY <2>2 DEF IInv, RegInv, AddrInv
    <3>2. {cq_ring[i].cid : i \in fresh_entries} = Q
      BY <2>1, <2>2 DEF CqInv
    <3>3. IsFiniteSet(S)
      <4>1. IsFiniteSet(0 .. bar.aqa - 1) /\ fresh_entries \subseteq 0 .. bar.aqa - 1
        BY <2>1, <2>2, <3>1, Slots, FreshIsNew, FS_Interval
      <4> QED
        BY <4>1, FS_Subset
    <3>4. f \in [S -> Q] /\ (\A i, j \in S : f[i] = f[j] => i = j)
          /\ \A x \in Q : \E i \in S : f[i] = x
      BY <2>1, <2>2 DEF CqInv
    <3>5. Cardinality(S) = Cardinality(Q)
      <4> HIDE DEF S, Q, f
      <4> QED
        BY <3>3, <3>4, SameSize
    <3>6. entry_is_new <=> fresh_entries # {}
      BY <2>1, <2>2, <3>1, FreshIsNew
    <3> QED
      BY <3>2, <3>5, <3>6
  <2> QED
    BY <2>1, <2>2 DEF AnswersAreNew
<1> QED
  BY <1>1, Invariance, PTL

\* Once the dispatcher has seen all registers, nobody waits in vain, and no answer
\* is left without an interrupt (nvmev_proc_bars, nvmev_proc_admin_sq).
THEOREM NobodyOverlooked == Spec => []NothingOverlooked
<1>1. IInv => NothingOverlooked
  <2> SUFFICES ASSUME IInv PROVE NothingOverlooked
    OBVIOUS
  <2>1. hpc = "wait_rdy" /\ old_bar = bar => csts.rdy = 1
    BY DEF IInv, RegInv, CcInv, cc
  <2>2. hpc = "wait_off" /\ old_bar = bar => csts.rdy = 0
    BY DEF IInv, RegInv, CcInv, cc
  <2>3. hpc = "wait_shst" /\ old_bar = bar => csts.shst = 2
    BY DEF IInv, RegInv, CcInv
  <2>4. hpc = "up" /\ fresh_entries # {} => irq \/ dpc = "admin"
    BY DEF IInv, CqInv
  <2> QED
    BY <2>1, <2>2, <2>3, <2>4 DEF NothingOverlooked
<1> QED
  BY <1>1, Invariance, PTL

\* A doorbell that was rung is one the dispatcher will see, and no other
\* (nvmev_proc_dbs, __nvmev_admin_create_sq), in every life of a queue.
THEOREM EveryRingIsSeen == Spec => []RungIsSeen
<1>1. IInv => RungIsSeen
  <2> SUFFICES ASSUME IInv, NEW q \in Qid
               PROVE  (io[q] = "rung" => q \in moved) /\ (q \in moved => io[q] = "rung")
    BY DEF RungIsSeen
  <2>1. TypeOK /\ CmdInv /\ QueueOK(q) /\ QueueInv
    BY DEF IInv, QueueInv
  <2>2. ASSUME io[q] = "rung" PROVE q \in moved
    <3>1. hq[q] # "none" /\ q <= granted /\ sqes[q] /\ dbs[SqDb(q)] # old_dbs[SqDb(q)]
      BY <2>1, <2>2 DEF QueueOK
    <3>2. nr_sq = granted /\ granted \in Nat
      BY <2>1, <3>1, ControllerAssumption DEF CmdInv, Qid, TypeOK
    <3> QED
      BY <3>1, <3>2 DEF moved, Qid
  <2> QED
    BY <2>1, <2>2, MovedIsRung
<1> QED
  BY <1>1, Invariance, PTL

\* nr_in_flight is exact (nvmev_proc_io_sq, nvmev_proc_io_cq) in rings of three
\* entries or more.
THEOREM CountIsExact == IO_DEPTH > 2 => (Spec => []InFlightExact)
<1>1. ASSUME IO_DEPTH > 2 PROVE Spec => []InFlightExact
  <2>1. IInv => InFlightExact
    BY <1>1 DEF IInv, QueueInv, FlightOK, in_flight, InFlightExact
  <2> QED
    BY <2>1, Invariance, PTL
<1> QED
  BY <1>1
=============================================================================
