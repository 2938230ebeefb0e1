------------------------------ MODULE SsdTiming ------------------------------
(***************************************************************************)
(* The clockwork of the simulated SSD: when LUNs and channels are busy, and*)
(* so when a command is said to be complete (ssd.c: ssd_advance_nand,      *)
(* ssd_next_idle_time; channel_model.c).  One channel with its LUNs; the   *)
(* PCIe link is one more channel model, on which no LUN depends.           *)
(*                                                                         *)
(* Bandwidth is kept in a ring of credits: entry (head + k) mod            *)
(* NR_CREDIT_ENTRIES is the slot k intervals after the one of cur_time.    *)
(* The ring is turned by the time that has passed whenever the channel is  *)
(* used; entries from valid_len on have not been touched.                  *)
(*                                                                         *)
(* Everything runs on the dispatcher; the clock it reads goes on between   *)
(* two of its steps.  Lengths are in units of UNIT_XFER_SIZE.              *)
(***************************************************************************)
EXTENDS Integers, FiniteSetsExt

CONSTANTS
  Lun,                   \* the LUNs of one channel
  MAX_CREDITS,           \* ch.max_credits; command_credits are zero
  NR_CREDIT_ENTRIES, UNIT_TIME_INTERVAL,
  XFER_LAT,              \* ch.xfer_lat
  RD_LATS,               \* pg_4kb_rd_lat and pg_rd_lat of every kind of cell
  PG_WR_LAT, BLK_ER_LAT,
  MAX_CH_XFER_SIZE,
  Size,                  \* units of a command
  AHEAD,                 \* bound: how far in the future a command is told to start
  MAX_CLOCK,             \* bound: the clock
  MAX_TIME               \* bound: a LUN that is busy beyond it gets no command

ASSUME TimingAssumption ==
  /\ MAX_CREDITS \in Nat \ {0} /\ NR_CREDIT_ENTRIES \in Nat \ {0}
  /\ UNIT_TIME_INTERVAL \in Nat \ {0} /\ XFER_LAT \in Nat
  /\ RD_LATS \subseteq Nat /\ {PG_WR_LAT, BLK_ER_LAT} \subseteq Nat
  /\ MAX_CH_XFER_SIZE \in Nat \ {0} /\ Size \subseteq Nat \ {0}
  /\ {AHEAD, MAX_TIME} \subseteq Nat /\ MAX_CLOCK \in Nat \ {0}

VARIABLES
  clock,
  ch,                    \* struct channel_model
  next_lun_avail_time,
  op,                    \* the NAND command ssd_advance_nand is working on
  last                   \* the call of chmodel_request in the last step, if there was one

vars == <<clock, ch, next_lun_avail_time, op, last>>

Entry == 0 .. NR_CREDIT_ENTRIES - 1
slot_of(t) == t \div UNIT_TIME_INTERVAL
later(a, b) == IF a > b THEN a ELSE b
at_most(a, b) == IF a < b THEN a ELSE b

NoOp == [lun |-> "none", at |-> 0, left |-> 0]
NoRequest == [now |-> 0, at |-> 0, units |-> 0, ret |-> 0]

\* chmodel_init
empty_channel == [head |-> 0, valid_len |-> 0, cur_time |-> 0,
                  avail_credits |-> [i \in Entry |-> MAX_CREDITS]]

Init ==
  /\ clock = 1
  /\ ch = empty_channel
  /\ next_lun_avail_time = [n \in Lun |-> 0]
  /\ op = NoOp /\ last = NoRequest

-----------------------------------------------------------------------------
(* chmodel_request.                                                        *)

\* how many entries an index lies behind another
behind(i, head) == (i - head) % NR_CREDIT_ENTRIES

\* the entries the head passes on its way by n entries, around the end of the array
refilled(c, n) ==
  [i \in Entry |-> IF behind(i, c.head) < n THEN MAX_CREDITS ELSE c.avail_credits[i]]

\* the head moves by the time that has passed, up to the last entry that was used
entries_passed(c, now) == at_most(slot_of(now) - slot_of(c.cur_time), c.valid_len)

\* the ring as it is at time now
turned(c, now) ==
  LET n == entries_passed(c, now) IN
  [head |-> (c.head + n) % NR_CREDIT_ENTRIES, cur_time |-> now,
   valid_len |-> c.valid_len - n, avail_credits |-> refilled(c, n)]

entry(c, k) == (c.head + k) % NR_CREDIT_ENTRIES

\* credits that are still missing after the entries first .. k of the ring
missing(c, first, units) ==
  LET m[k \in first - 1 .. NR_CREDIT_ENTRIES - 1] ==
        IF k < first THEN units
        ELSE m[k - 1] - at_most(m[k - 1], c.avail_credits[entry(c, k)])
  IN  m

\* (bug variant) the length is what this request needs
valid_length_overwritten(c, used) == used

valid_length(c, used) == later(used, c.valid_len)

\* The request takes credits entry by entry, and stops at the end of the ring
\* ("No free entry") if there are too few.
consume(c, first, units) ==
  LET m == missing(c, first, units)
      served == {k \in first .. NR_CREDIT_ENTRIES - 1 : m[k] = 0}
      end == IF served = {} THEN NR_CREDIT_ENTRIES - 1 ELSE Min(served)
      taken(k) == IF k \in first .. end THEN m[k - 1] - m[k] ELSE 0
  IN  [delay |-> end - first,
       ch |-> [c EXCEPT !.valid_len = valid_length(c, end + 1),
                        !.avail_credits = [i \in Entry |-> @[i] - taken(behind(i, c.head))]]]

\* (bug variant) the slots that fit between the two times
slots_ahead_between(at, now) == (at - now) \div UNIT_TIME_INTERVAL

\* request_time_offs: how many slots time at lies after time now
slots_ahead(at, now) == slot_of(at) - slot_of(now)

\* A request for the past, or for a time beyond the ring, is not charged.
chmodel_request(c, now, at, units) ==
  LET t == turned(c, now)
      first == slots_ahead(at, now)
      d == consume(t, first, units)
      usual == units \div MAX_CREDITS
      delay == IF d.delay > usual THEN d.delay - usual ELSE 0
  IN  IF at < now \/ first >= NR_CREDIT_ENTRIES THEN [ch |-> t, ret |-> at]
      ELSE [ch |-> d.ch, ret |-> at + XFER_LAT * units + delay * UNIT_TIME_INTERVAL]

\* the call, with its result r
request(at, units, r) ==
  /\ ch' = r.ch
  /\ last' = [now |-> clock, at |-> at, units |-> units, ret |-> r.ret]

-----------------------------------------------------------------------------
(* ssd_advance_nand.                                                       *)

quiet == last' = NoRequest

\* (bug variant) a command starts when it is told to
starts_at_once(n, stime) == IF stime = 0 THEN clock ELSE stime

\* the LUN has to be free; a start time of zero stands for the present
starts(n, stime) == later(next_lun_avail_time[n], IF stime = 0 THEN clock ELSE stime)

\* NAND_READ: the cells first, then the transfer, in pieces of max_ch_xfer_size
ReadBegin(n, stime, size, lat) ==
  /\ op = NoOp
  /\ op' = [lun |-> n, at |-> starts(n, stime) + lat, left |-> size]
  /\ quiet /\ UNCHANGED <<clock, ch, next_lun_avail_time>>

ReadTransfer ==
  LET x == at_most(op.left, MAX_CH_XFER_SIZE)
      r == chmodel_request(ch, clock, op.at, x)
  IN  /\ op # NoOp
      /\ request(op.at, x, r)
      /\ IF x < op.left
         THEN /\ op' = [op EXCEPT !.at = r.ret, !.left = @ - x]
              /\ UNCHANGED next_lun_avail_time
         ELSE /\ op' = NoOp
              /\ next_lun_avail_time' = [next_lun_avail_time EXCEPT ![op.lun] = r.ret]
      /\ UNCHANGED clock

\* NAND_WRITE: the transfer, then the cells
Program(n, stime, size) ==
  LET at == starts(n, stime)
      r == chmodel_request(ch, clock, at, size)
  IN  /\ op = NoOp
      /\ request(at, size, r)
      /\ next_lun_avail_time' = [next_lun_avail_time EXCEPT ![n] = r.ret + PG_WR_LAT]
      /\ UNCHANGED <<clock, op>>

\* NAND_ERASE and NAND_NOP do not use the channel
Occupy(n, stime, lat) ==
  /\ op = NoOp
  /\ next_lun_avail_time' = [next_lun_avail_time EXCEPT ![n] = starts(n, stime) + lat]
  /\ quiet /\ UNCHANGED <<clock, ch, op>>

Erase(n, stime) == Occupy(n, stime, BLK_ER_LAT)
Nop(n, stime)   == Occupy(n, stime, 0)

Tick ==
  /\ clock < MAX_CLOCK
  /\ clock' = clock + 1
  /\ quiet /\ UNCHANGED <<ch, next_lun_avail_time, op>>

\* start times FTLs pass: the present as zero, or some time around it
stimes == {0, clock + AHEAD} \union {t \in {clock - 1} : t > 0}
free_luns == {n \in Lun : next_lun_avail_time[n] <= MAX_TIME}

Nand ==
  \E n \in free_luns, stime \in stimes :
    \/ \E size \in Size, lat \in RD_LATS : ReadBegin(n, stime, size, lat)
    \/ \E size \in Size : Program(n, stime, size)
    \/ Erase(n, stime)
    \/ Nop(n, stime)

\* the bound on the clock
End == clock = MAX_CLOCK /\ op = NoOp /\ UNCHANGED vars

Next ==
  \/ Tick
  \/ Nand \/ ReadTransfer
  \/ End

Spec == Init /\ [][Next]_vars
-----------------------------------------------------------------------------
(* Properties.                                                             *)

\* Ring positions, credits and times keep their types: no entry is overbooked, and
\* "Invalid valid_len" is not reached.
TypeOK ==
  /\ clock \in 1 .. MAX_CLOCK
  /\ ch \in [head : Entry, valid_len : 0 .. NR_CREDIT_ENTRIES, cur_time : 0 .. MAX_CLOCK,
             avail_credits : [Entry -> 0 .. MAX_CREDITS]]
  /\ next_lun_avail_time \in [Lun -> Nat]
  /\ op \in [lun : Lun \union {"none"}, at : Nat, left : Nat]
  /\ last \in [now : 0 .. MAX_CLOCK, at : Nat, units : Nat, ret : Nat]

\* The head may stop at valid_len although more time has passed, because what
\* lies behind is untouched: an entry there has all its credits, and none is ever
\* overbooked (TypeOK).
UntouchedIsFull ==
  /\ TypeOK
  /\ \A k \in Entry : k >= ch.valid_len => ch.avail_credits[entry(ch, k)] = MAX_CREDITS

\* A LUN does one thing at a time: the time it is free again never moves back,
\* whatever start times commands are given and also when the channel model
\* returns early, and the transfer of a command lies between the end of the
\* command before it on this LUN and its own end.
LunExclusive ==
  [][\A n \in Lun :
       LET before == next_lun_avail_time[n]
           after == next_lun_avail_time'[n]
       IN  /\ after >= before
           /\ after # before /\ last' # NoRequest => before <= last'.at /\ last'.ret <= after]_vars

\* the credits taken from slot s
taken(s) ==
  LET k == s - slot_of(ch.cur_time) IN
  IF k \in Entry THEN MAX_CREDITS - ch.avail_credits[entry(ch, k)] ELSE 0

HORIZON == slot_of(MAX_CLOCK) + NR_CREDIT_ENTRIES
Schedule == INSTANCE ChannelSchedule
  WITH sched <- [s \in 0 .. HORIZON |-> taken(s)]

\* The ring implements a plain schedule of time slots: however time has passed
\* between two requests, a transfer takes the earliest free credits from its
\* start, no one else's, and its completion time follows from the slot of the
\* last one.
ImplementsSchedule == Schedule!Spec
=============================================================================
