--------------------------- MODULE ChannelSchedule ---------------------------
(***************************************************************************)
(* What a channel model promises, without the ring it is kept in: time is  *)
(* cut into slots of MAX_CREDITS credits each, and a transfer takes the    *)
(* earliest credits that are free from its start on, as far as the model   *)
(* looks ahead.                                                            *)
(***************************************************************************)
EXTENDS Integers, FiniteSetsExt

CONSTANTS
  HORIZON,       \* slots are 0 .. HORIZON
  MAX_CREDITS, NR_CREDIT_ENTRIES, UNIT_TIME_INTERVAL, XFER_LAT

VARIABLES
  sched,         \* slot -> credits taken; the past is forgotten
  last           \* the request of the last step, with what it returned, or none

Slot == 0 .. HORIZON
slot_of(t) == t \div UNIT_TIME_INTERVAL

NoRequest == [now |-> 0, at |-> 0, units |-> 0, ret |-> 0]

Init ==
  /\ sched = [s \in Slot |-> 0]
  /\ last = NoRequest

\* the credits of the slots 0 .. s, for every s
total(f) == LET t[s \in Slot] == IF s = 0 THEN f[0] ELSE t[s - 1] + f[s] IN t

\* how long a transfer takes whose last credit is in slot e
latency(r, e) ==
  LET delay == e - slot_of(r.at)
      usual == r.units \div MAX_CREDITS
  IN  XFER_LAT * r.units + UNIT_TIME_INTERVAL * (IF delay > usual THEN delay - usual ELSE 0)

Transfer(r) ==
  LET first  == slot_of(r.at)
      end    == slot_of(r.now) + NR_CREDIT_ENTRIES - 1
      kept   == [s \in Slot |-> IF s < slot_of(r.now) THEN 0 ELSE sched[s]]
      taken  == {s \in Slot : sched'[s] # kept[s]}
      placed == total(sched')[HORIZON] - total(kept)[HORIZON]
  IN  IF r.at < r.now \/ first > end
      THEN taken = {} /\ r.ret = r.at
      ELSE /\ \A s \in taken : /\ s \in first .. end
                               /\ sched'[s] \in kept[s] + 1 .. MAX_CREDITS
                               /\ \A u \in first .. s - 1 : sched'[u] = MAX_CREDITS
           /\ placed <= r.units
           /\ placed < r.units => \A s \in first .. end : sched'[s] = MAX_CREDITS
           /\ r.ret = r.at + latency(r, IF placed < r.units THEN end ELSE Max(taken))

Next ==
  \/ last' # NoRequest /\ Transfer(last')
  \/ last' = NoRequest /\ UNCHANGED sched

Spec == Init /\ [][Next]_<<sched, last>>
=============================================================================
