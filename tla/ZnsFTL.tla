------------------------------- MODULE ZnsFTL -------------------------------
(***************************************************************************)
(* The zoned namespace: the zone state machine, the write pointers, the    *)
(* open/active/ZRWA resource counters and the write buffers of the zones   *)
(* (zns_read_write.c, zns_mgmt_send.c, the inline helpers of zns_ftl.h).   *)
(*                                                                         *)
(* Addresses and sizes are in logical blocks, and a block is one page of   *)
(* the SSD model.  The FTL runs on the dispatcher thread, so a command is  *)
(* one step; the release of buffer space after a flash write is a later    *)
(* step of an I/O worker.  A write that finds no buffer space is refused   *)
(* and stays at the head of its submission queue, where the dispatcher     *)
(* tries it again; the refused command has been modified in place.         *)
(***************************************************************************)
EXTENDS Integers, FiniteSets

CONSTANTS
  NR_ZONES,          \* zp.nr_zones
  ZONE_SIZE,         \* zp.zone_size, equal to the zone capacity
  ONESHOT,           \* spp.pgs_per_oneshotpg
  WRITE_UNIT,        \* spp.write_unit_size
  ZONE_WB_SIZE,      \* zp.zone_wb_size: the write buffer of a zone
  ZRWA, ZRWAFG, ZRWA_BUFFER_SIZE,        \* zp.lbas_per_zrwa, lbas_per_zrwafg, ...
  ZRWA_ZONES,        \* the zones the host opens with the ZRWA option
  MAX_NLB,           \* bound: blocks of one write
  MAX_FLUSHES,       \* bound: flushes of one ZRWA buffer under way at a time
  Queue              \* submission queues

Zone == 0 .. NR_ZONES - 1
Lba  == 0 .. NR_ZONES * ZONE_SIZE - 1

ASSUME ZnsAssumption ==
  /\ NR_ZONES \in Nat \ {0} /\ ZONE_SIZE \in Nat \ {0} /\ ONESHOT \in Nat \ {0}
  /\ WRITE_UNIT \in Nat \ {0}
  /\ MAX_NLB \in Nat \ {0} /\ MAX_NLB <= ZONE_WB_SIZE /\ MAX_FLUSHES \in Nat
  /\ ZONE_WB_SIZE \in Nat
  /\ ZRWA \in Nat \ {0} /\ ZRWAFG \in 1 .. ZRWA /\ 2 * ZRWA <= ZRWA_BUFFER_SIZE
  /\ ZRWA_BUFFER_SIZE \in Nat /\ ZRWA_ZONES \subseteq Zone

Resource == {"ACTIVE_ZONE", "OPEN_ZONE", "ZRWA_ZONE"}
\* res_infos[].total_cnt, of each of the three resources
total_cnt == NR_ZONES

VARIABLES
  state, wp, zrwav,       \* the zone descriptors
  acquired_cnt,           \* res_infos[].acquired_cnt
  wb, zb,                 \* buffer.remaining of zone_write_buffer and zrwa_buffer
  flushing, tail, zflushing,
                          \* scheduled releases: one-shot pages and the last,
                          \* short one of a zone's write buffer; one-shot pages
                          \* of its ZRWA buffer
  lost,                   \* history: blocks of a zone's write buffer that were taken
                          \* and will not be released any more
  held,                   \* per queue: the refused command at its head
  ret,                    \* the append completed by the last step: the zone it was
                          \* addressed to, the address it reported
  panic                   \* BUG_ON has stopped the dispatcher

zones   == <<state, wp, zrwav, acquired_cnt>>
buffers == <<wb, zb, flushing, tail, zflushing, lost>>
vars    == <<zones, buffers, held, ret, panic>>

zone_to_slba(z) == z * ZONE_SIZE
lba_to_zone(a)  == a \div ZONE_SIZE
zone_end(z)     == zone_to_slba(z) + ZONE_SIZE
unaligned_space == ZONE_SIZE % ONESHOT

\* (bug variant) a zone is full only once its write pointer is past its end
reaches_end_beyond(z, w) == w > zone_end(z)

\* a write pointer of w makes zone z full
reaches_end(z, w) == w = zone_end(z)

opened == {"OPENED_IMPL", "OPENED_EXPL"}
no_cmd == [op |-> "none", zone |-> 0, slba |-> 0, nlb |-> 0]
no_ret == [zone |-> 0, lba |-> -1]
no_outcome == ret' = no_ret /\ UNCHANGED panic

Init ==
  /\ state = [z \in Zone |-> "EMPTY"]
  /\ wp = [z \in Zone |-> zone_to_slba(z)]
  /\ zrwav = [z \in Zone |-> FALSE]
  /\ acquired_cnt = [r \in Resource |-> 0]
  /\ wb = [z \in Zone |-> ZONE_WB_SIZE]
  /\ zb = [z \in Zone |-> ZRWA_BUFFER_SIZE]
  /\ flushing = [z \in Zone |-> 0] /\ tail = [z \in Zone |-> 0]
  /\ zflushing = [z \in Zone |-> 0] /\ lost = [z \in Zone |-> 0]
  /\ held = [q \in Queue |-> no_cmd]
  /\ ret = no_ret
  /\ panic = FALSE

-----------------------------------------------------------------------------
(* zns_mgmt_send.c.  A command names one zone, or all of them (select_all);*)
(* the loop over all zones then ignores the status of each.                *)

selections == {{z} : z \in Zone} \union {Zone}

in_state(Z, S) == {z \in Z : state[z] \in S}
active == opened \union {"CLOSED"}

\* release_zone_resource, once for each zone of the given sets
release(act, opn, zr) ==
  acquired_cnt' = [acquired_cnt EXCEPT !["ACTIVE_ZONE"] = @ - Cardinality(act),
                                       !["OPEN_ZONE"]   = @ - Cardinality(opn),
                                       !["ZRWA_ZONE"]   = @ - Cardinality(zr)]

\* change_zone_state for all zones of Z that are in one of the states S
change_zone_state(Z, S, new) ==
  state' = [z \in Zone |-> IF z \in in_state(Z, S) THEN new ELSE state[z]]

CloseZone(Z) ==
  /\ change_zone_state(Z, opened, "CLOSED")
  /\ release({}, in_state(Z, opened), {})
  /\ UNCHANGED <<wp, zrwav, buffers, held>> /\ no_outcome

FinishZone(Z) ==
  /\ change_zone_state(Z, active \union {"EMPTY", "FULL"}, "FULL")
  /\ release(in_state(Z, active), in_state(Z, opened), {z \in in_state(Z, active) : zrwav[z]})
  /\ UNCHANGED <<wp, zrwav, buffers, held>> /\ no_outcome

\* the zones that give back an open resource when they are reset
reset_opn(Z) == in_state(Z, opened)

\* blocks in the buffer that wait for their one-shot page to fill up
residue(z) == IF zrwav[z] \/ wp[z] = zone_end(z) THEN 0
              ELSE (wp[z] - zone_to_slba(z)) % ONESHOT

\* The write buffer of the zone is not touched, so that what waits in it for the
\* rest of its page is lost; the ZRWA buffer is refilled.
ResetZone(Z) ==
  /\ change_zone_state(Z, active \union {"EMPTY", "FULL"}, "EMPTY")
  /\ release(in_state(Z, active), reset_opn(Z), {z \in in_state(Z, active) : zrwav[z]})
  /\ wp' = [z \in Zone |-> IF z \in Z THEN zone_to_slba(z) ELSE wp[z]]
  /\ zrwav' = [z \in Zone |-> z \notin Z /\ zrwav[z]]
  /\ zb' = [z \in Zone |-> IF z \in Z THEN ZRWA_BUFFER_SIZE ELSE zb[z]]
  /\ lost' = [z \in Zone |-> lost[z] + (IF z \in Z THEN residue(z) ELSE 0)]
  /\ UNCHANGED <<wb, flushing, tail, zflushing, held>> /\ no_outcome

\* acquire_zone_resource, from the counters acq, for the resources that are asked
acquire(acq, act, opn, zr) ==
  [acq EXCEPT !["ACTIVE_ZONE"] = @ + act, !["OPEN_ZONE"] = @ + opn, !["ZRWA_ZONE"] = @ + zr]

\* __zmgmt_send_open_zone on a zone in state s, the counters being acq: the
\* counters it leaves, and whether it gets through.
open_zone(s, acq, zr) ==
  LET fails == [ok |-> FALSE, acq |-> acq]
      full(r) == acq[r] = total_cnt
  IN  CASE s = "EMPTY" ->
             IF full("ACTIVE_ZONE") \/ full("OPEN_ZONE") \/ (zr /\ full("ZRWA_ZONE"))
             THEN fails
             ELSE [ok |-> TRUE, acq |-> acquire(acq, 1, 1, IF zr THEN 1 ELSE 0)]
        [] s = "CLOSED" ->
             IF acq["OPEN_ZONE"] < total_cnt
             THEN [ok |-> TRUE, acq |-> acquire(acq, 0, 1, 0)] ELSE fails
        [] s \in opened -> [ok |-> TRUE, acq |-> acq]
        [] OTHER -> fails

\* __zmgmt_send_open_zone on the zones of Z, in the order of their numbers: after
\* the zones below i, the counters and the zones that got through.
open_zones(Z, zr) ==
  LET upto[i \in 0 .. NR_ZONES] ==
        IF i = 0 THEN [acq |-> acquired_cnt, done |-> {}]
        ELSE IF i - 1 \notin Z THEN upto[i - 1]
        ELSE LET before == upto[i - 1]
                 o == open_zone(state[i - 1], before.acq, zr)
             IN  [acq |-> o.acq,
                  done |-> IF o.ok THEN before.done \union {i - 1} ELSE before.done]
  IN  upto

OpenZone(Z, zr) ==
  LET all == open_zones(Z, zr)[NR_ZONES]
  IN  /\ acquired_cnt' = all.acq
      /\ state' = [z \in Zone |-> IF z \in all.done THEN "OPENED_EXPL" ELSE state[z]]
      /\ zrwav' = [z \in Zone |-> zrwav[z] \/ (zr /\ z \in all.done /\ state[z] = "EMPTY")]
      /\ UNCHANGED <<wp, buffers, held>> /\ no_outcome

\* __zmgmt_send_flush_explicit_zrwa up to address a of zone z
flush_valid(z, a) ==
  /\ zrwav[z]
  /\ a >= wp[z] /\ a <= wp[z] + ZRWA - 1 /\ a <= zone_end(z) - 1
  /\ (a - wp[z] + 1) % ZRWAFG = 0
  /\ state[z] \in active

FlushZrwa(z, a) ==
  /\ flush_valid(z, a)
  /\ wp' = [wp EXCEPT ![z] = a + 1]
  /\ IF reaches_end(z, a + 1)
     THEN /\ release({z}, in_state({z}, opened), {z})
          /\ state' = [state EXCEPT ![z] = "FULL"]
     ELSE UNCHANGED <<state, acquired_cnt>>
  /\ UNCHANGED <<zrwav, buffers, held>> /\ no_outcome

Mgmt ==
  \/ \E Z \in selections : CloseZone(Z)
  \/ \E Z \in selections : FinishZone(Z)
  \/ \E Z \in selections : ResetZone(Z)
  \/ \E Z \in selections : \E zr \in {FALSE, Z \subseteq ZRWA_ZONES} : OpenZone(Z, zr)
  \/ \E z \in Zone : \E a \in Lba : lba_to_zone(a) = z /\ FlushZrwa(z, a)

-----------------------------------------------------------------------------
(* __zns_write.                                                            *)

wp_error(z, slba) == slba # wp[z]

boundary_error(slba, nlb) == lba_to_zone(slba) # lba_to_zone(slba + nlb - 1)

is_zone_resource_full(r) == acquired_cnt[r] = total_cnt

write_error(z, slba, nlb) ==
  \/ nlb % WRITE_UNIT # 0
  \/ boundary_error(slba, nlb)
  \/ wp_error(z, slba)
  \/ /\ state[z] = "EMPTY"
     /\ is_zone_resource_full("ACTIVE_ZONE") \/ is_zone_resource_full("OPEN_ZONE")
  \/ state[z] = "CLOSED" /\ is_zone_resource_full("OPEN_ZONE")
  \/ state[z] = "FULL"

\* (bug variant) the zone that became full keeps its active resource
fill_releases_open_only == [act |-> 0, opn |-> 1]

\* what __increase_write_ptr gives back when the zone becomes full: not the ZRWA
\* resource
fill_releases == [act |-> 1, opn |-> 1]

\* __increase_write_ptr, after the zone has taken act and opn resources.  (The
\* ASSERT in it is compiled to nothing.)
increase_write_ptr(z, nlb, act, opn) ==
  LET fills == reaches_end(z, wp[z] + nlb)
      back(n) == IF fills THEN n ELSE 0
  IN  /\ wp' = [wp EXCEPT ![z] = @ + nlb]
      /\ state' = [state EXCEPT ![z] = IF fills THEN "FULL"
                                       ELSE IF @ \in opened THEN @ ELSE "OPENED_IMPL"]
      /\ acquired_cnt' =
           [acquired_cnt EXCEPT !["ACTIVE_ZONE"] = @ + act - back(fill_releases.act),
                                !["OPEN_ZONE"]   = @ + opn - back(fill_releases.opn)]

\* one-shot pages completed by nlb blocks from address a of zone z on
oneshots(z, a, nlb) ==
  LET off == a - zone_to_slba(z) IN (off + nlb) \div ONESHOT - off \div ONESHOT

\* (bug variant) the last, short page of the zone gives back a whole one
tail_release_whole == ONESHOT

\* what the last page of a zone gives back if it is shorter than a one-shot page
tail_release == unaligned_space

ends_short(z, a, nlb) == a + nlb = zone_end(z) /\ unaligned_space > 0

\* A write or an append as it is in the submission queue.
command == [op : {"write", "append"}, zone : Zone, slba : 0 .. NR_ZONES * ZONE_SIZE,
            nlb : 1 .. MAX_NLB]

\* the address __zns_write works on; it is also stored back into an append
target(c) == IF c.op = "append" THEN wp[lba_to_zone(c.slba)] ELSE c.slba

\* The buffer is taken first; every error leaves it taken.
ZnsWrite(q, c) ==
  LET z == lba_to_zone(c.slba)
      a == target(c)
      fresh == IF state[z] = "EMPTY" THEN 1 ELSE 0
      reopened == IF state[z] \in {"EMPTY", "CLOSED"} THEN 1 ELSE 0
  IN  /\ ~zrwav[z]
      /\ IF wb[z] < c.nlb
         THEN /\ held' = [held EXCEPT ![q] = [c EXCEPT !.slba = a]]
              /\ UNCHANGED <<zones, buffers>> /\ no_outcome
         ELSE /\ held' = [held EXCEPT ![q] = no_cmd]
              /\ wb' = [wb EXCEPT ![z] = @ - c.nlb]
              /\ UNCHANGED <<zrwav, zb, zflushing>>
              /\ IF write_error(z, a, c.nlb)
                 THEN /\ lost' = [lost EXCEPT ![z] = @ + c.nlb]
                      /\ UNCHANGED <<state, wp, acquired_cnt, flushing, tail>> /\ no_outcome
                 ELSE /\ increase_write_ptr(z, c.nlb, fresh, reopened)
                      /\ flushing' = [flushing EXCEPT ![z] = @ + oneshots(z, a, c.nlb)]
                      /\ tail' = [tail EXCEPT ![z] = @ + (IF ends_short(z, a, c.nlb) THEN 1 ELSE 0)]
                      /\ ret' = IF c.op = "append" THEN [zone |-> c.zone, lba |-> a] ELSE no_ret
                      /\ UNCHANGED <<lost, panic>>

-----------------------------------------------------------------------------
(* __zns_write_zrwa: writes anywhere in the window of two ZRWA sizes behind*)
(* the write pointer; what falls into its second half pushes the pointer.  *)

round_up(n, m) == ((n + m - 1) \div m) * m

zrwa_error(z, a, nlb) ==
  \/ nlb % WRITE_UNIT # 0
  \/ boundary_error(a, nlb)
  \/ a < wp[z] \/ a + nlb - 1 > wp[z] + 2 * ZRWA - 1
  \/ state[z] = "CLOSED" /\ is_zone_resource_full("OPEN_ZONE")
  \/ state[z] = "FULL"

nr_lbas_flush(z, a, nlb) ==
  LET elba == a + nlb - 1 IN
  IF elba >= wp[z] + ZRWA THEN round_up(elba - (wp[z] + ZRWA) + 1, ZRWAFG)
  ELSE IF elba = zone_end(z) - 1 THEN elba - wp[z] + 1
  ELSE 0

\* A closed zone takes the ZRWA size from its buffer each time it is reopened;
\* NVMEV_ASSERT(0) if there is too little.  A write that is refused for lack of
\* buffer space has already opened the zone.
ZnsWriteZrwa(q, c) ==
  LET z == lba_to_zone(c.slba)
      a == c.slba
      n == nr_lbas_flush(z, a, c.nlb)
      reopened == state[z] = "CLOSED"
      left == zb[z] - (IF reopened THEN ZRWA ELSE 0)
      opn == IF reopened THEN 1 ELSE 0
  IN  /\ zrwav[z]
      /\ UNCHANGED <<zrwav, wb, flushing, tail, lost>> /\ ret' = no_ret
      /\ panic' = (~zrwa_error(z, a, c.nlb) /\ left < 0)
      /\ IF zrwa_error(z, a, c.nlb)
         THEN /\ held' = [held EXCEPT ![q] = no_cmd]
              /\ UNCHANGED <<state, wp, acquired_cnt, zb, zflushing>>
         ELSE IF left < 0
         THEN /\ acquired_cnt' = [acquired_cnt EXCEPT !["OPEN_ZONE"] = @ + 1]
              /\ UNCHANGED <<state, wp, zb, zflushing, held>>
         ELSE IF left < n
         THEN /\ held' = [held EXCEPT ![q] = c]
              /\ zb' = [zb EXCEPT ![z] = left]
              /\ state' = [state EXCEPT ![z] = IF reopened THEN "OPENED_IMPL" ELSE @]
              /\ acquired_cnt' = [acquired_cnt EXCEPT !["OPEN_ZONE"] = @ + opn]
              /\ UNCHANGED <<wp, zflushing>>
         ELSE /\ zflushing[z] + oneshots(z, wp[z], n) <= MAX_FLUSHES
              /\ held' = [held EXCEPT ![q] = no_cmd]
              /\ zb' = [zb EXCEPT ![z] = left - n]
              /\ zflushing' = [zflushing EXCEPT ![z] = @ + oneshots(z, wp[z], n)]
              /\ increase_write_ptr(z, n, 0, opn)

new_command ==
  {c \in command : /\ c.slba \in Lba /\ c.zone = lba_to_zone(c.slba)
                   /\ c.op = "append" => c.slba = zone_to_slba(c.zone)}

\* The dispatcher takes a new command, or the one it could not place before.
\* A command whose address has left the namespace is not followed any further.
Write(q) ==
  \E c \in IF held[q] = no_cmd THEN new_command ELSE {held[q]} :
    /\ c.slba \in Lba
    /\ ZnsWrite(q, c) \/ ZnsWriteZrwa(q, c)

\* an I/O worker carries out a scheduled buffer_release
Release(z) ==
  \/ /\ flushing[z] > 0
     /\ flushing' = [flushing EXCEPT ![z] = @ - 1]
     /\ wb' = [wb EXCEPT ![z] = @ + ONESHOT]
     /\ UNCHANGED <<zones, zb, tail, zflushing, lost, held>> /\ no_outcome
  \/ /\ tail[z] > 0
     /\ tail' = [tail EXCEPT ![z] = @ - 1]
     /\ wb' = [wb EXCEPT ![z] = @ + tail_release]
     /\ UNCHANGED <<zones, zb, flushing, zflushing, lost, held>> /\ no_outcome
  \/ /\ zflushing[z] > 0
     /\ zflushing' = [zflushing EXCEPT ![z] = @ - 1]
     /\ zb' = [zb EXCEPT ![z] = @ + ONESHOT]
     /\ UNCHANGED <<zones, wb, flushing, tail, lost, held>> /\ no_outcome

\* Nothing is dispatched any more once BUG_ON has hit; the workers go on.
Halted == panic /\ UNCHANGED vars

Next ==
  \/ ~panic /\ (Mgmt \/ \E q \in Queue : Write(q))
  \/ \E z \in Zone : Release(z)
  \/ Halted

Spec == Init /\ [][Next]_vars
-----------------------------------------------------------------------------
(* Properties.                                                             *)

\* Descriptors, counters and buffers keep their types; no counter and no buffer
\* goes below zero, where the unsigned field of the code would wrap.
TypeOK ==
  /\ state \in [Zone -> {"EMPTY", "OPENED_IMPL", "OPENED_EXPL", "CLOSED", "FULL"}]
  /\ wp \in [Zone -> Nat]
  /\ zrwav \in [Zone -> BOOLEAN]
  /\ acquired_cnt \in [Resource -> Nat]
  /\ wb \in [Zone -> Nat] /\ zb \in [Zone -> Nat]
  /\ flushing \in [Zone -> Nat] /\ tail \in [Zone -> Nat] /\ zflushing \in [Zone -> Nat]
  /\ lost \in [Zone -> Nat]
  /\ held \in [Queue -> command \union {no_cmd}]
  /\ ret \in [zone : Zone, lba : Lba \union {-1}]
  /\ panic \in BOOLEAN

\* The counters that enforce the limits are exact: OPEN_ZONE counts the open
\* zones and ACTIVE_ZONE the open and closed ones, after any mix of writes,
\* appends and management commands, refused or failed ones included.  ZRWA_ZONE
\* counts every active zone with a ZRWA (and the ones __increase_write_ptr
\* filled, which never give it back).  A panic may hit between a counter and the
\* state of its zone.
ResourceCounts ==
  ~panic =>
  /\ acquired_cnt["OPEN_ZONE"] = Cardinality(in_state(Zone, opened))
  /\ acquired_cnt["ACTIVE_ZONE"] = Cardinality(in_state(Zone, active))
  /\ acquired_cnt["ZRWA_ZONE"] >= Cardinality({z \in in_state(Zone, active) : zrwav[z]})

\* The write pointer and the state of a zone agree: it stays in its zone, it is
\* at the start of an empty zone, and a zone written to its end is full.
WritePointer ==
  \A z \in Zone :
    /\ wp[z] \in zone_to_slba(z) .. zone_end(z)
    /\ state[z] = "EMPTY" => wp[z] = zone_to_slba(z) /\ ~zrwav[z]
    /\ wp[z] = zone_end(z) => state[z] = "FULL"

\* The space of a zone's write buffer is neither given back twice nor lost on a
\* path that works: what is free, what is being flushed, what waits for the rest
\* of its page and what failed writes and resets have taken for good make up the
\* buffer, also at the short last page and across refusals, closes, finishes and
\* lives of the zone with and without a random write area; and no buffer falls
\* below zero (TypeOK).
BufferConserved ==
  /\ TypeOK
  /\ \A z \in Zone :
       wb[z] + flushing[z] * ONESHOT + tail[z] * unaligned_space + residue(z) + lost[z]
         = ZONE_WB_SIZE

\* "reported == expected": an append writes to the zone it was addressed to, and
\* reports an address there, however often it was refused and tried again.
AppendStaysInZone == ret # no_ret => lba_to_zone(ret.lba) = ret.zone
=============================================================================
