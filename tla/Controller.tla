----------------------------- MODULE Controller -----------------------------
(***************************************************************************)
(* The controller's life: the registers a driver programs, the admin queue *)
(* behind them, the I/O queues made and deleted through it, and their      *)
(* doorbells (pci.c: nvmev_proc_bars; main.c: nvmev_proc_dbs and the loop  *)
(* of nvmev_dispatcher; admin.c; io.c: nvmev_proc_io_sq/cq).               *)
(*                                                                         *)
(* Registers and doorbells are plain memory.  The dispatcher finds changes *)
(* by comparing them, one after the other, with the copies it keeps        *)
(* (old_bar, old_dbs), while the driver goes on writing; each comparison,  *)
(* with the branch it takes, is a step.                                    *)
(*                                                                         *)
(* The driver is the one NVMe drivers have in common: it programs aqa, asq,*)
(* acq and cc in this order, waits for csts.rdy, asks for a number of      *)
(* queues, makes completion queue before submission queue and deletes them *)
(* in the opposite order, and ends with a shutdown.  A driver bound again  *)
(* starts over.  It deletes a submission queue once its commands have been *)
(* completed, possibly before it looks at the completions ("SPDK deletes SQ*)
(* immediately before processing associated CQes").                        *)
(***************************************************************************)
EXTENDS Rings, FiniteSets

CONSTANTS
  Depth,             \* the sizes a driver may give its admin rings
  NR_MAX_IO_QUEUE,   \* of each kind
  IO_DEPTH,          \* queue_size of the I/O queues
  NR_CID,            \* number of command identifiers of admin commands
  Op,                \* the admin commands a driver sends besides queue management
  MAX_SESSIONS       \* bound: how often a driver is bound

\* The rings of the n-th binding are at address n: zeroed memory, and not where the
\* ones before were.
NoAddr == 0
Addr == 1 .. MAX_SESSIONS
Cid == 1 .. NR_CID
NoCid == 0
Qid == 1 .. NR_MAX_IO_QUEUE

ASSUME ControllerAssumption ==
  /\ NR_CID \in Nat \ {0}
  /\ Depth # {} /\ IsFiniteSet(Depth) /\ \A d \in Depth : d \in Nat /\ d > 1
  /\ NR_MAX_IO_QUEUE \in Nat \ {0} /\ IO_DEPTH \in Nat /\ IO_DEPTH > 1
  /\ Op \subseteq {"get_log_page", "identify", "get_features", "async_event", "abort", "format"}
  /\ MAX_SESSIONS \in Nat

VARIABLES
  (* the driver *)
  hpc, sessions,
  cmd,                   \* Cid -> the admin command it is used for
  sq_tail, cq_head_h, cq_phase_h,        \* its positions in the admin rings
  granted,               \* number of queues the device granted
  hq,                    \* Qid -> none, cq, pair, drain: the queues it has
  io,                    \* Qid -> idle, rung, dispatched, copied, posted
  cq_pos,                \* Qid -> its position in the completion queue
  (* shared memory: registers, doorbells, the driver's admin rings *)
  bar, csts, dbs, sq_ring, cq_ring, irq,
  (* the device *)
  old_bar, old_dbs,
  admin_q,               \* the struct, and alloc: is the pointer set?
  sqes, cqes,            \* Qid -> is there a queue?
  nr_sq, nr_cq,
  nr_in_flight,
  dpc, todo              \* the dispatcher; admin commands it is working off

host_io == <<hq, io, cq_pos>>
host_rings == <<sq_tail, cq_head_h, cq_phase_h>>
host   == <<hpc, sessions, cmd, host_rings, granted, host_io>>
rings  == <<sq_ring, cq_ring>>
shared == <<bar, csts, dbs, rings, irq>>
tables == <<sqes, cqes, nr_sq, nr_cq, nr_in_flight>>
device == <<old_bar, old_dbs, admin_q, tables, dpc, todo>>
vars   == <<host, shared, device>>

Slot == UNION {0 .. d - 1 : d \in Depth}
Bit == {0, 1}

SqDb(q) == 2 * q
CqDb(q) == 2 * q + 1
Db == {0} \union {SqDb(q) : q \in Qid} \union {CqDb(q) : q \in Qid}

cc(en, shn) == [en |-> en, shn |-> shn]
no_bar == [aqa |-> 0, asq |-> NoAddr, acq |-> NoAddr, cc |-> cc(0, 0)]
no_cmd == [state |-> "idle", op |-> "none", q |-> 0]
no_cqe == [cid |-> NoCid, phase |-> 0, result |-> 0]
empty_sq == [i \in Slot |-> NoCid]
empty_cq == [i \in Slot |-> no_cqe]

\* __init_nvme_ctrl_regs and __create_pci_bus: everything is zero.
Init ==
  /\ hpc = "off" /\ sessions = 0
  /\ cmd = [c \in Cid |-> no_cmd]
  /\ sq_tail = 0 /\ cq_head_h = 0 /\ cq_phase_h = 1
  /\ granted = 0
  /\ hq = [q \in Qid |-> "none"] /\ io = [q \in Qid |-> "idle"] /\ cq_pos = [q \in Qid |-> 0]
  /\ bar = no_bar /\ csts = [rdy |-> 0, shst |-> 0]
  /\ dbs = [i \in Db |-> 0] /\ old_dbs = [i \in Db |-> 0]
  /\ sq_ring = empty_sq /\ cq_ring = empty_cq /\ irq = FALSE
  /\ old_bar = no_bar
  /\ admin_q = [alloc |-> FALSE, sq |-> NoAddr, cq |-> NoAddr, sq_depth |-> 0,
                cq_depth |-> 0, cq_head |-> 0, phase |-> 0]
  /\ sqes = [q \in Qid |-> FALSE] /\ cqes = [q \in Qid |-> FALSE]
  /\ nr_sq = 0 /\ nr_cq = 0
  /\ nr_in_flight = [q \in Qid |-> 0]
  /\ dpc = "aqa" /\ todo = [curr |-> 0, num |-> 0, new_db |-> 0]

-----------------------------------------------------------------------------
(* The driver: binding and unbinding.                                      *)

unchanged_but_bar == UNCHANGED <<csts, dbs, irq, device>>

WriteDisable ==
  /\ hpc = "off" /\ sessions < MAX_SESSIONS
  /\ sessions' = sessions + 1
  /\ bar' = [bar EXCEPT !.cc = cc(0, 0)]
  /\ hpc' = "wait_off"
  /\ UNCHANGED <<cmd, host_rings, granted, host_io, rings>> /\ unchanged_but_bar

WriteAqa(d) ==
  /\ hpc = "wait_off" /\ csts.rdy = 0
  /\ bar' = [bar EXCEPT !.aqa = d]
  /\ hpc' = "asq"
  /\ UNCHANGED <<sessions, cmd, host_rings, granted, host_io, rings>> /\ unchanged_but_bar

WriteAsq ==
  /\ hpc = "asq"
  /\ bar' = [bar EXCEPT !.asq = sessions]
  /\ hpc' = "acq"
  /\ UNCHANGED <<sessions, cmd, host_rings, granted, host_io, rings>> /\ unchanged_but_bar

WriteAcq ==
  /\ hpc = "acq"
  /\ bar' = [bar EXCEPT !.acq = bar.asq]
  /\ hpc' = "cc"
  /\ UNCHANGED <<sessions, cmd, host_rings, granted, host_io, rings>> /\ unchanged_but_bar

noticed == old_bar.aqa = bar.aqa /\ old_bar.asq = bar.asq /\ old_bar.acq = bar.acq

\* The enabling write does not fall into a pass of nvmev_proc_bars that looked at
\* a register before it was written and has yet to look at cc.  (In such a pass
\* the device would be enabled, or WARN, before its rings are known.)
WriteEnable ==
  /\ hpc = "cc"
  /\ noticed \/ dpc \notin {"asq", "acq", "cc"}
  /\ bar' = [bar EXCEPT !.cc = cc(1, 0)]
  /\ hpc' = "wait_rdy"
  /\ UNCHANGED <<sessions, cmd, host_rings, granted, host_io, rings>> /\ unchanged_but_bar

SeeReady ==
  /\ hpc = "wait_rdy" /\ csts.rdy = 1
  /\ hpc' = "up"
  /\ UNCHANGED <<sessions, cmd, host_rings, granted, host_io, shared, device>>

\* Every command has been answered but the aborts, which the driver gives up when
\* their time is over.  It may leave its I/O queues behind.  The register says
\* that a shutdown is complete ever after the first one.
WriteShutdown ==
  /\ hpc = "up"
  /\ \A c \in Cid : cmd[c].state \in {"idle", "dropped"}
  /\ \A q \in Qid : io[q] = "idle"
  /\ bar' = [bar EXCEPT !.cc = cc(1, 1)]
  /\ hpc' = "wait_shst"
  /\ UNCHANGED <<sessions, cmd, host_rings, granted, host_io, rings>> /\ unchanged_but_bar

\* The driver forgets its queues and frees its rings.
SeeShutdown ==
  /\ hpc = "wait_shst" /\ csts.shst = 2
  /\ cmd' = [c \in Cid |-> no_cmd]
  /\ sq_tail' = 0 /\ cq_head_h' = 0 /\ cq_phase_h' = 1 /\ granted' = 0
  /\ hq' = [q \in Qid |-> "none"] /\ cq_pos' = [q \in Qid |-> 0]
  /\ sq_ring' = empty_sq /\ cq_ring' = empty_cq
  /\ hpc' = "off"
  /\ UNCHANGED <<sessions, io, bar, csts, dbs, irq, device>>

Bind ==
  \/ WriteDisable \/ WriteAsq \/ WriteAcq \/ WriteEnable \/ SeeReady
  \/ \E d \in Depth : WriteAqa(d)

-----------------------------------------------------------------------------
(* The driver: admin commands and I/O.                                     *)

pending(q) == \E c \in Cid : cmd[c].state # "idle" /\ cmd[c].q = q

queues_pending == \E c \in Cid : cmd[c].op = "set_queues"

\* the commands that are in order now: aborts for I/O that is overdue, queues from
\* creation to deletion; that of set_queues names a number of queues
in_order(op, q) ==
  \/ op \in Op /\ q = 0 /\ (op = "abort" => \E i \in Qid : io[i] # "idle")
  \/ op = "set_queues" /\ q > 0 /\ granted = 0 /\ ~queues_pending
  \/ /\ q \in 1 .. granted /\ ~pending(q)
     /\ \/ op = "create_cq" /\ hq[q] = "none"
        \/ op = "create_sq" /\ hq[q] = "cq"
        \/ op = "delete_sq" /\ hq[q] = "pair" /\ io[q] \in {"idle", "posted"}
        \/ op = "delete_cq" /\ hq[q] = "drain" /\ io[q] = "idle"

QueueOp == {"set_queues", "create_cq", "create_sq", "delete_sq", "delete_cq"}

\* the identifiers in use; the driver takes the lowest one that is not, and has
\* fewer commands under way than its rings have slots
in_use == {c \in Cid : cmd[c].state # "idle"}
next_cid == CHOOSE c \in Cid : c \notin in_use /\ \A d \in 1 .. c - 1 : d \in in_use

Send(op, q) ==
  LET c == next_cid IN
  /\ hpc = "up"
  /\ in_use # Cid /\ Cardinality(in_use) < bar.aqa - 1 /\ in_order(op, q)
  /\ cmd' = [cmd EXCEPT ![c] = [state |-> "sent", op |-> op, q |-> q]]
  /\ sq_ring' = [sq_ring EXCEPT ![sq_tail] = c]
  /\ sq_tail' = (sq_tail + 1) % bar.aqa
  /\ dbs' = [dbs EXCEPT ![0] = sq_tail']
  /\ UNCHANGED <<hpc, sessions, cq_head_h, cq_phase_h, granted, host_io,
                 bar, csts, cq_ring, irq, device>>

entry_is_new == cq_ring[cq_head_h].phase = cq_phase_h

\* what the completion of a command tells the driver about its queues
hq_after(e) ==
  LET x == cmd[e.cid] IN
  [q \in Qid |-> IF x.q # q \/ x.op = "set_queues" THEN hq[q]
                 ELSE CASE x.op = "create_cq" -> "cq"
                        [] x.op = "create_sq" -> "pair"
                        [] x.op = "delete_sq" -> "drain"
                        [] x.op = "delete_cq" -> "none"]

Take ==
  LET e == cq_ring[cq_head_h] IN
  /\ irq /\ hpc = "up" /\ entry_is_new
  /\ cmd' = [cmd EXCEPT ![e.cid] = no_cmd]
  /\ hq' = hq_after(e)
  /\ cq_pos' = [q \in Qid |-> IF hq[q] = "none" THEN 0 ELSE cq_pos[q]]
  /\ granted' = IF cmd[e.cid].op = "set_queues" THEN e.result ELSE granted
  /\ cq_head_h' = (cq_head_h + 1) % bar.aqa
  /\ cq_phase_h' = IF cq_head_h' = 0 THEN 1 - cq_phase_h ELSE cq_phase_h
  /\ UNCHANGED <<hpc, sessions, sq_tail, io, shared, device>>

HandlerReturns ==
  /\ irq /\ ~(hpc = "up" /\ entry_is_new)
  /\ irq' = FALSE
  /\ UNCHANGED <<host, bar, csts, dbs, rings, device>>

SubmitIo(q) ==
  /\ hpc = "up" /\ hq[q] = "pair" /\ ~pending(q) /\ io[q] = "idle"
  /\ io' = [io EXCEPT ![q] = "rung"]
  /\ dbs' = [dbs EXCEPT ![SqDb(q)] = (@ + 1) % IO_DEPTH]
  /\ UNCHANGED <<hpc, sessions, cmd, host_rings, granted, hq, cq_pos, bar, csts,
                 rings, irq, device>>

TakeIo(q) ==
  /\ io[q] = "posted"
  /\ io' = [io EXCEPT ![q] = "idle"]
  /\ cq_pos' = [cq_pos EXCEPT ![q] = (@ + 1) % IO_DEPTH]
  /\ dbs' = [dbs EXCEPT ![CqDb(q)] = cq_pos'[q]]
  /\ UNCHANGED <<hpc, sessions, cmd, host_rings, granted, hq, bar, csts, rings, irq, device>>

-----------------------------------------------------------------------------
(* nvmev_proc_bars: four comparisons; one that finds a change ends the     *)
(* pass.                                                                   *)

rest_of_bars == UNCHANGED <<tables, todo, host, bar, rings, irq>>

\* (bug variant) the admin queue keeps its position and its phase
restart_keeps(aq) == aq

\* a completion queue that is set up starts at its first slot with phase 1
restart(aq) == [aq EXCEPT !.cq_head = 0, !.phase = 1]

\* dbs[0] = old_dbs[0] = 0 (dbs[1] too; nothing ever depends on it)
clear_admin_db ==
  /\ dbs' = [dbs EXCEPT ![0] = 0]
  /\ old_dbs' = [old_dbs EXCEPT ![0] = 0]

CheckAqa ==
  /\ dpc = "aqa"
  /\ IF old_bar.aqa # bar.aqa
     THEN /\ old_bar' = [old_bar EXCEPT !.aqa = bar.aqa]
          /\ admin_q' = [restart(admin_q) EXCEPT !.alloc = TRUE, !.sq_depth = bar.aqa,
                                                 !.cq_depth = bar.aqa]
          /\ clear_admin_db
          /\ dpc' = "db"
     ELSE dpc' = "asq" /\ UNCHANGED <<old_bar, admin_q, dbs, old_dbs>>
  /\ UNCHANGED csts /\ rest_of_bars

\* An asq seen before the aqa that came first is left for the next pass.
CheckAsq ==
  /\ dpc = "asq"
  /\ IF old_bar.asq = bar.asq
     THEN dpc' = "acq" /\ UNCHANGED <<old_bar, admin_q, dbs, old_dbs>>
     ELSE /\ dpc' = "db"
          /\ IF ~admin_q.alloc
             THEN UNCHANGED <<old_bar, admin_q, dbs, old_dbs>>
             ELSE /\ old_bar' = [old_bar EXCEPT !.asq = bar.asq]
                  /\ admin_q' = [admin_q EXCEPT !.sq = bar.asq, !.sq_depth = bar.aqa]
                  /\ clear_admin_db
  /\ UNCHANGED csts /\ rest_of_bars

CheckAcq ==
  /\ dpc = "acq"
  /\ IF old_bar.acq = bar.acq
     THEN dpc' = "cc" /\ UNCHANGED <<old_bar, admin_q>>
     ELSE /\ dpc' = "db"
          /\ IF ~admin_q.alloc
             THEN UNCHANGED <<old_bar, admin_q>>
             ELSE /\ old_bar' = [old_bar EXCEPT !.acq = bar.acq]
                  /\ admin_q' = [restart(admin_q) EXCEPT !.cq = bar.acq, !.cq_depth = bar.aqa]
  /\ UNCHANGED <<csts, dbs, old_dbs>> /\ rest_of_bars

\* csts.rdy once cc.en is seen: an enable without an admin queue only warns
rdy_after(en) == IF en = 1 /\ ~admin_q.alloc THEN csts.rdy ELSE en

CheckCc ==
  /\ dpc = "cc"
  /\ dpc' = "db"
  /\ IF old_bar.cc = bar.cc
     THEN UNCHANGED <<old_bar, admin_q, csts, dbs, old_dbs>>
     ELSE /\ old_bar' = [old_bar EXCEPT !.cc = bar.cc]
          /\ csts' = [rdy  |-> rdy_after(bar.cc.en),
                      shst |-> IF bar.cc.shn = 1 THEN 2 ELSE csts.shst]
          /\ IF bar.cc.shn = 1
             THEN clear_admin_db /\ admin_q' = [admin_q EXCEPT !.cq_head = 0]
             ELSE UNCHANGED <<dbs, old_dbs, admin_q>>
  /\ rest_of_bars

-----------------------------------------------------------------------------
(* admin.c: one handler per opcode, each ending in a completion entry.     *)

\* (bug variant) the phase is kept at the end of the ring
next_pos_no_flip(aq) == [aq EXCEPT !.cq_head = (@ + 1) % aq.cq_depth]

next_pos(aq) ==
  IF aq.cq_head + 1 = aq.cq_depth THEN [aq EXCEPT !.cq_head = 0, !.phase = 1 - @]
  ELSE [aq EXCEPT !.cq_head = @ + 1]

\* the status only says whether the opcode is known, and is left out
make_cq_entry_results(c, res) ==
  /\ cq_ring' = [cq_ring EXCEPT ![admin_q.cq_head] =
                   [cid |-> c, phase |-> admin_q.phase, result |-> res]]
  /\ admin_q' = next_pos(admin_q)
  /\ cmd' = [cmd EXCEPT ![c].state = "answered"]

make_cq_entry(c) == make_cq_entry_results(c, 0)

CreateCq(c) ==
  LET q == cmd[c].q IN
  /\ cmd[c].op = "create_cq"
  /\ cqes' = [cqes EXCEPT ![q] = TRUE]
  /\ dbs' = [dbs EXCEPT ![CqDb(q)] = 0] /\ old_dbs' = [old_dbs EXCEPT ![CqDb(q)] = 0]
  /\ make_cq_entry(c)
  /\ UNCHANGED <<sqes, nr_sq, nr_cq, nr_in_flight>>

DeleteCq(c) ==
  /\ cmd[c].op = "delete_cq"
  /\ cqes' = [cqes EXCEPT ![cmd[c].q] = FALSE]
  /\ make_cq_entry(c)
  /\ UNCHANGED <<sqes, nr_sq, nr_cq, nr_in_flight, dbs, old_dbs>>

\* (bug variant) only the doorbell register is cleared
cleared_at_create_sq_none(od, q) == od

\* the dispatcher's copy of the doorbell of a new submission queue
cleared_at_create_sq(od, q) == [od EXCEPT ![SqDb(q)] = 0]

\* a new structure: its statistics start at zero
CreateSq(c) ==
  LET q == cmd[c].q IN
  /\ cmd[c].op = "create_sq"
  /\ sqes' = [sqes EXCEPT ![q] = TRUE]
  /\ nr_in_flight' = [nr_in_flight EXCEPT ![q] = 0]
  /\ dbs' = [dbs EXCEPT ![SqDb(q)] = 0] /\ old_dbs' = cleared_at_create_sq(old_dbs, q)
  /\ make_cq_entry(c)
  /\ UNCHANGED <<cqes, nr_sq, nr_cq>>

\* the structure is freed, and its statistics with it
DeleteSq(c) ==
  LET q == cmd[c].q IN
  /\ cmd[c].op = "delete_sq"
  /\ sqes' = [sqes EXCEPT ![q] = FALSE]
  /\ nr_in_flight' = [nr_in_flight EXCEPT ![q] = 0]
  /\ make_cq_entry(c)
  /\ UNCHANGED <<cqes, nr_sq, nr_cq, dbs, old_dbs>>

\* Set and get features, number of queues: the answer is what is granted (0-based
\* in the entry).  The other features are not kept.
SetQueues(c) ==
  LET n == IF cmd[c].q < NR_MAX_IO_QUEUE THEN cmd[c].q ELSE NR_MAX_IO_QUEUE IN
  /\ cmd[c].op = "set_queues"
  /\ nr_sq' = n /\ nr_cq' = n
  /\ make_cq_entry_results(c, n)
  /\ UNCHANGED <<sqes, cqes, nr_in_flight, dbs, old_dbs>>

get_features_result(op) == IF op = "get_features" THEN nr_sq ELSE 0

\* Log pages, identify pages, features and events change nothing, and an opcode
\* that is not handled does not either: all are answered.
Query(c) ==
  /\ cmd[c].op \in Op \ {"abort"}
  /\ make_cq_entry_results(c, get_features_result(cmd[c].op))
  /\ UNCHANGED <<tables, dbs, old_dbs>>

\* An abort is not carried out, and not answered either.
Abort(c) ==
  /\ cmd[c].op = "abort"
  /\ cmd' = [cmd EXCEPT ![c].state = "dropped"]
  /\ UNCHANGED <<admin_q, cq_ring, tables, dbs, old_dbs>>

-----------------------------------------------------------------------------
(* nvmev_proc_dbs.                                                         *)

host_rest == <<hpc, sessions, host_rings, granted, host_io, bar, csts, sq_ring>>

\* (bug variant) a doorbell behind the old one is taken for an empty ring
distance_no_wrap(new, old, n) == IF new < old THEN 0 ELSE new - old

distance(new, old, n) == IF new < old THEN new - old + n ELSE new - old

SeeAdminDb ==
  /\ dpc = "db"
  /\ IF dbs[0] = old_dbs[0]
     THEN dpc' = "iosq" /\ UNCHANGED todo
     ELSE /\ dpc' = "admin"
          /\ todo' = [curr |-> old_dbs[0], new_db |-> dbs[0],
                      num |-> distance(dbs[0], old_dbs[0], admin_q.sq_depth)]
  /\ UNCHANGED <<host, shared, old_bar, old_dbs, admin_q, tables>>

\* The device reads and writes the rings it was given; what it would do with
\* rings that are not the driver's is not followed.
on_rings == admin_q.sq = bar.asq /\ admin_q.cq = bar.acq

AdminReq ==
  LET c == sq_ring[todo.curr] IN
  /\ dpc = "admin" /\ todo.num > 0 /\ on_rings /\ c \in Cid
  /\ \/ CreateCq(c) \/ DeleteCq(c) \/ CreateSq(c) \/ DeleteSq(c)
     \/ SetQueues(c) \/ Query(c) \/ Abort(c)
  /\ todo' = [todo EXCEPT !.num = @ - 1, !.curr = (@ + 1) % admin_q.sq_depth]
  /\ UNCHANGED <<host_rest, irq, old_bar, dpc>>

\* (bug variant) the interrupt is raised only if the batch was the last one
AdminDone_quiet ==
  /\ dpc = "admin" /\ todo.num = 0
  /\ irq' = (irq \/ dbs[0] = todo.new_db)
  /\ old_dbs' = [old_dbs EXCEPT ![0] = todo.new_db]
  /\ todo' = [curr |-> 0, num |-> 0, new_db |-> 0]
  /\ dpc' = "iosq"
  /\ UNCHANGED <<host, bar, csts, dbs, rings, old_bar, admin_q, tables>>

AdminDone ==
  /\ dpc = "admin" /\ todo.num = 0
  /\ irq' = TRUE
  /\ old_dbs' = [old_dbs EXCEPT ![0] = todo.new_db]
  /\ todo' = [curr |-> 0, num |-> 0, new_db |-> 0]
  /\ dpc' = "iosq"
  /\ UNCHANGED <<host, bar, csts, dbs, rings, old_bar, admin_q, tables>>

\* the submission queues the loop looks at and whose doorbell has moved
moved == {q \in 1 .. nr_sq : sqes[q] /\ dbs[SqDb(q)] # old_dbs[SqDb(q)]}

\* The FTL accepts the commands of some of them (nvmev_proc_io_sq); the others
\* are tried again in the next pass.
ProcIoSq(accepted) ==
  /\ dpc = "iosq"
  /\ io' = [q \in Qid |-> IF q \in accepted THEN "dispatched" ELSE io[q]]
  /\ old_dbs' = [i \in Db |-> IF \E q \in accepted : i = SqDb(q) THEN dbs[i] ELSE old_dbs[i]]
  /\ nr_in_flight' = [q \in Qid |-> nr_in_flight[q] + (IF q \in accepted THEN 1 ELSE 0)]
  /\ dpc' = "iocq"
  /\ UNCHANGED <<hpc, sessions, cmd, host_rings, granted, hq, cq_pos, shared, old_bar,
                 admin_q, sqes, cqes, nr_sq, nr_cq, todo>>

\* (bug variant) the loop goes on with entry 1 after the last one
acknowledged_skips_first(new, old) == IF new < old THEN IO_DEPTH - old + new - 1 ELSE new - old

\* entries of a completion queue between two values of its doorbell
acknowledged(new, old) == IF new < old THEN IO_DEPTH - old + new ELSE new - old

\* nvmev_proc_io_cq counts a completion if the submission queue still exists
counts_cqe(q) == sqes[q]

\* nvmev_proc_io_cq for every completion queue whose doorbell has moved
ProcIoCq ==
  LET seen == {q \in 1 .. nr_cq : cqes[q]} IN
  /\ dpc = "iocq"
  /\ nr_in_flight' =
       [q \in Qid |-> IF q \in seen /\ counts_cqe(q)
                      THEN nr_in_flight[q] - acknowledged(dbs[CqDb(q)], old_dbs[CqDb(q)])
                      ELSE nr_in_flight[q]]
  /\ old_dbs' = [i \in Db |-> IF \E q \in seen : i = CqDb(q) THEN dbs[i] ELSE old_dbs[i]]
  /\ dpc' = "aqa"
  /\ UNCHANGED <<host, shared, old_bar, admin_q, sqes, cqes, nr_sq, nr_cq, todo>>

-----------------------------------------------------------------------------
(* The I/O workers: a command is copied from its submission queue, and     *)
(* completed into the completion queue.                                    *)

WorkerCopy(q) ==
  /\ io[q] = "dispatched" /\ sqes[q]
  /\ io' = [io EXCEPT ![q] = "copied"]
  /\ UNCHANGED <<hpc, sessions, cmd, host_rings, granted, hq, cq_pos, shared, device>>

WorkerPost(q) ==
  /\ io[q] = "copied" /\ cqes[q]
  /\ io' = [io EXCEPT ![q] = "posted"]
  /\ UNCHANGED <<hpc, sessions, cmd, host_rings, granted, hq, cq_pos, shared, device>>

-----------------------------------------------------------------------------
Dispatcher ==
  \/ CheckAqa \/ CheckAsq \/ CheckAcq \/ CheckCc
  \/ SeeAdminDb \/ AdminReq \/ AdminDone
  \/ \E accepted \in SUBSET moved : ProcIoSq(accepted)
  \/ ProcIoCq

Worker == \E q \in Qid : WorkerCopy(q) \/ WorkerPost(q)
Handler == Take \/ HandlerReturns

Next ==
  \/ Bind \/ WriteShutdown \/ SeeShutdown
  \/ \E op \in Op \union QueueOp, q \in 0 .. NR_MAX_IO_QUEUE + 1 : Send(op, q)
  \/ Handler
  \/ \E q \in Qid : SubmitIo(q) \/ TakeIo(q)
  \/ Dispatcher
  \/ Worker

Spec == Init /\ [][Next]_vars

-----------------------------------------------------------------------------
(* Properties.                                                             *)

Cmd == [state : {"idle", "sent", "answered", "dropped"},
        op : Op \union QueueOp \union {"none"}, q : 0 .. NR_MAX_IO_QUEUE + 1]
Cqe == [cid : Cid \union {NoCid}, phase : Bit, result : 0 .. NR_MAX_IO_QUEUE]
Regs == [aqa : Depth \union {0}, asq : Addr \union {NoAddr}, acq : Addr \union {NoAddr},
         cc : [en : Bit, shn : Bit]]
AdminQ == [alloc : BOOLEAN, sq : Addr \union {NoAddr}, cq : Addr \union {NoAddr},
           sq_depth : Depth \union {0}, cq_depth : Depth \union {0},
           cq_head : Slot, phase : Bit]

\* Registers, rings, tables and positions keep their types; a position lies in
\* the ring it is for.
TypeOK ==
  /\ hpc \in {"off", "wait_off", "asq", "acq", "cc", "wait_rdy", "up", "wait_shst"}
  /\ sessions \in 0 .. MAX_SESSIONS
  /\ cmd \in [Cid -> Cmd]
  /\ sq_tail \in Slot /\ cq_head_h \in Slot /\ cq_phase_h \in Bit
  /\ granted \in 0 .. NR_MAX_IO_QUEUE
  /\ hq \in [Qid -> {"none", "cq", "pair", "drain"}]
  /\ io \in [Qid -> {"idle", "rung", "dispatched", "copied", "posted"}]
  /\ cq_pos \in [Qid -> 0 .. IO_DEPTH - 1]
  /\ bar \in Regs /\ old_bar \in Regs
  /\ csts \in [rdy : Bit, shst : {0, 2}]
  /\ dbs \in [Db -> Nat] /\ old_dbs \in [Db -> Nat]
  /\ sq_ring \in [Slot -> Cid \union {NoCid}] /\ cq_ring \in [Slot -> Cqe]
  /\ irq \in BOOLEAN
  /\ admin_q \in AdminQ
  /\ admin_q.cq_head < admin_q.cq_depth \/ admin_q.cq_head = 0
  /\ sqes \in [Qid -> BOOLEAN] /\ cqes \in [Qid -> BOOLEAN]
  /\ nr_sq \in 0 .. NR_MAX_IO_QUEUE /\ nr_cq \in 0 .. NR_MAX_IO_QUEUE
  /\ nr_in_flight \in [Qid -> Int]
  /\ dpc \in {"aqa", "asq", "acq", "cc", "db", "admin", "iosq", "iocq"}
  /\ todo \in [curr : Slot, num : Slot, new_db : Slot]

\* "We have to process the changes strategically": when a driver sees csts.rdy,
\* the admin queue is on the rings of this binding, with their sizes, at their
\* beginning and with phase 1, whatever the binding before left behind and
\* however the driver's writes fell between the comparisons.
ReadyIsProgrammed ==
  hpc = "wait_rdy" /\ csts.rdy = 1 =>
    /\ on_rings
    /\ admin_q.sq_depth = bar.aqa /\ admin_q.cq_depth = bar.aqa
    /\ admin_q.cq_head = 0 /\ admin_q.phase = 1
    /\ dbs[0] = 0 /\ old_dbs[0] = 0 /\ dpc # "admin"

\* admin commands the dispatcher has not come to
unprocessed == slots(IF dpc = "admin" THEN todo.curr ELSE old_dbs[0], dbs[0], bar.aqa)

\* Every admin command is carried out exactly once: the commands that wait are
\* those in the unprocessed slots of the ring, each in one of them, although the
\* doorbell moves while a batch is worked off and is reset between bindings.
AdminOnce ==
  hpc = "up" =>
    /\ {sq_ring[i] : i \in unprocessed} = {c \in Cid : cmd[c].state = "sent"}
    /\ Cardinality(unprocessed) = Cardinality({c \in Cid : cmd[c].state = "sent"})

fresh_entries == slots(cq_head_h, admin_q.cq_head, bar.aqa)

\* The phase bits tell the driver which admin completions are new, through
\* wraps of the ring and in every binding: what the device counts in cq_head and
\* phase agrees with what the driver counts in rings it zeroed itself, and every
\* position lies in the ring it is for (TypeOK).
AnswersAreNew ==
  /\ TypeOK
  /\ hpc = "up" =>
       /\ {cq_ring[i].cid : i \in fresh_entries} = {c \in Cid : cmd[c].state = "answered"}
       /\ Cardinality(fresh_entries) = Cardinality({c \in Cid : cmd[c].state = "answered"})
       /\ entry_is_new <=> fresh_entries # {}

\* A doorbell of an I/O queue that was rung is seen, and none is seen that was
\* not: the position the dispatcher keeps agrees with the register in every life
\* of the queue, until the driver rings; then the queue is in the table, and
\* within the range the dispatcher looks at.
RungIsSeen ==
  \A q \in Qid :
    /\ io[q] = "rung" => q \in moved
    /\ q \in moved => io[q] = "rung"

\* completions the driver has acknowledged and the dispatcher has not counted
unseen_acks(q) == (dbs[CqDb(q)] - old_dbs[CqDb(q)]) % IO_DEPTH

\* nr_in_flight of a queue the driver uses counts its commands from their
\* dispatch to the acknowledgement, through deletion and creation of queues of
\* the same number: the unsigned counter never falls below zero.  Two commands can
\* be acknowledged between two looks at the doorbell, so a ring has three entries
\* or more: in one of two, the doorbell is back where it was and both are missed.
InFlightExact ==
  \A q \in Qid :
    hq[q] = "pair" /\ sqes[q] =>
      nr_in_flight[q] = unseen_acks(q) +
                        (IF io[q] \in {"dispatched", "copied", "posted"} THEN 1 ELSE 0)

\* No driver waits in vain: once the dispatcher has seen all that was written to
\* the registers, an enabled controller is ready and a shutdown is complete, also
\* when the writes were seen late, several at a time, or as an asq without the
\* aqa that came before it; and while an answer is there to be taken, the
\* interrupt that says so is up or is yet to be raised for its batch.
NothingOverlooked ==
  /\ hpc = "wait_rdy" /\ old_bar = bar => csts.rdy = 1
  /\ hpc = "wait_off" /\ old_bar = bar => csts.rdy = 0
  /\ hpc = "wait_shst" /\ old_bar = bar => csts.shst = 2
  /\ hpc = "up" /\ fresh_entries # {} => irq \/ dpc = "admin"
=============================================================================
