----------------------------- MODULE QueuePair -----------------------------
(***************************************************************************)
(* The rings the host and the device share: submission queues with their   *)
(* doorbells, and one completion queue that several I/O workers fill.      *)
(* The dispatcher polls the doorbells and hands each new command to the    *)
(* worker of its submission queue; a worker writes the completion entry    *)
(* under cq.entry_lock; the worker that owns the completion queue turns    *)
(* interrupt_ready into an interrupt after each pass over its requests     *)
(* (main.c: nvmev_proc_dbs; io.c: nvmev_proc_io_sq, __fill_cq_result and   *)
(* the end of nvmev_io_worker).                                            *)
(*                                                                         *)
(* The host is the NVMe driver: it has a command identifier per command in *)
(* flight, too few to fill a submission queue or the completion queue, and *)
(* takes completion entries by their phase bit when it is interrupted.     *)
(***************************************************************************)
EXTENDS Rings, FiniteSets

CONSTANTS
  Sq,        \* submission queues; queue s is served by worker s (__get_io_worker)
  OWNER,     \* the worker that raises the interrupts of the completion queue
  Tag,       \* command identifiers of the host
  SQ_SIZE,   \* sq.queue_size
  CQ_SIZE    \* cq.queue_size

NoTag == "none"

ASSUME RingAssumption ==
  /\ IsFiniteSet(Sq) /\ OWNER \in Sq
  /\ IsFiniteSet(Tag) /\ NoTag \notin Tag /\ "none" \notin Sq
  /\ SQ_SIZE \in Nat /\ SQ_SIZE > Cardinality(Tag)
  /\ CQ_SIZE \in Nat /\ CQ_SIZE > Cardinality(Tag)

Bit == {0, 1}
flip(b) == 1 - b

VARIABLES
  (* the host *)
  state,                \* Tag -> idle, submitted, dispatched, filling, posted
  sq_of,                \* Tag -> the submission queue it is used for, chosen at the start
  host_head, host_phase, irq,
  (* submission queues *)
  sq, dbs, old_dbs,
  (* the dispatcher in nvmev_proc_io_sq: the queue, sq_entry and new_db *)
  disp,
  (* the request each worker is completing *)
  filling,
  (* the completion queue *)
  cq, cq_head, phase, interrupt_ready, entry_lock,
  wpc

host == <<state, sq_of, host_head, host_phase, irq>>
sqs  == <<sq, dbs, old_dbs>>
cqs  == <<cq, cq_head, phase, interrupt_ready, entry_lock>>
workers == <<filling, wpc>>
vars == <<host, sqs, disp, cqs, workers>>

idle_disp == [sq |-> "none", entry |-> 0, new_db |-> 0]

\* the identifying fields of an entry and its phase; the result words are left out
empty_cqe == [tag |-> NoTag, phase |-> 0]

Init ==
  /\ state = [t \in Tag |-> "idle"] /\ sq_of \in [Tag -> Sq]
  /\ host_head = 0 /\ host_phase = 1 /\ irq = FALSE
  /\ sq = [s \in Sq |-> [i \in 0 .. SQ_SIZE - 1 |-> NoTag]]
  /\ dbs = [s \in Sq |-> 0] /\ old_dbs = [s \in Sq |-> 0]
  /\ disp = idle_disp
  /\ filling = [s \in Sq |-> NoTag]
  /\ cq = [i \in 0 .. CQ_SIZE - 1 |-> empty_cqe]
  /\ cq_head = 0 /\ phase = 1 /\ interrupt_ready = FALSE /\ entry_lock = "none"
  /\ wpc = [s \in Sq |-> "pass"]

-----------------------------------------------------------------------------
(* The host.                                                               *)

\* Put a command into the ring and ring the doorbell.
Submit(t) ==
  LET s == sq_of[t] IN
  /\ state[t] = "idle"
  /\ state' = [state EXCEPT ![t] = "submitted"]
  /\ sq' = [sq EXCEPT ![s][dbs[s]] = t]
  /\ dbs' = [dbs EXCEPT ![s] = (@ + 1) % SQ_SIZE]
  /\ UNCHANGED <<sq_of, host_head, host_phase, irq, old_dbs, disp, cqs, workers>>

entry_is_new == cq[host_head].phase = host_phase

\* The interrupt handler takes one entry after the other ...
Take ==
  /\ irq
  /\ entry_is_new
  /\ state' = [state EXCEPT ![cq[host_head].tag] = "idle"]
  /\ host_head' = (host_head + 1) % CQ_SIZE
  /\ host_phase' = IF host_head + 1 = CQ_SIZE THEN flip(host_phase) ELSE host_phase
  /\ UNCHANGED <<sq_of, irq, sqs, disp, cqs, workers>>

\* ... and returns when the next one is old.
HandlerReturns ==
  /\ irq
  /\ ~entry_is_new
  /\ irq' = FALSE
  /\ UNCHANGED <<state, sq_of, host_head, host_phase, sqs, disp, cqs, workers>>

-----------------------------------------------------------------------------
(* The dispatcher.                                                         *)

\* nvmev_proc_dbs finds a doorbell that has moved.
SeeDoorbell(s) ==
  /\ disp = idle_disp
  /\ dbs[s] # old_dbs[s]
  /\ disp' = [sq |-> s, entry |-> old_dbs[s], new_db |-> dbs[s]]
  /\ UNCHANGED <<host, sqs, cqs, workers>>

\* (bug variant) the processed position is where the doorbell is by now
processed_upto_doorbell(s) == dbs[s]

\* what nvmev_proc_io_sq returns: the entry it came to
processed_upto(s) == disp.entry

next_entry(e) == IF e + 1 = SQ_SIZE THEN 0 ELSE e + 1

\* __nvmev_proc_io accepts the command: it goes to the worker of its queue,
\* which completes its requests in the order of their target times.
Accept(s) ==
  /\ disp.sq = s
  /\ disp.entry # disp.new_db
  /\ state' = [state EXCEPT ![sq[s][disp.entry]] = "dispatched"]
  /\ disp' = [disp EXCEPT !.entry = next_entry(@)]
  /\ UNCHANGED <<sq_of, host_head, host_phase, irq, sqs, cqs, workers>>

\* the FTL has no room (proc_io_cmd returns false): the loop is left, and the
\* same command is tried again in the next round
Refuse(s) ==
  /\ disp.sq = s
  /\ disp.entry # disp.new_db
  /\ old_dbs' = [old_dbs EXCEPT ![s] = processed_upto(s)]
  /\ disp' = idle_disp
  /\ UNCHANGED <<host, sq, dbs, cqs, workers>>

SqDone(s) ==
  /\ disp.sq = s
  /\ disp.entry = disp.new_db
  /\ old_dbs' = [old_dbs EXCEPT ![s] = processed_upto(s)]
  /\ disp' = idle_disp
  /\ UNCHANGED <<host, sq, dbs, cqs, workers>>

-----------------------------------------------------------------------------
(* The workers: __fill_cq_result for the requests that are due, ...        *)

\* the pass comes to a request of the worker's queue that is due
Pick(s, t) ==
  /\ wpc[s] = "pass"
  /\ state[t] = "dispatched" /\ sq_of[t] = s
  /\ filling' = [filling EXCEPT ![s] = t]
  /\ state' = [state EXCEPT ![t] = "filling"]
  /\ wpc' = [wpc EXCEPT ![s] = "lock"]
  /\ UNCHANGED <<sq_of, host_head, host_phase, irq, sqs, disp, cqs>>

\* the lock, and the identifying fields
FillBegin(s) ==
  /\ wpc[s] = "lock"
  /\ entry_lock = "none"
  /\ entry_lock' = s
  /\ cq' = [cq EXCEPT ![cq_head].tag = filling[s]]
  /\ wpc' = [wpc EXCEPT ![s] = "status"]
  /\ UNCHANGED <<host, sqs, disp, filling, cq_head, phase, interrupt_ready>>

\* the status, which holds the phase bit the host looks at
FillStatus(s) ==
  /\ wpc[s] = "status"
  /\ cq' = [cq EXCEPT ![cq_head].phase = phase]
  /\ state' = [state EXCEPT ![filling[s]] = "posted"]
  /\ wpc' = [wpc EXCEPT ![s] = "result"]
  /\ UNCHANGED <<sq_of, host_head, host_phase, irq, sqs, disp, filling, cq_head,
                 phase, interrupt_ready, entry_lock>>

\* (bug variant) the phase is kept when the ring wraps
next_phase_kept == phase

next_phase == IF cq_head + 1 = CQ_SIZE THEN flip(phase) ELSE phase

\* result0 and result1 (which the host may read too early), the new head, interrupt_ready, and the lock is free
FillResult(s) ==
  /\ wpc[s] = "result"
  /\ cq_head' = (cq_head + 1) % CQ_SIZE
  /\ phase' = next_phase
  /\ interrupt_ready' = TRUE
  /\ entry_lock' = "none"
  /\ filling' = [filling EXCEPT ![s] = NoTag]
  /\ wpc' = [wpc EXCEPT ![s] = "pass"]
  /\ UNCHANGED <<host, sqs, disp, cq>>

\* ... and the interrupts after the pass.  irq_lock is only ever tried by the
\* owner of the queue and is always free.
IrqTest(s) ==
  /\ wpc[s] = "pass"
  /\ s = OWNER
  /\ interrupt_ready
  /\ wpc' = [wpc EXCEPT ![s] = "clear"]
  /\ UNCHANGED <<host, sqs, disp, filling, cqs>>

IrqClear(s) ==
  /\ wpc[s] = "clear"
  /\ interrupt_ready' = FALSE
  /\ wpc' = [wpc EXCEPT ![s] = "signal"]
  /\ UNCHANGED <<host, sqs, disp, filling, cq, cq_head, phase, entry_lock>>

IrqSignal(s) ==
  /\ wpc[s] = "signal"
  /\ irq' = TRUE
  /\ wpc' = [wpc EXCEPT ![s] = "pass"]
  /\ UNCHANGED <<state, sq_of, host_head, host_phase, sqs, disp, filling, cqs>>

\* (bug variant) the interrupt is raised first and the flag cleared after it
IrqRaise_swapped(s) ==
  \/ /\ wpc[s] = "clear"
     /\ irq' = TRUE
     /\ wpc' = [wpc EXCEPT ![s] = "signal"]
     /\ UNCHANGED <<state, sq_of, host_head, host_phase, sqs, disp, filling, cqs>>
  \/ /\ wpc[s] = "signal"
     /\ interrupt_ready' = FALSE
     /\ wpc' = [wpc EXCEPT ![s] = "pass"]
     /\ UNCHANGED <<host, sqs, disp, filling, cq, cq_head, phase, entry_lock>>

IrqRaise(s) == IrqClear(s) \/ IrqSignal(s)

-----------------------------------------------------------------------------
HostHandler == Take \/ HandlerReturns
DispatcherStep == \E s \in Sq : SeeDoorbell(s) \/ Accept(s) \/ Refuse(s) \/ SqDone(s)
WorkerStep(s) ==
  (\E t \in Tag : Pick(s, t)) \/ FillBegin(s) \/ FillStatus(s) \/ FillResult(s) \/ IrqTest(s) \/ IrqRaise(s)

Next ==
  \/ \E t \in Tag : Submit(t)
  \/ HostHandler
  \/ DispatcherStep
  \/ \E s \in Sq : WorkerStep(s)

Spec == Init /\ [][Next]_vars

\* The workers run and the host serves its interrupts; a worker's pass over its
\* requests ends, and the interrupt test follows it.  Nothing is assumed of the
\* dispatcher or of new commands.
FairSpec ==
  /\ Spec
  /\ WF_vars(HostHandler)
  /\ \A s \in Sq : WF_vars(WorkerStep(s))
  /\ SF_vars(IrqTest(OWNER))
-----------------------------------------------------------------------------
(* Properties.                                                             *)

\* The rings and the positions in them keep their types.
TypeOK ==
  /\ state \in [Tag -> {"idle", "submitted", "dispatched", "filling", "posted"}]
  /\ sq_of \in [Tag -> Sq]
  /\ host_head \in 0 .. CQ_SIZE - 1 /\ host_phase \in Bit /\ irq \in BOOLEAN
  /\ sq \in [Sq -> [0 .. SQ_SIZE - 1 -> Tag \union {NoTag}]]
  /\ dbs \in [Sq -> 0 .. SQ_SIZE - 1] /\ old_dbs \in [Sq -> 0 .. SQ_SIZE - 1]
  /\ disp \in [sq : Sq \union {"none"}, entry : 0 .. SQ_SIZE - 1, new_db : 0 .. SQ_SIZE - 1]
  /\ filling \in [Sq -> Tag \union {NoTag}]
  /\ cq \in [0 .. CQ_SIZE - 1 -> [tag : Tag \union {NoTag}, phase : Bit]]
  /\ cq_head \in 0 .. CQ_SIZE - 1 /\ phase \in Bit /\ interrupt_ready \in BOOLEAN
  /\ entry_lock \in Sq \union {"none"}
  /\ wpc \in [Sq -> {"pass", "lock", "status", "result", "clear", "signal"}]

\* the slots of queue s the device has not worked off
unprocessed(s) ==
  slots(IF disp.sq = s THEN disp.entry ELSE old_dbs[s], dbs[s], SQ_SIZE)

\* Every command is dispatched exactly once, whatever doorbells move and
\* commands are refused in between: the submitted commands are those in the
\* unprocessed slots of the rings, each in one slot, and every position lies in
\* its ring (TypeOK).
DispatchedOnce ==
  /\ TypeOK
  /\ \A t \in Tag :
       /\ (state[t] = "submitted") <=> \E s \in Sq : \E i \in unprocessed(s) : sq[s][i] = t
       /\ Cardinality({x \in Sq \X (0 .. SQ_SIZE - 1) :
                         x[2] \in unprocessed(x[1]) /\ sq[x[1]][x[2]] = t}) <= 1

\* the entries posted and not taken by the host, oldest first
fresh_slots ==
  slots(host_head, (cq_head + (IF \E s \in Sq : wpc[s] = "result" THEN 1 ELSE 0)) % CQ_SIZE,
        CQ_SIZE)

\* The phase bits tell the host exactly which entries are new: as many slots
\* from host_head on carry the host's phase as there are posted commands, each
\* holds a command the host still waits for, no two the same, and the entry
\* behind them is old, also across the wrap of the ring and although the device
\* never checks that the ring has room.
PhaseMarksNew ==
  /\ {cq[i].tag : i \in fresh_slots} = {t \in Tag : state[t] = "posted"}
  /\ Cardinality(fresh_slots) = Cardinality({t \in Tag : state[t] = "posted"})
  /\ entry_is_new <=> fresh_slots # {}

\* No interrupt is lost: every completion entry that was posted is taken by a
\* host that looks only when it is interrupted, though interrupt_ready is set
\* and cleared by different threads that share no lock.
EveryEntryIsTaken == \A t \in Tag : state[t] = "posted" ~> state[t] = "idle"
=============================================================================
