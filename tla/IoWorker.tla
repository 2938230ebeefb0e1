------------------------------ MODULE IoWorker ------------------------------
(***************************************************************************)
(* The work queue between the dispatcher and one I/O worker (io.c).  The   *)
(* dispatcher takes an entry off a free list, fills it field by field and  *)
(* links it into a list sorted by target time; the worker walks that list  *)
(* without any lock, copies the data of a request, completes it when its   *)
(* target time has come and sets is_completed; the dispatcher later moves  *)
(* the completed prefix of the list back to the free list.  Both lists are *)
(* chained through the same next fields, so a worker that stands on an     *)
(* entry while it is reclaimed walks on along the free list.               *)
(*                                                                         *)
(* One action is one access to shared memory that the other thread can     *)
(* tell apart, in program order (the x86 build; the compiler keeps the     *)
(* order of the stores).  A request stands for the identifying fields      *)
(* sqid, cqid, sq_entry, command_id, status and result of struct           *)
(* nvmev_io_work.                                                          *)
(***************************************************************************)
EXTENDS Integers, Sequences, FiniteSets

CONSTANTS
  NR_MAX_PARALLEL_IO,   \* entries of worker.work_queue
  NREQ,                 \* bound: commands the host submits in all
  QDEPTH,               \* commands the host keeps outstanding at most
  MAXT,                 \* bound: the last instant of the clock
  Delay                 \* modelled latencies: nsecs_target - nsecs_start

Entry == 0 .. NR_MAX_PARALLEL_IO - 1
Req   == 1 .. NREQ
NIL   == -1

ASSUME QueueAssumption ==
  /\ NR_MAX_PARALLEL_IO \in Nat /\ NR_MAX_PARALLEL_IO >= 2
  /\ NREQ \in Nat \ {0} /\ QDEPTH \in Nat \ {0} /\ MAXT \in Nat
  /\ Delay \subseteq Nat

VARIABLES
  now,                                   \* local_clock() + delta
  (* struct nvmev_io_work, one function per field *)
  id, nsecs_target, is_completed, is_copied, is_internal, buffs_of, prev, next,
  (* struct nvmev_io_worker *)
  free_seq, free_seq_end, io_seq, io_seq_end, latest_nsecs,
  (* the dispatcher: its position, the operation at hand, the commands left *)
  dpc, op, todo, sq_next,
  (* the worker: its position and its locals curr, curr_nsecs *)
  wpc, curr, curr_nsecs,
  (* what the outside sees: data copied, CQEs posted, buffers released, and *)
  (* the requests for which no entry was left                               *)
  copied, posted, released, dropped,
  (* ghost: has an entry been handed out while the worker stood on it?      *)
  overtaken

work    == <<id, nsecs_target, is_completed, is_copied, is_internal, buffs_of>>
links   == <<prev, next>>
seqs    == <<free_seq, free_seq_end, io_seq, io_seq_end>>
disp    == <<dpc, op, todo, sq_next>>
worker  == <<wpc, curr, curr_nsecs, latest_nsecs>>
effects == <<copied, posted, released, dropped, overtaken>>
vars    == <<now, work, links, seqs, disp, worker, effects>>

no_op == [entry |-> NIL, at |-> NIL, req |-> 0, target |-> 0, internal |-> FALSE]

Init ==
  /\ now = 0
  /\ id = [e \in Entry |-> 0]
  /\ nsecs_target = [e \in Entry |-> 0]
  /\ is_completed = [e \in Entry |-> FALSE]
  /\ is_copied = [e \in Entry |-> FALSE]
  /\ is_internal = [e \in Entry |-> FALSE]
  /\ buffs_of = [e \in Entry |-> 0]
  /\ next = [e \in Entry |-> IF e = NR_MAX_PARALLEL_IO - 1 THEN NIL ELSE e + 1]
  /\ prev = [e \in Entry |-> e - 1]
  /\ free_seq = 0 /\ free_seq_end = NR_MAX_PARALLEL_IO - 1
  /\ io_seq = NIL /\ io_seq_end = NIL
  /\ latest_nsecs = 0
  /\ dpc = "idle" /\ op = no_op /\ todo = <<>> /\ sq_next = 1
  /\ wpc = "pass" /\ curr = NIL /\ curr_nsecs = 0
  /\ copied = [r \in Req |-> 0]
  /\ posted = [r \in Req |-> 0]
  /\ released = [r \in Req |-> 0]
  /\ dropped = {}
  /\ overtaken = FALSE

-----------------------------------------------------------------------------
(* The dispatcher.  proc_io_cmd may schedule an internal operation (the    *)
(* release of write buffer space) before the command itself is enqueued;   *)
(* todo holds the operations to enqueue for the command.                   *)

outstanding == {r \in 1 .. sq_next - 1 : posted[r] = 0 /\ [req |-> r, internal |-> FALSE] \notin dropped}

an_op(r, t, i) == [entry |-> NIL, at |-> NIL, req |-> r, target |-> t, internal |-> i]

ProcIo ==
  /\ dpc = "idle"
  /\ sq_next <= NREQ
  /\ Cardinality(outstanding) < QDEPTH
  /\ \E d \in Delay :
       /\ now + d <= MAXT
       /\ \/ todo' = <<an_op(sq_next, now + d, FALSE)>>
          \/ \E i \in Delay :
               /\ now + i <= MAXT
               /\ todo' = <<an_op(sq_next, now + i, TRUE), an_op(sq_next, now + d, FALSE)>>
  /\ sq_next' = sq_next + 1
  /\ dpc' = "allocate"
  /\ UNCHANGED <<now, work, links, seqs, op, worker, effects>>

\* the next operation of the command, or reclaiming after the last one
after_enqueue(rest) == IF rest = <<>> THEN "reclaim" ELSE "allocate"

\* __allocate_work_queue_entry refuses to hand out the last free entry
almost_full == next[free_seq] = NIL

\* The callers return without a word, and the operation is gone.
AllocateFails ==
  /\ dpc = "allocate"
  /\ almost_full
  /\ dropped' = dropped \union {[req |-> Head(todo).req, internal |-> Head(todo).internal]}
  /\ todo' = Tail(todo)
  /\ dpc' = after_enqueue(Tail(todo))
  /\ UNCHANGED <<now, work, links, seqs, op, sq_next, worker, copied, posted, released, overtaken>>

Allocate ==
  /\ dpc = "allocate"
  /\ ~almost_full
  /\ op' = [Head(todo) EXCEPT !.entry = free_seq]
  /\ free_seq' = next[free_seq]
  /\ todo' = Tail(todo)
  /\ dpc' = "fill"
  /\ overtaken' = (overtaken \/ curr = free_seq)
  /\ UNCHANGED <<now, work, links, free_seq_end, io_seq, io_seq_end, sq_next, worker,
                 copied, posted, released, dropped>>

\* The stores of __enqueue_io_req and schedule_internal_operation, in order:
\* the request and is_completed, ...
Fill ==
  /\ dpc = "fill"
  /\ id' = [id EXCEPT ![op.entry] = IF op.internal THEN @ ELSE op.req]
  /\ nsecs_target' = [nsecs_target EXCEPT ![op.entry] = op.target]
  /\ is_completed' = [is_completed EXCEPT ![op.entry] = FALSE]
  /\ dpc' = "fill_copied"
  /\ UNCHANGED <<now, is_copied, is_internal, buffs_of, links, seqs, op, todo, sq_next,
                 worker, effects>>

\* ... is_copied, ...
FillCopied ==
  /\ dpc = "fill_copied"
  /\ is_copied' = [is_copied EXCEPT ![op.entry] = op.internal]
  /\ dpc' = "fill_links"
  /\ UNCHANGED <<now, id, nsecs_target, is_completed, is_internal, buffs_of, links, seqs,
                 op, todo, sq_next, worker, effects>>

\* ... prev and next, ...
FillLinks ==
  /\ dpc = "fill_links"
  /\ prev' = [prev EXCEPT ![op.entry] = NIL]
  /\ next' = [next EXCEPT ![op.entry] = NIL]
  /\ dpc' = "fill_internal"
  /\ UNCHANGED <<now, work, seqs, op, todo, sq_next, worker, effects>>

\* ... is_internal, and then the buffer to release.
FillInternal ==
  /\ dpc = "fill_internal"
  /\ is_internal' = [is_internal EXCEPT ![op.entry] = op.internal]
  /\ dpc' = IF op.internal THEN "fill_buffs" ELSE "insert"
  /\ UNCHANGED <<now, id, nsecs_target, is_completed, is_copied, buffs_of, links, seqs,
                 op, todo, sq_next, worker, effects>>

FillBuffs ==
  /\ dpc = "fill_buffs"
  /\ buffs_of' = [buffs_of EXCEPT ![op.entry] = op.req]
  /\ dpc' = "insert"
  /\ UNCHANGED <<now, id, nsecs_target, is_completed, is_copied, is_internal, links, seqs,
                 op, todo, sq_next, worker, effects>>
-----------------------------------------------------------------------------
(* __insert_req_sorted: walk back from the tail, then splice.  The store   *)
(* that makes the entry visible to the worker is the last one.             *)

InsertFirst ==
  /\ dpc = "insert"
  /\ io_seq = NIL
  /\ io_seq' = op.entry /\ io_seq_end' = op.entry
  /\ dpc' = after_enqueue(todo)
  /\ UNCHANGED <<now, work, links, free_seq, free_seq_end, op, todo, sq_next, worker, effects>>

InsertBegin ==
  /\ dpc = "insert"
  /\ io_seq # NIL
  /\ op' = [op EXCEPT !.at = io_seq_end]
  /\ dpc' = "walk"
  /\ UNCHANGED <<now, work, links, seqs, todo, sq_next, worker, effects>>

\* (bug variant) the comparison of the target times is the wrong way round
walk_stops_reversed(c) ==
  nsecs_target[c] <= latest_nsecs \/ nsecs_target[c] >= op.target

walk_stops(c) ==
  nsecs_target[c] <= latest_nsecs \/ nsecs_target[c] <= op.target

Walk ==
  /\ dpc = "walk"
  /\ op.at # NIL
  /\ ~walk_stops(op.at)
  /\ op' = [op EXCEPT !.at = prev[@]]
  /\ UNCHANGED <<now, work, links, seqs, dpc, todo, sq_next, worker, effects>>

LinkHead ==
  /\ dpc = "walk"
  /\ op.at = NIL
  /\ prev' = [prev EXCEPT ![io_seq] = op.entry]
  /\ next' = [next EXCEPT ![op.entry] = io_seq]
  /\ io_seq' = op.entry
  /\ dpc' = after_enqueue(todo)
  /\ UNCHANGED <<now, work, free_seq, free_seq_end, io_seq_end, op, todo, sq_next, worker, effects>>

\* (bug variant) the tail pointer is left behind
new_end_forgotten == io_seq_end

new_end == IF next[op.at] = NIL THEN op.entry ELSE io_seq_end

LinkAfter ==
  /\ dpc = "walk"
  /\ op.at # NIL
  /\ walk_stops(op.at)
  /\ LET succ == next[op.at] IN
     /\ prev' = [e \in Entry |-> IF e = op.entry THEN op.at
                                 ELSE IF e = succ THEN op.entry ELSE prev[e]]
     /\ next' = [next EXCEPT ![op.entry] = succ, ![op.at] = op.entry]
  /\ io_seq_end' = new_end
  /\ dpc' = after_enqueue(todo)
  /\ UNCHANGED <<now, work, free_seq, free_seq_end, io_seq, op, todo, sq_next, worker, effects>>

-----------------------------------------------------------------------------
(* __reclaim_completed_reqs moves the longest completed prefix to the end  *)
(* of the free list.  What it reads only ever turns true, so reading it    *)
(* entry by entry finds what one look at the end of the loop would find.   *)

\* (bug variant) the dispatcher does not wait for is_completed
reclaimable_when_due(e) == is_copied[e] /\ nsecs_target[e] <= latest_nsecs

reclaimable(e) ==
  is_completed[e] /\ is_copied[e] /\ nsecs_target[e] <= latest_nsecs

\* the entries from e on, in the order of the next fields nx (as many as there are)
chain(nx, e) ==
  LET step[k \in 0 .. NR_MAX_PARALLEL_IO] ==
        IF k = 0 THEN e
        ELSE IF step[k - 1] = NIL THEN NIL ELSE nx[step[k - 1]]
      upto == CHOOSE k \in 0 .. NR_MAX_PARALLEL_IO :
                /\ step[k] = NIL \/ k = NR_MAX_PARALLEL_IO
                /\ \A j \in 0 .. k - 1 : step[j] # NIL
  IN  [k \in 1 .. upto |-> step[k - 1]]

\* the length of the longest prefix of the sequence that can be reclaimed
prefix_len(q) ==
  CHOOSE n \in 0 .. Len(q) :
    /\ \A i \in 1 .. n : reclaimable(q[i])
    /\ n < Len(q) => ~reclaimable(q[n + 1])

Reclaim ==
  /\ dpc = "reclaim"
  /\ LET q == chain(next, io_seq)
         n == prefix_len(q)
         succ == next[q[n]]
     IN  IF n = 0
         THEN UNCHANGED <<links, seqs>>
         ELSE /\ io_seq' = succ
              /\ prev' = [e \in Entry |-> IF e = succ THEN NIL
                                          ELSE IF e = q[1] THEN free_seq_end ELSE prev[e]]
              /\ next' = [e \in Entry |-> IF e = q[n] THEN NIL
                                          ELSE IF e = free_seq_end THEN q[1] ELSE next[e]]
              /\ free_seq_end' = q[n]
              /\ UNCHANGED <<free_seq, io_seq_end>>
  /\ dpc' = "idle"
  /\ op' = no_op
  /\ UNCHANGED <<now, work, todo, sq_next, worker, effects>>

-----------------------------------------------------------------------------
(* The worker: one pass over the list after the other.                     *)

PassBegin ==
  /\ wpc = "pass"
  /\ io_seq # NIL
  /\ curr' = io_seq
  /\ wpc' = "check"
  /\ UNCHANGED <<now, work, links, seqs, disp, latest_nsecs, curr_nsecs, effects>>

Check ==
  /\ wpc = "check"
  /\ curr_nsecs' = now
  /\ latest_nsecs' = now
  /\ wpc' = IF is_completed[curr] THEN "advance"
            ELSE IF is_copied[curr] THEN "due" ELSE "copy"
  /\ UNCHANGED <<now, work, links, seqs, disp, curr, effects>>

\* (bug variant) is_copied is not set
Copy_unmarked ==
  /\ wpc = "copy"
  /\ copied' = IF is_internal[curr] \/ id[curr] = 0 THEN copied
               ELSE [copied EXCEPT ![id[curr]] = @ + 1]
  /\ wpc' = "due"
  /\ UNCHANGED <<now, work, links, seqs, disp, curr, curr_nsecs, latest_nsecs,
                 posted, released, dropped, overtaken>>

\* __do_perform_io, nothing for an internal operation
Copy ==
  /\ wpc = "copy"
  /\ copied' = IF is_internal[curr] \/ id[curr] = 0 THEN copied
               ELSE [copied EXCEPT ![id[curr]] = @ + 1]
  /\ is_copied' = [is_copied EXCEPT ![curr] = TRUE]
  /\ wpc' = "due"
  /\ UNCHANGED <<now, id, nsecs_target, is_completed, is_internal, buffs_of, links, seqs, disp,
                 curr, curr_nsecs, latest_nsecs, posted, released, dropped, overtaken>>

NotDue ==
  /\ wpc = "due"
  /\ nsecs_target[curr] > curr_nsecs
  /\ wpc' = "advance"
  /\ UNCHANGED <<now, work, links, seqs, disp, curr, curr_nsecs, latest_nsecs, effects>>

\* __fill_cq_result or buffer_release
Complete ==
  /\ wpc = "due"
  /\ nsecs_target[curr] <= curr_nsecs
  /\ IF is_internal[curr]
     THEN /\ released' = [released EXCEPT ![buffs_of[curr]] = @ + 1]
          /\ UNCHANGED posted
     ELSE /\ posted' = [posted EXCEPT ![id[curr]] = @ + 1]
          /\ UNCHANGED released
  /\ wpc' = "mark"
  /\ UNCHANGED <<now, work, links, seqs, disp, curr, curr_nsecs, latest_nsecs, copied, dropped, overtaken>>

\* after the barrier: the dispatcher may take the entry from here on
Mark ==
  /\ wpc = "mark"
  /\ is_completed' = [is_completed EXCEPT ![curr] = TRUE]
  /\ wpc' = "advance"
  /\ UNCHANGED <<now, id, nsecs_target, is_copied, is_internal, buffs_of, links, seqs, disp,
                 curr, curr_nsecs, latest_nsecs, effects>>

\* (bug variant) a completed entry ends the pass instead of being passed over
Advance_stops_at_completed ==
  /\ wpc = "advance"
  /\ curr' = IF is_completed[curr] THEN NIL ELSE next[curr]
  /\ wpc' = IF is_completed[curr] \/ next[curr] = NIL THEN "pass" ELSE "check"
  /\ curr_nsecs' = 0
  /\ UNCHANGED <<now, work, links, seqs, disp, latest_nsecs, effects>>

Advance ==
  /\ wpc = "advance"
  /\ curr' = next[curr]
  /\ wpc' = IF next[curr] = NIL THEN "pass" ELSE "check"
  /\ curr_nsecs' = 0
  /\ UNCHANGED <<now, work, links, seqs, disp, latest_nsecs, effects>>

-----------------------------------------------------------------------------
Tick == now < MAXT /\ now' = now + 1
        /\ UNCHANGED <<work, links, seqs, disp, worker, effects>>

DispatcherStep ==
  \/ AllocateFails \/ Allocate \/ Fill \/ FillCopied \/ FillLinks \/ FillInternal \/ FillBuffs
  \/ InsertFirst \/ InsertBegin \/ Walk \/ LinkHead \/ LinkAfter \/ Reclaim

WorkerStep == PassBegin \/ Check \/ Copy \/ NotDue \/ Complete \/ Mark \/ Advance

Next == ProcIo \/ DispatcherStep \/ WorkerStep \/ Tick

Spec == Init /\ [][Next]_vars

\* Both threads are kthreads bound to CPUs of their own that never block, and
\* the clock runs.  The host need not send commands.
FairSpec == Spec /\ WF_vars(DispatcherStep) /\ WF_vars(WorkerStep) /\ WF_vars(Tick)
-----------------------------------------------------------------------------
(* Properties.                                                             *)

queued == chain(next, io_seq)
free   == chain(next, free_seq)
elems(q) == {q[i] : i \in 1 .. Len(q)}

\* the entry the dispatcher has taken and not yet linked
in_hand == IF dpc \in {"fill", "fill_copied", "fill_links", "fill_internal", "fill_buffs",
                       "insert", "walk"} THEN {op.entry} ELSE {}

\* The fields keep their types.
TypeOK ==
  /\ now \in 0 .. MAXT /\ latest_nsecs \in 0 .. MAXT /\ curr_nsecs \in 0 .. MAXT
  /\ id \in [Entry -> 0 .. NREQ] /\ buffs_of \in [Entry -> 0 .. NREQ]
  /\ nsecs_target \in [Entry -> 0 .. MAXT]
  /\ is_completed \in [Entry -> BOOLEAN] /\ is_copied \in [Entry -> BOOLEAN]
  /\ is_internal \in [Entry -> BOOLEAN]
  /\ next \in [Entry -> Entry \union {NIL}] /\ prev \in [Entry -> Entry \union {NIL}]
  /\ free_seq \in Entry /\ free_seq_end \in Entry
  /\ io_seq \in Entry \union {NIL} /\ io_seq_end \in Entry \union {NIL}
  /\ dpc \in {"idle", "allocate", "fill", "fill_copied", "fill_links", "fill_internal",
              "fill_buffs", "insert", "walk", "reclaim"}
  /\ op.entry \in Entry \union {NIL} /\ op.at \in Entry \union {NIL}
  /\ sq_next \in 1 .. NREQ + 1
  /\ wpc \in {"pass", "check", "copy", "due", "mark", "advance"}
  /\ curr \in Entry \union {NIL} /\ (wpc # "pass" => curr \in Entry)
  /\ copied \in [Req -> Nat] /\ posted \in [Req -> Nat] /\ released \in [Req -> Nat]

\* The two lists share the next fields and still never mix: all fields and
\* positions have their types, every entry is on
\* the request list, on the free list or in the dispatcher's hand, each list
\* ends where its tail pointer says, and prev mirrors next on the request list.
ListsApart ==
  /\ TypeOK
  /\ elems(queued) \intersect elems(free) = {}
  /\ in_hand \intersect (elems(queued) \union elems(free)) = {}
  /\ elems(queued) \union elems(free) \union in_hand = Entry
  /\ Len(queued) + Len(free) + Cardinality(in_hand) = NR_MAX_PARALLEL_IO
  /\ free[Len(free)] = free_seq_end
  /\ queued # <<>> => queued[Len(queued)] = io_seq_end /\ prev[io_seq] = NIL
  /\ \A i \in 1 .. Len(queued) - 1 : prev[queued[i + 1]] = queued[i]

\* The list is sorted by target time as far as the worker's clock has not
\* reached: an entry stands before one with an earlier target only if it was
\* due already when the other came.
SortedAhead ==
  \A i \in 1 .. Len(queued) - 1 :
    \/ nsecs_target[queued[i]] <= nsecs_target[queued[i + 1]]
    \/ nsecs_target[queued[i]] <= latest_nsecs

\* A worker that walks without a lock, over entries that are being reclaimed
\* under it, copies and completes only what is on the request list.  This and
\* the next property need one thing the code does not enforce: the free list is
\* so long that the entry the worker stands on does not come to its head, and is
\* not handed out again, before the worker has moved on.
ActsOnQueued == ~overtaken /\ wpc \in {"copy", "due", "mark"} => curr \in elems(queued)

\* The data of a command is copied once, before its one CQE, and no CQE and no
\* release comes before its target time, whatever is reclaimed and reused.
ExactlyOnce ==
  ~overtaken =>
  /\ \A r \in Req :
       /\ copied[r] <= 1 /\ posted[r] <= copied[r] /\ released[r] <= 1
       /\ posted[r] = 1 => r < sq_next
  /\ \A i \in 1 .. Len(queued) :
       LET e == queued[i] IN
       is_completed[e] =>
         /\ nsecs_target[e] <= latest_nsecs
         /\ IF is_internal[e] THEN released[buffs_of[e]] = 1 ELSE posted[id[e]] = 1

accepted(r) == r < sq_next /\ [req |-> r, internal |-> FALSE] \notin dropped
               /\ dpc \notin {"allocate", "fill", "fill_copied", "fill_links", "fill_internal",
                              "fill_buffs", "insert", "walk"}

\* Every command that got an entry is completed: no CQE is lost between the
\* sorted insert, the unlocked walk and the reclaiming of entries, again as long
\* as the worker is not overtaken.
EveryCommandCompletes == \A r \in Req : accepted(r) ~> (posted[r] = 1 \/ overtaken)
=============================================================================
