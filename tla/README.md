# NVMeVirt in TLA+

NVMeVirt is a Linux kernel module that emulates an NVMe SSD in reserved memory.
This directory models the parts of it that keep state and can go wrong in ways a
test hardly reaches: the flash translation layers, the work queue between the
dispatcher and its I/O workers, the rings shared with the host, the controller's life
from binding to shutdown, and the clockwork that decides when flash is busy. TLC
checks the models on small instances; TLAPS proves every safety property and every
refinement the runs check, for every value of the constants. Liveness is only
model-checked.

`PROJECT.json` lists components, runs, mutants of the code that each property must
detect, the source lines of every definition, hazards and findings.

## 1. The system

One build emulates one kind of device (`ssd_config.h`: `BASE_SSD`). At run time
there is one *dispatcher* thread, which polls controller registers and doorbells,
interprets admin commands, runs the FTL for every I/O command and computes its
target time, and a few *I/O worker* threads, which copy the data, wait for the
target time and post completions and interrupts. The host is the ordinary NVMe
driver.

| component | state | operations | interacts by |
|---|---|---|---|
| conventional FTL (`conv_ftl.c`) | `maptbl`, `rmap`, page status, line lists and counters, two write pointers, write credits | `conv_write`, `conv_read`, GC | called by the dispatcher; schedules buffer releases on the work queue |
| victim queue (`pqueue/`) | binary heap of lines, `line->pos` | insert, change priority, pop, remove | called by the conventional FTL |
| zoned FTL (`zns_*.c`) | zone descriptors, resource counters, per-zone write and ZRWA buffers | write, append, ZRWA write, management send | called by the dispatcher; releases come back from workers |
| key-value FTL (`kv_ftl.c`, `append_only.c`, `bitmap.c`) | hash table, allocator position, iterators | store, batch, retrieve, exist, delete, iterate | performed by the *workers*, without a lock |
| work queue (`io.c`) | array of entries on a request list and a free list | allocate, fill, insert sorted, walk, complete, reclaim | dispatcher and one worker, lock-free |
| queue pairs (`io.c`, `main.c`, `pci.c`) | submission and completion rings, doorbells, phase, `interrupt_ready` | poll, dispatch, refuse, fill entry, raise interrupt | host, dispatcher and all workers |
| controller and admin queue (`pci.c`, `main.c`, `admin.c`) | registers and their copies, admin rings, tables of created queues | enable, disable, shutdown, create and delete queue, features, identify, abort | host writes plain memory, dispatcher compares |
| timing (`ssd.c`, `channel_model.c`, `simple_ftl.c`) | busy times of LUNs and channels, channel credits, write buffer | advance, allocate, release | called by the FTLs |

What is hard here: the lock-free list between dispatcher and worker, whose entries
are recycled while the worker looks at them; completion entries and interrupt flags
touched by several threads and the host; commands refused for want of buffer space
and dispatched again; garbage collection in the middle of a write; counters kept in
step by hand over many paths; a hash table changed by several threads; registers whose
writes are noticed by polling, one register at a time; and what one life of a queue or
of a driver leaves behind for the next.

What makes each part correct is stated as properties of the modules below.

## 2. The modules

### Conventional FTL: `ConvFTL`, `ConvStore`, `LogicalStore`

`ConvFTL` is one partition of `conv_ftl.c`. Variables carry the names of
`struct conv_ftl`'s fields. `pc` says where `conv_write` is: `WriteBegin` accepts a
command, `InvalidateOld` and `ProgramUser` are the two halves of its loop body,
`CreditLeft`/`RefillNoGc`/`SelectVictim` are `check_and_refill_write_credit`,
`CleanPage`, `EraseBlock` and `FreeLine` are `do_gc` page by page. A failing
`NVMEV_ASSERT` and the use of a NULL free line lead to `pc = "panic"`. Page
addresses are records whose digits are the fields of `struct ppa`; write order and
GC order, which differ, are modelled digit by digit.

`ConvStore` adds what each flash page contains; the refinement mapping is the read
path, `contents[lpn]` = the content of `maptbl[lpn]`. `LogicalStore` is the
abstract specification, an array of logical pages.

`IInv` and `PInv`, at the end of `ConvFTL`, are the inductive invariants of the proofs;
`Provisioned` is the relation between threshold, lines and namespace size under which
the write path is shown never to run out of lines.

The victim queue appears in `ConvFTL` as a set from which a line with the fewest
valid pages is taken; `Pqueue` shows that the heap provides that.

### Victim queue: `Pqueue`, `VictimQueue`

`Pqueue` has the array `d`, the priorities and `pos` and one action per operation.
`bubble_up` and `percolate_down` are given by the path of indices they go through;
`setpos` is called for exactly these. `VictimQueue` is the set with a smallest member.

### Work queue: `IoWorker`

One worker's queue at the granularity of single shared accesses: the dispatcher
allocates, fills (`Fill`, `FillCopied`, `FillLinks`, ...), walks and links; the
worker takes one step per read or write that the dispatcher can tell apart; the
reclaim moves the completed prefix to the free list. The clock is `Tick`.

The ghost `overtaken` names what the lock-free protocol relies on: it turns true
when an entry is handed out again while the worker still stands on it. The code has
no mechanism against that; the free list is a FIFO of 16384 entries, and the worker
is expected to have moved on before one comes round. `ListsApart` (with
`TypeOK`) and `SortedAhead` hold without that expectation. `ActsOnQueued`, `ExactlyOnce` and
`EveryCommandCompletes` hold until the worker is overtaken and fail after it: the
worker then reads an entry while the dispatcher is filling it, `is_completed` already
cleared and the other fields still old, although `io.c:352` says that the worker
"shall see the updated w at once".

### Rings: `Rings`, `QueuePair`

`Rings` has the occupied slots of a ring and the next position in it, as `QueuePair` and
`Controller` use them. `QueuePair` has submission rings with the dispatcher's private
position and its retry after a refusal, one completion ring filled by several workers
under `entry_lock`, the phase, and the interrupt protocol. The NVMe driver is external: it has fewer
commands in flight than slots and looks at the completion ring only when
interrupted (`Take` is driven by `irq`). Which ring a command goes to is chosen in
`Init`, so one run has two commands on one ring and one on each. The result words of
an entry are left out: `io.c:586-588` stores them after the phase, so a host that polls
can read them too early, which three lines show without a model.

### Controller: `Controller`

`nvmev_proc_bars` is four actions, `CheckAqa`, `CheckAsq`, `CheckAcq`, `CheckCc`, one
per comparison of a register with `old_bar`; a comparison that finds a change ends the
pass, as `goto out` does. `SeeAdminDb`, `AdminReq` and `AdminDone` are
`nvmev_proc_admin_sq` command by command, with one action per opcode
(`CreateCq` ... `Abort`); `ProcIoSq` and `ProcIoCq` are the loops over I/O doorbells, in
which the FTL may refuse any command. The driver writes registers, sends commands and
takes answers between any two of these steps.

The driver is external and is what NVMe drivers have in common: `aqa`, `asq`, `acq`, `cc`
in this order, completion queue before submission queue and the opposite for deletion,
`set_features` for the number of queues first, shutdown at the end. After it another
binding may follow, with rings of another size. Assumed of it:

- its rings are zeroed and not where the rings of the binding before were. A driver that
  is bound again with the *same* `aqa`, `asq` and `acq` changes no register, so the device
  keeps the position and phase it had;
- the enabling write does not fall into a pass that compared a register before it was
  written and has yet to compare `cc` (guard of `WriteEnable`). Nothing in the code
  prevents that; then the controller says it is ready with the wrong rings or, the first
  time, warns and never gets ready;
- it gives up an abort only after the dispatcher has seen it: aborts are never answered;
- it deletes a submission queue when its commands are completed, taken or not, and a
  completion queue when all are taken.

### Timing: `SsdTiming`, `ChannelSchedule`

One channel with its LUNs. `chmodel_request` is the operator of that name: `turned` moves
the ring of credits to the present, `consume` takes credits entry by entry up to the end
of the ring. `ReadBegin`/`ReadTransfer`, `Program`, `Erase` and `Nop` are the branches of
`ssd_advance_nand`; the clock goes on between the transfers of a read, because
`chmodel_request` reads it each time. `ChannelSchedule` is the promise: slots of time with
a number of credits each, of which a transfer takes the earliest free ones. The
refinement mapping reads slot `s` at `head + (s - cur_time's slot)` in the ring, and full
credit beyond it. Times and lengths are small units; arithmetic on 64-bit nanoseconds does
not overflow.

### Zoned FTL: `ZnsFTL`

One action per command, since the dispatcher runs each to its end; `Release` is the
buffer release that a worker performs later. A refused command stays in the ring
*as modified by the refused try* and is dispatched again. Sizes are in blocks of one
page. `acquire` and `open_zones` are the loop of the open-all command, which opens zones
until a resource is used up. The history variable `lost` counts the blocks of a zone's
write buffer that failed writes and resets keep for good, so that `BufferConserved` can be an equation.

### Key-value FTL: `KvFTL`

A worker's store is split into lookup, allocation and copy, choice of a slot, and
installation. `walk` is the loop over `next_slot`, `new_slot` is
`find_next_slot`. Both allocators are modelled; a value is a run of equal cells, so
overlaps show. The ghost `stored` is what the completed commands told the host, and
each iterator carries the keys it owes and has reported.

### Proofs

`ConvFTLProofs` (which is also about `ConvStore`), `PqueueProofs`, `IoWorkerProofs`,
`QueuePairProofs`, `ControllerProofs`, `ZnsFTLProofs`, `KvFTLProofs` and
`SsdTimingProofs` hold the theorems about the module they are named after (section 4).
Each starts with the general facts it needs: rings, induction over an interval,
quotients, sizes of sets.

## 3. Runs

Each run finishes within three minutes on two cores. Every property of a passing run
has a mutant in `PROJECT.json`, an operator of the module (marked as a variant) that
changes the code the way a plausible bug would; TLC must then report a violation.
`TypeOK`, where it is not an invariant of a run by itself, is a conjunct of the invariant
about the structure it describes (`ListsApart`, `ChainsEnd`, `DispatchedOnce`,
`AnswersAreNew`, `BufferConserved`, `UntouchedIsFull`).

| run | bounds | shows |
|---|---|---|
| `conv_ftl` | 2 channels, 5 lines, 2 logical pages | no assertion fails (`NoPanic`); mapping, lines, counters, credits; every write returns |
| `conv_store` | 1 die, 2 word lines per block, 6 lines, 2 logical pages, 2 values | the inductive invariant `PInv`, of which `IInv` is a part; implements `LogicalStore` |
| `pqueue` | 7 lines, 4 priorities | heap order, positions, implements `VictimQueue` |
| `io_worker` | 3 entries, 3 requests, clock of 2 instants | lists apart and sorted; exactly-once completion; every request completes |
| `queue_pair` | 2 commands on 1 or 2 submission rings of 3, 2 workers, completion ring of 3, refusals | exactly-once dispatch; phase bits across wraps; no lost interrupt |
| `controller` | 2 bindings, admin rings of 2 or 3 entries, 2 admin commands at a time (queue management, one that answers, one that does not), 1 I/O queue pair of 3 entries | rings right when ready is seen; admin commands once; phases across wraps and bindings; nothing overlooked; doorbells and `nr_in_flight` over lives of a queue |
| `ssd_timing` | 2 LUNs, ring of 3 slots of 2 credits and 2 instants, requests of 1 or 3 units, clock up to 8 | LUNs exclusive; ring entries behind `valid_len` full; implements `ChannelSchedule` |
| `zns` | 2 zones of 3 blocks, flash page of 2, zone 0 also with a ZRWA of 1 | resource counters, write pointers, buffers |
| `kv` | one chain of 3 keys, batches of 2, 1-key iterator buffer, append-only allocator | contents, iterations, every store returns |
| `kv_delete` | 3 keys in merging chains, 3 slots, 2 lengths, 4 allocations, bitmap allocator | no cycles, values apart, current values, answers |

Why the bounds are enough: a line of the conventional FTL is closed, becomes a
victim, is collected and reused several times with five or six lines (two open, the
rest at and below the threshold), and a line has two pages that differ in the channel
in one run and in the word line in the other: in the first GC erases a line block by
block, in the second a block holds several flash pages. All digits of a page address
at once are the business of the proofs, which hold for every geometry. The work queue has as many entries as
lets one be reclaimed, one be in the dispatcher's hand and one be under the worker.
The rings wrap repeatedly because states are not bounded by a number of commands
there. The admin rings wrap within one binding with sizes two and three, and the second
binding finds positions, phases and queues in every state the first can leave; a queue pair
of the same number is made and deleted any number of times. The I/O rings have more than
twice as many entries as the one command each may have in flight, so that a doorbell that
moved cannot look unmoved. The clock turns the credit ring once and a third; requests
start in the past, at any entry and beyond the ring, and find it full. The zone has a
short last flash page and a full one. The hash table is full,
chains merge and probing wraps.

Symmetry is used for lines, values, LUNs and keys of equal hash, which nothing compares except for equality
(never together with liveness).

Violations, each a disagreement between the code and something the repository says
(quoted under "findings"):

| run | disagreement |
|---|---|
| `zns_retry` | a retried append moves to the next zone |
| `kv_lost` | a delete makes other stored keys unreachable |

Other places where the models show the code to differ from what it says, or to do
something nobody would want, without a run of their own:

- `conv_ftl.c:819` says "perform GC here until !should_gc(conv_ftl)"; `foreground_gc`
  collects one line. The throttle by write credits makes up for it: `NoPanic` holds, by
  `NeverPanics` on every device that is `Provisioned`.
- `admin.c:226` says "Zone Append is unsupported at the moment"; `zns_write` performs it.
- A zone with a random write area that is filled by `__increase_write_ptr` reaches the
  `ASSERT(0)` there, which is compiled to nothing, and keeps its ZRWA resource
  (hence the inequality in `ResourceCounts`).
- A closed ZRWA zone takes a whole ZRWA from its buffer each time a write reopens it;
  closing and writing in turn reaches `NVMEV_ASSERT(0)` (`panic` in `ZnsFTL`).
- `pci.c:91` says that changes are processed "strategically"; the enabling race above is
  what that leaves open.
- `__nvmev_proc_admin_req` has an empty case for abort: the command is never answered.
- `__reset_zone` does not refill `zone_write_buffer`: blocks that waited for the rest
  of their flash page keep their space for ever.
- With two workers in `KvFTL` two stores can take the same slot, and `StoredIsFound`
  fails without any delete.
- With the append-only allocator, which `ssd_config.h:58` selects, and values of two
  small lengths, a longer update is written over the neighbouring value: `ValuesApart`
  fails. `kv_delete`, which has two lengths, therefore uses the bitmap allocator.
- With deletes `IterOnce` fails: a key that was lost and stored again has two entries.

### Bounds that are guards of the model

`NREQ`, `MAXT` (`IoWorker`): commands submitted and instants of the clock; the
system stops when they are used up, hence `CHECK_DEADLOCK FALSE` in its run, the only one.
`MAX_SESSIONS` (`Controller`): bindings of a driver. `MAX_CLOCK`, `MAX_TIME`, `AHEAD`
(`SsdTiming`): the clock, how far a LUN may be booked, how far ahead a command may be told
to start; `End` is the stutter at the last instant.
`MAX_NLB`, `MAX_FLUSHES` (`ZnsFTL`): size of a write, ZRWA flushes under way;
`ZRWA_ZONES`: the zones the host opens with a random write area.
`MAX_SUBS`, `STORAGE_SIZE` through `room` (`KvFTL`): stores of a batch; a command
starts only while memory is left, because neither allocator takes memory back.

### Fairness

`MCConvFTL!LiveSpec`: a command under way goes on, since the dispatcher thread runs
it to the end. `IoWorker!FairSpec`: weak fairness of the dispatcher, the worker (kernel
threads in endless loops) and the clock. `QueuePair!FairSpec`: weak fairness of the
workers and of the host's handler; strong fairness of the owner's interrupt test,
which comes after *every* pass over the list whatever the pass contained; nothing is
assumed of the dispatcher. `Controller` and `SsdTiming` state no liveness: that a driver
does not wait in vain is the invariant `NothingOverlooked`, which says that whenever the
dispatcher has caught up, what the driver waits for has happened. `KvFTL!FairSpec`: a
worker goes on with its command.

## 4. Proofs

Each theorem holds for every value of the constants that satisfies the assumption its
module names; every proof is along an inductive invariant with one lemma per action.

Several models describe loops by recursive functions: the lists of the work queue, the
paths in the heap, the walk along a chain of slots, the credits still missing, a running
total. The prover cannot use the library's induction theorems, which take an operator as
a parameter, but it can use `BoundedInduction`: a *set* that contains 0 and with each
number below n its successor is all of 0 .. n. That such a function exists and satisfies
its equation is shown by that lemma, for the set of lengths up to which one exists; what
it computes, by the lemma again. Where the recursion follows links rather than
numbers, the entries carry a rank that falls along them, or what is visited is stated as
the least set closed under them.

### Conventional FTL (`ConvFTLProofs`)

From `GeometryAssumption` only (positive geometry, at least two lines, a credit counter
wider than two lines of pages):

- `TypeCorrect`, `MappingCorrect`, `LinesCorrect`, `CreditsCorrect`, consequences of
  `Invariance`: `Spec => []IInv`;
- `CountsCorrect`: `vpc` and `ipc` are the numbers of valid and invalid pages;
- `Refinement` (`StoreSpec => ImplementsLogicalStore`): a step of user programming is a
  write of the abstract store, all others are stutters; the step simulation rests on `IInv`.

`MapInverse` and `LinePartition` are not inductive. Invalidating a page decides by
the page counters whether its line is on the full list or in the victim queue, so
`IInv` has `LineOccupancy`: the counters add up to the pages written, which for an
open line is `rank` of its write pointer. That a line closes exactly when its last
page is written is then arithmetic of a mixed-radix counter (`Digit`, `CarryDigit`,
`RankBound`, `RankStep`). GC needs `GcErased` and the notion of a page it has
*passed*: the victim's pages stay marked valid with stale reverse entries until
their block is erased. `CreditRange` bounds the credits because a victim has at least
one invalid page. `LineCounts` is proved by recounting: each action changes the status of
one page or of one block, and `PageStates` says which pages of a line are blank.
Everything but types is claimed only while no assertion has failed
(`NoPanic => ...`): a panic stops the FTL between two assignments.

With `Provisioned` in addition, `NeverPanics`: no assertion fails and a free line is always
found; `ProvisionedCorrect` then drops the proviso from the theorems above. The invariant
`PInv` adds `Reserve`: between writes there are `GC_THRES` lines of unwritten pages beyond
the credits the host holds. A collection borrows the pages it copies, fewer than a line
because a victim has an invalid page, and gives back a line; what is left over becomes the
credits it refills. When no victim exists every closed line is full of valid pages
(`FullLines`), so that mappings bound their number (`FullFits`); at the limit the page just
written is one of the mapped pages and lies in an open line (`JustWritten`), which leaves
the line the refill needs (`NoVictimRoom`).

Both halves of `Provisioned` are needed. With 5 lines of 2 pages, threshold 2 and 4
logical pages TLC finds a panic after 63 steps; with threshold 1, 4 lines of 4 pages and 4
logical pages a simulation finds one. `conv_init_params` sets the threshold to 2;
`ssd_config.h` has 8192 lines and an over-provisioning of 7 %, several hundred lines where
the theorem asks for four.

### Victim queue (`PqueueProofs`)

From `PqueueAssumption` (a finite set of lines): `HeapStaysOrdered`, `PositionsAgree`, and
`QueueRefinement`, `Spec => ImplementsVictimQueue`. `bubble_up` and `percolate_down` both
move the elements on a path of indices by one place and put one element at its end; what
that does to the array, to `pos` and to the set of lines is shown once, for any path that
ends (`Ranked`). While an element is under way the array is `AlmostHeap`: in order except
at its index, whose children are not before its parent. `pqueue_pop` and
`pqueue_remove` move the last element into the gap, from where it may have to go either
way. That the first element is a smallest one is one more induction along the parents.

### Work queue (`IoWorkerProofs`)

From `QueueAssumption` (at least two entries): `ListsStayApart`, `ListStaysSorted`,
`WorkerActsOnRequests` and `CompletedExactlyOnce`, for any number of entries and requests
and any interleaving. The invariant names the members of the two lists in their order
(`\E q, n, f, m : With(q, n, f, m)`): `Lists` says that they follow `next` and `prev`, that
every entry is on one of the lists or in the dispatcher's hand, and where the tails are;
linking, unlinking and splicing are then operations on `q` and `f`, and the recursive
`chain` of the model is shown to return them. `Hand` says which fields of the entry in hand
are written, `Todo` which operations have no entry yet, `Walking` that the dispatcher has
passed only entries with a later target. `Position` is what the lock-free walk rests
on: a worker that was not overtaken stands on the request list, or on a part of the free
list, up to its end, in which every entry is completed, so that it walks on without
touching anything. `Requests` and `Commands` count what has been done for each
request. The first two theorems hold whether or not the worker was overtaken; the others
say `~overtaken => ...`, as their properties do.

### Queue pairs (`QueuePairProofs`)

`ExactlyOnceDispatch` and `PhaseIsExact`, for any number of queues, workers and commands,
from `RingAssumption`: the host has fewer commands in flight than a ring has entries.
`SqInv` says that the slots between the dispatcher's position and the doorbell hold the
submitted commands, each once, also after a refusal; a ring therefore never overflows,
because the commands in it are distinct (`Room`). `LockInv` is about the worker in
`entry_lock`: between its writing of the status and the move of `cq_head` an entry is new
that the ring does not yet count. `CqInv` gives the phase of every entry of the ring from
the host's phase, the side of the host's position it is on and whether it is new.

### Controller (`ControllerProofs`)

`ReadyMeansProgrammed`, `AdminExactlyOnce`, `AdminAnswersAreNew`, `NobodyOverlooked`,
`EveryRingIsSeen` and `CountIsExact`, for admin rings of any sizes, any number of I/O
queues, commands and bindings. The invariant has the registers and what the dispatcher has
seen of them (`RegInv`), what a driver holds outside a binding (`BindInv`), the admin rings
(`SqInv`, `CqInv`), the commands under way (`CmdInv`) and the I/O queues (`QueueInv`). The
assumptions on the driver listed in section 2 are guards of its actions and are used.
`CountIsExact` has the hypothesis `IO_DEPTH > 2`: in a ring of two entries two
acknowledgements between two polls bring the doorbell back to where it was, and TLC
finds `InFlightExact` violated there.

### Zoned FTL (`ZnsFTLProofs`)

`PointerAgrees`, `CountersAreExact` and `BufferIsConserved`. The three invariants and the
types are inductive only together: a counter stays a natural number because it counts
zones, the space of a buffer is conserved because an empty zone has nothing in it, and a
write stays in its zone because a zone at its end is full. The loop of open-all is
handled by an induction over the zones it has looked at, bounded by their number.

### Key-value FTL (`KvFTLProofs`)

From `KvAssumption`, for any keys, hash function, table size, lengths and mix of
commands, with one worker (`OneWorker`; two can take the same slot, see the hazard at
`kv_ftl.c:210`). The other hypotheses are on constants too, and each is needed, as the
list at the end of section 3 shows for most of them:

| theorem | property | further hypotheses |
|---|---|---|
| `WalksEnd` | `ChainsEnd` | |
| `IterationsComplete` | `IterComplete` | |
| `IterationsReportOnce` | `IterOnce` | `NoDelete`: a key that was lost and stored again has two entries |
| `EntriesStayApart` | `ValuesApart` | `BlocksFixed`: the bitmap allocator, or one small length; append-only memory does not grow with a longer update |
| `LookupsAreCurrent` | `FoundIsCurrent` | `LengthsKnown`: one length, or small values, the bitmap allocator and no batches, which do not record a new length |
| `AnswersAreCurrent` | `Answers` | `LengthsKnown` |
| `StoresAreRemembered` | `Remembered` | `LengthsKnown`, `NoDelete`: a delete hides the entries behind it |

What a lookup sees is `reach(tb, h)`, the least set of slots that contains `h` and is
closed under `next_slot`; what a store or a delete does to the table is stated as what it
does to these sets. Links never form a cycle because the entries carry a rank that falls
along them (`Acyclic`): a new entry at the end of a chain gets the lowest rank, even if it
fills a slot that old links still point at. `Base` has this, that no key has two entries
*on its chain* (`Unique`, true although deletes leave entries behind), and what the
command under way knows of the table. On it rest `IterKept` (a key an iterator owes has an
entry ahead of its position), `IterFresh` (every entry is on the chain of its key, and what
was reported is behind), `Apart` (the memory of all entries, and of the value that has none
yet, is disjoint and allocated) and `Current` (what is reachable for a key is what was
stored last, except for the key whose store is under way). An entry that a delete made
unreachable stays so: nothing links to it again until it is overwritten, which is why
old values do not come back into view.

### Timing (`SsdTimingProofs`)

`RingIsSound` (`UntouchedIsFull`), `LunsAreExclusive`, an action property, and
`ScheduleRefinement`, `Spec => ImplementsSchedule`. The invariant
is that the ring was last turned in the past (`cur_time <= clock`), that the entries
behind `valid_len` are full, which turning and consuming keep, and that the operation the
channel is working on starts no earlier than its LUN is free.

For the refinement, `charged(c, s)` is what the ring says of slot s. Turning it forgets the
past and nothing else (`TurnedCharges`): where the head stops early, both sides see
untouched entries. A request looks at entries up to one that serves it or to the end of the
ring (`Serves`) and adds to the slots what they gave (`ConsumedCharges`); that this fills
the earliest free credits, and that the totals differ by what was asked for less what is
missing, is `Places`, by induction along the slots.

### Model-checked only

Liveness: `WriteReturns`, `EveryCommandCompletes`, `EveryEntryIsTaken` and `CommandReturns`.
Fairness and `ENABLED` are beyond the prover. Every other property of a passing run is
the statement of a theorem. The two violations are TLC's alone.

## 5. Not modelled

- `simple_ftl`: a busy time per I/O unit, on which no decision depends. The PCIe link,
  which is one more `channel_model`; firmware latencies; `ssd_next_idle_time`, which only reads.
- The write buffer of the conventional FTL (a refusal that changes nothing else) and
  sub-page writes.
- PRP lists and the DMA engine: wrappers of kernel services.
- Identify and log pages (constant data), zone reports (formatting), PCI configuration
  space (constant data), MSI-X delivery (the kernel's), `/proc` files except for what
  `nr_in_flight` reports.
- The result words of I/O completions; status codes of admin commands.
- Zones: offline (never reached), select-all with explicit ZRWA flush.
- Keys of different lengths, value memory exhaustion, iterator handle 16 (which
  `kv_init_namespace` does not clear), the length of values updated by a batch (the call
  that records it is commented out).
- Composition of `QueuePair` with `IoWorker`: they meet in one call
  (`__fill_cq_result` for each request the worker completes, once by `ExactlyOnce`), and
  their product is beyond TLC at sizes where either is interesting.

## 6. Plan

Done, in this order: `ConvFTL`, `ConvStore` and their proofs; `IoWorker`;
`QueuePair`; `ZnsFTL`; `KvFTL`; `Pqueue`; `Controller`; `SsdTiming`.

Then the proofs, in the order: conventional FTL, queue pairs, controller, zoned FTL,
timing, work queue, victim queue, key-value FTL, and the schedule behind the credit ring.

What could follow: the composition of `QueuePair` with `IoWorker` (section 5), which now has
theorems on both sides to rest on; several workers in `KvFTL`, once the code has a lock; and
the liveness arguments written out by hand.
