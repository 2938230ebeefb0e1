------------------------------- MODULE KvFTL -------------------------------
(***************************************************************************)
(* The key-value FTL (kv_ftl.c): the hash table kv_mapping_table in the    *)
(* memory behind the storage area, the append-only and the bitmap          *)
(* allocator of value memory, and the iterators.                           *)
(*                                                                         *)
(* KV commands are not timed by contents: the dispatcher only schedules    *)
(* them, and an I/O worker performs the whole command when it reaches the  *)
(* entry (perform_io_cmd, io.c).  With one worker commands are performed   *)
(* one after another; several workers share the table without a lock.  A   *)
(* store is therefore split at the points where its worker reads or        *)
(* writes shared state: lookup, allocation and copy, choice of a slot,     *)
(* installation of the entry.  One walk along a chain is one step.         *)
(*                                                                         *)
(* Keys are opaque: two keys are equal or not, and Hash gives the slot.    *)
(* (memcmp over the command's key length also matches a stored key of      *)
(* which the command's key is a prefix, when both are in one chain; this   *)
(* needs keys of different lengths and is left out.)  A value of length n  *)
(* fills n cells of storage with the same token, so cells of different     *)
(* stores can be told apart.  PRP lists and latencies are left out.        *)
(***************************************************************************)
EXTENDS Integers, Sequences, FiniteSets, FiniteSetsExt

CONSTANTS
  Keys, Values,    \* what the host stores
  Lengths,         \* value lengths, in cells
  Hash,            \* hash_function(key) % hash_slots, as a function
  HASH_SLOTS,      \* kv_ftl->hash_slots
  STORAGE_SIZE,    \* config.storage_size, in cells
  ALLOCATOR_TYPE,  \* "APPEND_ONLY" (ssd_config.h) or "BITMAP"
  SMALL_LENGTH, LARGE_LENGTH,  \* bitmap.h
  Workers,         \* the I/O workers
  Ops,             \* the kinds of command the host sends
  MAX_SUBS,        \* bound: stores in one batch (MAX_SUB_CMD is 8)
  NR_ITER,         \* iterator handles (15: kv_init_namespace leaves handle 16 unset)
  KEYS_PER_READ    \* keys one 1024-byte iterator buffer holds (51)

None == -1
Slot == 0 .. HASH_SLOTS - 1
Offset == 0 .. STORAGE_SIZE - 1
MaxLength == Max(Lengths)

ASSUME KvAssumption ==
  /\ HASH_SLOTS \in Nat \ {0} /\ STORAGE_SIZE \in Nat \ {0}
  /\ Hash \in [Keys -> Slot]
  /\ Lengths \subseteq Nat \ {0} /\ \E m \in Lengths : \A n \in Lengths : n <= m
  /\ SMALL_LENGTH \in Nat \ {0} /\ LARGE_LENGTH \in Nat /\ LARGE_LENGTH >= SMALL_LENGTH
  /\ ALLOCATOR_TYPE \in {"APPEND_ONLY", "BITMAP"}
  /\ ALLOCATOR_TYPE = "BITMAP" => MaxLength <= LARGE_LENGTH
  /\ MAX_SUBS \in Nat /\ KEYS_PER_READ \in Nat \ {0} /\ NR_ITER \in Nat \ {0}

VARIABLES
  kv_mapping_table,  \* slot -> [key, mem_offset, length, next_slot]
  alloc,             \* latest (append-only), small_last_pos, large_last_pos
  storage,           \* the value memory, cell by cell
  work,              \* worker -> the command it is performing
  iter_handle,       \* iterator contexts
  reply,             \* the answer to the retrieve or exist performed last
  stored             \* ghost: key -> what the completed commands say it holds

vars == <<kv_mapping_table, alloc, storage, work, iter_handle, reply, stored>>

NoKey == "no key"
free_entry == [key |-> NoKey, mem_offset |-> None, length |-> None, next_slot |-> None]
idle == [pc |-> "idle", op |-> "none", todo |-> <<>>, offset |-> None,
         length |-> None, slot |-> None, prev |-> None]
closed == [open |-> FALSE]
no_reply == [op |-> "none"]

\* A value, as the host sees it: the sequence of its cells.
value_of(v, len) == [i \in 1 .. len |-> v]

Init ==
  /\ kv_mapping_table = [s \in Slot |-> free_entry]
  /\ alloc = [latest |-> 0, small |-> 0, large |-> 0]
  /\ storage = [o \in Offset |-> "zero"]
  /\ work = [w \in Workers |-> idle]
  /\ iter_handle = [h \in 1 .. NR_ITER |-> closed]
  /\ reply = no_reply
  /\ stored = [k \in Keys |-> <<>>]

-----------------------------------------------------------------------------
(* The hash table.                                                         *)

used(s) == kv_mapping_table[s].mem_offset # None

\* The slots a walk visits from s: along next_slot until a free slot or the
\* end.  A walk that has not ended after HASH_SLOTS steps never ends.
walk(s) ==
  LET at[n \in 0 .. HASH_SLOTS] ==
        IF n = 0 THEN (IF used(s) THEN s ELSE None)
        ELSE LET p == at[n - 1]
                 q == IF p = None THEN None ELSE kv_mapping_table[p].next_slot
             IN  IF q # None /\ used(q) THEN q ELSE None
  IN  at

walk_ends(s) == walk(s)[HASH_SLOTS] = None

\* get_mapping_entry: the first slot of the walk that holds the key, or None.
find(k) ==
  LET at == walk(Hash[k])
      hits == {n \in 0 .. HASH_SLOTS : at[n] # None /\ kv_mapping_table[at[n]].key = k}
  IN  IF hits = {} THEN None ELSE at[Min(hits)]

\* The tail of the walk from s (step 1 of find_next_slot).
tail_of(s) ==
  LET at == walk(s)
  IN  at[Max({n \in 0 .. HASH_SLOTS : at[n] # None})]

\* Variant: the probe does not wrap at the end of the table.
probe_order_no_wrap(t) == [d \in 0 .. HASH_SLOTS - 1 |-> IF t + d < HASH_SLOTS THEN t + d ELSE t]

\* Linear probing from t (step 2): the free slot fewest places after t.
probe_order(t) == [d \in 0 .. HASH_SLOTS - 1 |-> (t + d) % HASH_SLOTS]

free_from(t) == {d \in 0 .. HASH_SLOTS - 1 : ~used(probe_order(t)[d])}

\* Variant: links from the hash slot instead of the tail, as the line
\* commented out in find_next_slot did.
new_slot_from_head(k) ==
  LET h == Hash[k]
      t == tail_of(h)
  IN  IF ~used(h) THEN [slot |-> h, prev |-> None]
      ELSE [slot |-> probe_order(t)[Min(free_from(t))], prev |-> h]

\* get_hash_slot and find_next_slot: the slot of a new entry, and the slot it
\* is linked from.
new_slot(k) ==
  LET h == Hash[k]
      t == tail_of(h)
  IN  IF ~used(h) THEN [slot |-> h, prev |-> None]
      ELSE [slot |-> probe_order(t)[Min(free_from(t))], prev |-> t]

slot_available(k) == used(Hash[k]) => free_from(tail_of(Hash[k])) # {}

\* Variant: the entry is linked back to its predecessor.
with_entry_linked_back(table, x, k, off, len) ==
  LET filled == [table EXCEPT ![x.slot] =
                   [@ EXCEPT !.key = k, !.mem_offset = off, !.length = len,
                             !.next_slot = x.prev]]
  IN  IF x.prev = None THEN filled
      ELSE [filled EXCEPT ![x.prev].next_slot = x.slot]

\* new_mapping_entry: fill the slot, leave its next_slot, link it.
with_entry(table, x, k, off, len) ==
  LET filled == [table EXCEPT ![x.slot] =
                   [@ EXCEPT !.key = k, !.mem_offset = off, !.length = len]]
  IN  IF x.prev = None THEN filled
      ELSE [filled EXCEPT ![x.prev].next_slot = x.slot]

-----------------------------------------------------------------------------
(* The allocators.  Neither ever takes memory back.                        *)

append_only_allocate(len) ==
  [offset |-> alloc.latest, next |-> [alloc EXCEPT !.latest = @ + len]]

\* One bit per value; the first half of the storage for small ones.
bitmap_allocate(len) ==
  IF len > SMALL_LENGTH
  THEN [offset |-> STORAGE_SIZE \div 2 + alloc.large * LARGE_LENGTH,
        next |-> [alloc EXCEPT !.large = @ + 1]]
  ELSE [offset |-> alloc.small * SMALL_LENGTH,
        next |-> [alloc EXCEPT !.small = @ + 1]]

\* Variant: forgets to move past the memory it hands out.
allocate_stays(len) ==
  [offset |-> IF ALLOCATOR_TYPE = "BITMAP" THEN bitmap_allocate(len).offset ELSE alloc.latest,
   next |-> alloc]

allocate(len) ==
  IF ALLOCATOR_TYPE = "BITMAP" THEN bitmap_allocate(len) ELSE append_only_allocate(len)

\* The model's bound on allocation: a command starts only when the storage
\* holds all that it and the commands under way may allocate.  (Beyond it the
\* code copies past the storage; BUG_ON comes after the copy.)
room(n) ==
  LET pending == MapThenSumSet(LAMBDA w : Len(work[w].todo), Workers) + n
  IN  IF ALLOCATOR_TYPE = "BITMAP"
      THEN /\ (alloc.small + pending) * SMALL_LENGTH <= STORAGE_SIZE \div 2
           /\ (alloc.large + pending) * LARGE_LENGTH <= STORAGE_SIZE \div 2
      ELSE alloc.latest + pending * MaxLength <= STORAGE_SIZE

-----------------------------------------------------------------------------
(* Stores and batches of stores (__do_perform_kv_io, __do_perform_kv_batch)*)

Sub == [key : Keys, val : Values, len : Lengths]

begin(w, op, subs) ==
  /\ op \in Ops
  /\ work[w] = idle
  /\ room(Len(subs))
  /\ work' = [work EXCEPT ![w] = [idle EXCEPT !.pc = "lookup", !.op = op, !.todo = subs]]
  /\ reply' = no_reply
  /\ UNCHANGED <<kv_mapping_table, alloc, storage, iter_handle, stored>>

KvStore(w) == \E c \in Sub : begin(w, "store", <<c>>)

KvBatch(w) == \E n \in 1 .. MAX_SUBS : \E cs \in [1 .. n -> Sub] : begin(w, "batch", cs)

sub(w) == Head(work[w].todo)

\* One store is done: the next one of a batch, or the end of the command.
done(w) ==
  LET rest == Tail(work[w].todo)
  IN  IF rest = <<>> THEN idle
      ELSE [idle EXCEPT !.pc = "lookup", !.op = work[w].op, !.todo = rest]

remember(c) == stored' = [stored EXCEPT ![c.key] = value_of(c.val, c.len)]

\* get_mapping_entry (or ..._by_key)
Lookup(w) ==
  /\ work[w].pc = "lookup"
  /\ walk_ends(Hash[sub(w).key])
  /\ LET s == find(sub(w).key)
     IN  work' = [work EXCEPT ![w] =
                    [@ EXCEPT !.pc = "copy",
                              !.offset = IF s = None THEN None ELSE kv_mapping_table[s].mem_offset,
                              !.length = IF s = None THEN None ELSE kv_mapping_table[s].length]]
  /\ UNCHANGED <<kv_mapping_table, alloc, storage, iter_handle, reply, stored>>

\* Variant: the new length is never recorded.
length_changes_ignored(w, len) == FALSE

\* An update whose length changes is recorded only when both lengths are
\* small, and never in a batch; the copy happens in any case.
length_changes(w, len) ==
  /\ work[w].op = "store"
  /\ sub(w).len # len
  /\ sub(w).len <= SMALL_LENGTH /\ len <= SMALL_LENGTH

cells(off, len) == off .. off + len - 1

write_cells(off, c) ==
  storage' = [o \in Offset |-> IF o \in cells(off, c.len) THEN c.val ELSE storage[o]]

\* No entry: allocate and copy the value there.
CopyNew(w) ==
  /\ work[w].pc = "copy" /\ work[w].offset = None
  /\ LET a == allocate(sub(w).len)
     IN  /\ alloc' = a.next
         /\ write_cells(a.offset, sub(w))
         /\ work' = [work EXCEPT ![w] = [@ EXCEPT !.pc = "slot", !.offset = a.offset]]
  /\ UNCHANGED <<kv_mapping_table, iter_handle, reply, stored>>

\* The entry exists: copy the value over the old one.
CopyOver(w) ==
  /\ work[w].pc = "copy" /\ work[w].offset # None
  /\ write_cells(work[w].offset, sub(w))
  /\ IF length_changes(w, work[w].length)
     THEN /\ work' = [work EXCEPT ![w].pc = "length"]
          /\ UNCHANGED stored
     ELSE work' = [work EXCEPT ![w] = done(w)] /\ remember(sub(w))
  /\ UNCHANGED <<kv_mapping_table, alloc, iter_handle, reply>>

\* update_mapping_entry: looks the key up once more and sets its length.
UpdateLength(w) ==
  /\ work[w].pc = "length"
  /\ walk_ends(Hash[sub(w).key])
  /\ LET s == find(sub(w).key)
     IN  IF s = None THEN UNCHANGED kv_mapping_table
         ELSE kv_mapping_table' = [kv_mapping_table EXCEPT ![s].length = sub(w).len]
  /\ work' = [work EXCEPT ![w] = done(w)]
  /\ remember(sub(w))
  /\ UNCHANGED <<alloc, storage, iter_handle, reply>>

\* new_mapping_entry up to the choice of the slot.  With every slot in use the
\* probe goes round the table for ever, and the worker takes no further step.
FindSlot(w) ==
  /\ work[w].pc = "slot"
  /\ walk_ends(Hash[sub(w).key])
  /\ slot_available(sub(w).key)
  /\ LET x == new_slot(sub(w).key)
     IN  work' = [work EXCEPT ![w] = [@ EXCEPT !.pc = "install", !.slot = x.slot,
                                               !.prev = x.prev]]
  /\ UNCHANGED <<kv_mapping_table, alloc, storage, iter_handle, reply, stored>>

\* The rest of new_mapping_entry: the entry is written and linked.
Install(w) ==
  /\ work[w].pc = "install"
  /\ kv_mapping_table' = with_entry(kv_mapping_table, [slot |-> work[w].slot, prev |-> work[w].prev],
                                    sub(w).key, work[w].offset, sub(w).len)
  /\ work' = [work EXCEPT ![w] = done(w)]
  /\ remember(sub(w))
  /\ UNCHANGED <<alloc, storage, iter_handle, reply>>

-----------------------------------------------------------------------------
(* Retrieve, exist and delete: lookup and effect in one step.              *)

\* Variant: fills the host's buffer whatever the length of the value.
read_length_buffer(s, n) == n

\* What a retrieve with a buffer of n cells copies out of slot s.
read_length(s, n) == Min({kv_mapping_table[s].length, n})

one_step(w, op, k) ==
  /\ op \in Ops
  /\ work[w] = idle
  /\ walk_ends(Hash[k])
  /\ UNCHANGED <<alloc, storage, work>>

KvRetrieve(w) ==
  \E k \in Keys, n \in Lengths :
    /\ one_step(w, "retrieve", k)
    /\ LET s == find(k)
       IN  reply' = [op |-> "retrieve", key |-> k, buf |-> n, exists |-> s # None,
                     value |-> IF s = None THEN <<>> ELSE
                       [i \in 1 .. read_length(s, n) |->
                          storage[kv_mapping_table[s].mem_offset + i - 1]]]
    /\ UNCHANGED <<kv_mapping_table, iter_handle, stored>>

KvExist(w) ==
  \E k \in Keys :
    /\ one_step(w, "exist", k)
    /\ reply' = [op |-> "exist", key |-> k, exists |-> find(k) # None]
    /\ UNCHANGED <<kv_mapping_table, iter_handle, stored>>

\* The key is gone for the host: no open iterator owes it any more.
release_key(k) ==
  iter_handle' = [h \in DOMAIN iter_handle |->
                    IF iter_handle[h].open THEN [iter_handle[h] EXCEPT !.owed = @ \ {k}]
                    ELSE closed]

\* delete_mapping_entry clears the whole entry, its next_slot included.
KvDelete(w) ==
  \E k \in Keys :
    /\ one_step(w, "delete", k)
    /\ reply' = no_reply
    /\ LET s == find(k)
       IN  IF s = None
           THEN UNCHANGED <<kv_mapping_table, iter_handle, stored>>
           ELSE /\ kv_mapping_table' = [kv_mapping_table EXCEPT ![s] = free_entry]
                /\ stored' = [stored EXCEPT ![k] = <<>>]
                /\ release_key(k)

-----------------------------------------------------------------------------
(* Iterators.  Every key matches the iterator's prefix; current_pos is the *)
(* slot the next read starts at.  Ghosts: the keys reported, those         *)
(* reported more than once, and those owed, stored since the open.         *)

iter_step(w) ==
  /\ "iter" \in Ops
  /\ work[w] = idle
  /\ reply' = no_reply
  /\ UNCHANGED <<kv_mapping_table, alloc, storage, work, stored>>

closed_handles == {h \in 1 .. NR_ITER : ~iter_handle[h].open}

\* kv_iter_open takes the first free handle; without one it returns 1 and
\* changes nothing, which reaches the host as success with handle 1.
KvIterOpen(w) ==
  /\ iter_step(w)
  /\ IF closed_handles = {}
     THEN UNCHANGED iter_handle
     ELSE iter_handle' = [iter_handle EXCEPT ![Min(closed_handles)] =
            [open |-> TRUE, current_pos |-> 0, end |-> FALSE, reported |-> {},
             twice |-> {}, owed |-> {k \in Keys : stored[k] # <<>>}]]

KvIterClose(w) ==
  \E h \in 1 .. NR_ITER :
    /\ iter_step(w)
    /\ iter_handle' = [iter_handle EXCEPT ![h] = closed]

\* The entries a read from pos can see, in slot order, and those of them that
\* no longer fit into the buffer.
live_from(pos) == {s \in pos .. HASH_SLOTS - 1 : used(s)}
over_from(pos) ==
  {s \in live_from(pos) : Cardinality({t \in live_from(pos) : t < s}) >= KEYS_PER_READ}

\* Variants: a full buffer leaves the position after the entry that did not
\* fit; on the last entry reported.
pos_after_skips(pos) == IF over_from(pos) = {} THEN HASH_SLOTS ELSE Min(over_from(pos)) + 1
pos_after_again(pos) ==
  IF over_from(pos) = {} THEN HASH_SLOTS ELSE Max(live_from(pos) \ over_from(pos))

\* The position a read leaves: a full buffer stops at the first entry that
\* does not fit.
pos_after(pos) == IF over_from(pos) = {} THEN HASH_SLOTS ELSE Min(over_from(pos))

\* kv_iter_read; status 0x393 (end) when this read reached the last slot.
KvIterRead(w) ==
  \E h \in 1 .. NR_ITER :
    /\ iter_step(w)
    /\ iter_handle[h].open
    /\ LET it == iter_handle[h]
           pos == it.current_pos
           slots == live_from(pos) \ over_from(pos)
           got == {kv_mapping_table[s].key : s \in slots}
           again == {k \in got : Cardinality({s \in slots : kv_mapping_table[s].key = k}) > 1}
           ended == pos < HASH_SLOTS /\ over_from(pos) = {}
       IN  iter_handle' = [iter_handle EXCEPT ![h] =
             [it EXCEPT !.current_pos = pos_after(pos), !.end = it.end \/ ended,
                        !.reported = it.reported \cup got,
                        !.twice = it.twice \cup (got \cap it.reported) \cup again]]

\* "Invalid Iterator Handle": a read on a closed handle returns 0 keys.
KvIterReadClosed(w) ==
  \E h \in closed_handles :
    /\ iter_step(w)
    /\ UNCHANGED iter_handle

-----------------------------------------------------------------------------
Step(w) ==
  Lookup(w) \/ CopyNew(w) \/ CopyOver(w) \/ UpdateLength(w) \/ FindSlot(w) \/ Install(w)

Command(w) ==
  \/ KvStore(w) \/ KvBatch(w) \/ KvRetrieve(w) \/ KvExist(w) \/ KvDelete(w)
  \/ KvIterOpen(w) \/ KvIterClose(w) \/ KvIterRead(w) \/ KvIterReadClosed(w)

Next == \E w \in Workers : Step(w) \/ Command(w)

Spec == Init /\ [][Next]_vars

\* A worker is a kernel thread that performs the command it has begun.
FairSpec == Spec /\ \A w \in Workers : WF_vars(Step(w))

-----------------------------------------------------------------------------
(* Properties.                                                             *)

\* Types of the table, the allocators and the positions.
TypeOK ==
  /\ kv_mapping_table \in [Slot -> [key : Keys \cup {NoKey}, mem_offset : Offset \cup {None},
                                    length : Lengths \cup {None}, next_slot : Slot \cup {None}]]
  /\ DOMAIN storage = Offset
  /\ \A w \in Workers :
       /\ work[w].pc \in {"idle", "lookup", "copy", "length", "slot", "install"}
       /\ work[w].offset \in Offset \cup {None}
       /\ work[w].slot \in Slot \cup {None} /\ work[w].prev \in Slot \cup {None}
  /\ \A h \in 1 .. NR_ITER : iter_handle[h].open => iter_handle[h].current_pos \in 0 .. HASH_SLOTS

\* Every walk along next_slot ends: entries may be reached from several
\* chains, deleted and refilled, but the links never form a cycle, so no
\* lookup makes a worker spin; all positions and links have their types.
ChainsEnd == TypeOK /\ \A s \in Slot : walk_ends(s)

in_store(k) == \E w \in Workers : \E i \in 1 .. Len(work[w].todo) : work[w].todo[i].key = k

\* The value in slot s as far as its recorded length.
value_at(s) ==
  [i \in 1 .. kv_mapping_table[s].length |-> storage[kv_mapping_table[s].mem_offset + i - 1]]

contents(k) == IF find(k) = None THEN <<>> ELSE value_at(find(k))

\* What the table and the storage hold for a key is what the completed
\* commands stored, for every key no worker is just storing: no store, of
\* this key or another, colliding or not, disturbs it.
Remembered == \A k \in Keys : in_store(k) \/ contents(k) = stored[k]

\* Deletes break chains, but a key that is found still holds what was stored
\* last: no old copy of it, left behind in a slot that could not be reached,
\* comes back into view.
FoundIsCurrent == \A k \in Keys : in_store(k) \/ find(k) = None \/ contents(k) = stored[k]

\* Two entries never share value memory.
ValuesApart ==
  \A s, t \in Slot :
    s # t /\ used(s) /\ used(t) =>
      cells(kv_mapping_table[s].mem_offset, kv_mapping_table[s].length)
        \cap cells(kv_mapping_table[t].mem_offset, kv_mapping_table[t].length) = {}

\* A retrieve that answers with a value answers with the one stored last, cut
\* to the host's buffer, and never for a key that was deleted.
Answers ==
  reply.op = "retrieve" /\ reply.exists /\ ~in_store(reply.key) =>
    /\ stored[reply.key] # <<>>
    /\ reply.value = SubSeq(stored[reply.key], 1, Min({reply.buf, Len(stored[reply.key])}))

\* A key whose store completed and that was not deleted is found: the lookup
\* answers "key doesn't exist" for no other reason.
StoredIsFound == \A k \in Keys : in_store(k) \/ (stored[k] # <<>> => find(k) # None)

\* An iteration that reported its end has reported every key that was stored
\* when it was opened and was not deleted since, whatever was stored or
\* deleted between its reads.
IterComplete ==
  \A h \in 1 .. NR_ITER :
    iter_handle[h].open /\ iter_handle[h].end => iter_handle[h].owed \subseteq iter_handle[h].reported

\* An iteration reports no key twice.
IterOnce == \A h \in 1 .. NR_ITER : iter_handle[h].open => iter_handle[h].twice = {}

\* A worker that has begun a command finishes it: as long as the table has a
\* slot for every key, probing finds one.
CommandReturns == \A w \in Workers : (work[w].pc # "idle") ~> (work[w].pc = "idle")
=============================================================================
