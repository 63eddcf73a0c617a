------------------------------ MODULE BkMalloc ------------------------------
(***************************************************************************)
(* The heaps of bkmalloc (src/include/bkmalloc.h): threads allocate from   *)
(* any heap and free any live object, from whichever thread.               *)
(*                                                                         *)
(* A heap keeps a list of blocks per size class, each under its lock, and  *)
(* a list of emptied blocks for reuse under a lock of its own; what all    *)
(* reuse lists hold together is counted under a third lock.  Frees of slot *)
(* memory take the lock of the list; frees of chunks and of bump memory    *)
(* take none, and interleave with an allocation that walks the block.      *)
(*                                                                         *)
(* A step is what a thread does between two points where another one can   *)
(* see a difference: the taking of a lock, the write of an unlocked field. *)
(* A critical section that touches only what its lock protects is one step *)
(* and its lock is not a variable.  free_count is counted only under the   *)
(* policy that reads it.  A definition D_xyz is D with a mistake in it.    *)
(***************************************************************************)
EXTENDS BkBlocks, SequencesExt

CONSTANTS
  Threads, Heaps, Blocks,
  UserHeaps,       \* the heaps a program can destroy
  Requests, Aligns,
  BigZero,         \* the calloc size that gets a block of its own (16 KB)
  MaxReuse,        \* max-reuse-list-size-MB
  DecommitAfter, ReleaseAfter, \* gc-decommit- and gc-release-reuse-after-passes
  FreeThreshold,   \* gc-free-threshold
  Policies,        \* gc-policy, read once when the program starts
  MaxLive,         \* bound: live objects and calls under way
  None

ASSUME MallocAssumption ==
  /\ UserHeaps \subseteq Heaps
  /\ Requests \subseteq Nat \ {0} /\ Aligns \subseteq {2^i : i \in 0 .. 20} \cap (Nat \ {0})
  /\ {BigZero, MaxReuse, DecommitAfter, ReleaseAfter, FreeThreshold, MaxLive} \subseteq Nat
  /\ Policies \subseteq {"never", "free_threshold", "failure"}
  /\ None \notin Threads \cup Heaps \cup Blocks
  /\ IsFiniteSet(Threads) /\ IsFiniteSet(Blocks)
  /\ None \notin [heap : Heaps, class : Nat, size : Nat, zero : BOOLEAN, calloc : BOOLEAN,
                   passes : Nat]

(* A new block has room for every request at every alignment.  bkmalloc    *)
(* returns NULL for alignments of half a block and more.                   *)
ASSUME AlignsAssumption ==
  /\ \A al \in Aligns : al < BlockUnits
  /\ \A c \in Classes, al \in Aligns :
       \/ al <= SizeOf(c)
       \/ ChunkStart(FirstChunk, al, c) + SizeOf(c) < ChunkEnd
       \/ AlignUp(BumpBase(c), al) + SizeOf(c) <= BlockUnits

VARIABLES
  gc_policy,
  meta,        \* of a mapped block, its metadata; None: not mapped
  slots, chunks, bump,
  full,        \* all_chunks_used
  dirty,       \* pages of the block that may hold something else than 0
  block_lists, lock,       \* per heap and size class
  reuse_list, reuse_size, reuse_lock,
  reuse_bytes,             \* bk_reuse_list_bytes
  free_count,
  op,          \* what each thread is doing
  live         \* the objects the program holds

inside == <<meta, slots, chunks, bump, full, dirty>>
reuse  == <<reuse_list, reuse_size, reuse_lock, reuse_bytes>>
vars   == <<gc_policy, inside, block_lists, lock, reuse, free_count, op, live>>

Idle == [pc |-> "idle"]

Set(f, x, v) == [f EXCEPT ![x] = v]
Goto(t, pc) == op' = [op EXCEPT ![t].pc = pc]

Mapped == {b \in Blocks : meta[b] # None}
Following(seq, b) ==
  LET i == CHOOSE j \in DOMAIN seq : seq[j] = b
  IN  IF i = Len(seq) THEN None ELSE seq[i + 1]
(* A list after a walk that unlinks some of its blocks.                    *)
Without(seq, bs) ==
  LET left[i \in 0 .. Len(seq)] ==
        IF i = 0 THEN <<>>
        ELSE IF seq[i] \in bs THEN left[i - 1] ELSE Append(left[i - 1], seq[i])
  IN  left[Len(seq)]
HeadOf(seq) == IF seq = <<>> THEN None ELSE Head(seq)

Init ==
  /\ gc_policy \in Policies
  /\ meta = [b \in Blocks |-> None]
  /\ slots = [b \in Blocks |-> NoSlots]
  /\ chunks = [b \in Blocks |-> FreshChunks(TRUE)]
  /\ bump = [b \in Blocks |-> FreshBump(0)]
  /\ full = [b \in Blocks |-> FALSE]
  /\ dirty = [b \in Blocks |-> {}]
  /\ block_lists = [h \in Heaps |-> [c \in Classes |-> <<>>]]
  /\ lock = [h \in Heaps |-> [c \in Classes |-> None]]
  /\ reuse_list = [h \in Heaps |-> <<>>]
  /\ reuse_size = [h \in Heaps |-> 0]
  /\ reuse_lock = [h \in Heaps |-> None]
  /\ reuse_bytes = 0
  /\ free_count = [h \in Heaps |-> 0]
  /\ op = [t \in Threads |-> Idle]
  /\ live = {}
----------------------------------------------------------------------------
(* Blocks.                                                                 *)

(* bk_reset_block; calloc is from_calloc, which bk_get_block sets.         *)
Fresh(h, class, size, zero, calloc) ==
  [heap |-> h, class |-> class, size |-> size, zero |-> zero,
   calloc |-> calloc, passes |-> 0]

(* What a block held means nothing once it is off the lists: every use of  *)
(* it begins with bk_reset_block.                                          *)
Forget(bs) ==
  /\ slots' = [x \in Blocks |-> IF x \in bs THEN NoSlots ELSE slots[x]]
  /\ bump' = [x \in Blocks |-> IF x \in bs THEN FreshBump(0) ELSE bump[x]]
  /\ full' = [x \in Blocks |-> IF x \in bs THEN FALSE ELSE full[x]]

ResetBlock(b, class, zero) ==
  /\ slots' = Set(slots, b, NoSlots)
  /\ chunks' = Set(chunks, b, FreshChunks(zero))
  /\ bump' = Set(bump, b, FreshBump(class))
  /\ full' = Set(full, b, FALSE)

(* madvise refuses an address that is not the start of a page.             *)
Decommitted(pages, from, to) ==
  IF from % PageUnits # 0 THEN pages ELSE pages \ ((from \div PageUnits) .. (to \div PageUnits) - 1)

(* What is left of a reused block's pages: all are dropped for a calloc    *)
(* that needs it, else those beyond the request.                           *)
ReusedPages(b, size, zero) ==
  IF zero /\ ~meta[b].zero THEN Decommitted(dirty[b], PageUnits, meta[b].size)
  ELSE IF meta[b].size # size THEN Decommitted(dirty[b], size, meta[b].size)
  ELSE dirty[b]

RetiredMeta_KeepsZero(b) == meta[b]

(* A block that is retired is zero again only if a calloc had it.          *)
RetiredMeta(b) == [meta[b] EXCEPT !.zero = meta[b].calloc]
RetiredPages(b) ==
  IF meta[b].calloc THEN Decommitted(dirty[b], PageUnits, meta[b].size) ELSE dirty[b]

SizeSum(bs) == MapThenSumSet(LAMBDA b : meta[b].size, bs)

(* bk_remove_block, its critical section under the two reuse locks: what   *)
(* is too big for the limit is released, else the oldest blocks of the     *)
(* heap's list make room for it.                                           *)
TooBig(h, b) == reuse_bytes - reuse_size[h] + meta[b].size > MaxReuse

Kept_All(h, b) == reuse_list[h]

Kept(h, b) ==
  LET front(n) == SubSeq(reuse_list[h], 1, n)
      fits(n)  == reuse_bytes - reuse_size[h] + SizeSum(Range(front(n))) + meta[b].size
                    <= MaxReuse
  IN  front(Max({n \in 0 .. Len(reuse_list[h]) : fits(n)}))

RemoveBlock(h, b) ==
  LET kept  == IF TooBig(h, b) THEN reuse_list[h] ELSE <<b>> \o Kept(h, b)
      gone  == ({b} \cup Range(reuse_list[h])) \ Range(kept)
      delta == (IF b \in gone THEN 0 ELSE meta[b].size) - SizeSum(gone \ {b})
  IN  /\ reuse_lock[h] = None
      /\ meta' = [x \in Blocks |-> IF x \in gone THEN None
                                   ELSE IF x = b THEN RetiredMeta(b) ELSE meta[x]]
      /\ dirty' = [x \in Blocks |-> IF x \in gone THEN {}
                                    ELSE IF x = b THEN RetiredPages(b) ELSE dirty[x]]
      /\ reuse_list' = Set(reuse_list, h, kept)
      /\ reuse_size' = [reuse_size EXCEPT ![h] = @ + delta]
      /\ reuse_bytes' = reuse_bytes + delta
      /\ Forget({b})
      /\ UNCHANGED reuse_lock
----------------------------------------------------------------------------
(* An allocation begins: bk_heap_alloc up to its lock.                     *)
Calls == {t \in Threads : op[t].pc # "idle"}
RoomToRun ==
  /\ Cardinality(live) + Cardinality(Calls) < MaxLive
  /\ Cardinality(Blocks \ Mapped) > Cardinality(Calls)

Begin(t, n, al, zero, old) ==
  \E h \in Heaps :
    LET big == NeedsBig(n, zero, BigZero)
    IN  op' = Set(op, t, [pc |-> IF big THEN "get" ELSE "lock", heap |-> h,
                          class |-> IF big THEN Big ELSE ClassOf(n), n |-> n, al |-> al,
                          zero |-> zero, at |-> None, mem |-> 0, old |-> old])

Malloc(t) ==
  /\ op[t].pc = "idle" /\ RoomToRun
  /\ \E n \in Requests, al \in Aligns, zero \in BOOLEAN :
       (zero => al = 1) /\ Begin(t, n, al, zero, {})
  /\ UNCHANGED <<gc_policy, inside, block_lists, lock, reuse, free_count, live>>

(* _bk_realloc: what is large enough stays where it is.                    *)
Held(o) == \E t \in Calls : "old" \in DOMAIN op[t] /\ o \in op[t].old
Usable(o) == UsableSize(meta[o.block].class, meta[o.block].size, chunks[o.block], o.at)

Realloc(t) ==
  /\ op[t].pc = "idle" /\ RoomToRun
  /\ \E o \in live, n \in Requests :
       /\ ~Held(o)
       /\ IF Usable(o) >= n
          THEN /\ live' = (live \ {o}) \cup {[o EXCEPT !.n = n]}
               /\ dirty' = [dirty EXCEPT ![o.block] = @ \cup PagesOf(o.at, n)]
               /\ UNCHANGED op
          ELSE Begin(t, n, 1, FALSE, {o}) /\ UNCHANGED <<dirty, live>>
  /\ UNCHANGED <<gc_policy, meta, slots, chunks, bump, full, block_lists, lock, reuse,
                 free_count>>

LockList(t) ==
  LET h == op[t].heap  c == op[t].class IN
  /\ op[t].pc = "lock" /\ lock[h][c] = None
  /\ lock' = [lock EXCEPT ![h][c] = t]
  /\ op' = [op EXCEPT ![t].pc = "walk", ![t].at = HeadOf(block_lists[h][c])]
  /\ UNCHANGED <<gc_policy, inside, block_lists, reuse, free_count, live>>
----------------------------------------------------------------------------
(* bk_alloc_from_block: a slot, else a chunk, else bump space.             *)
At(t, pc) == op[t].pc = pc /\ op[t].at # None
Got(t, u) == op' = [op EXCEPT ![t].pc = "done", ![t].mem = u]
OutsideBlocks == <<gc_policy, meta, block_lists, lock, reuse, free_count, live>>

HasSlot(t) == /\ op[t].al <= SizeOf(op[t].class)
              /\ slots[op[t].at].n # SlotsOf(op[t].class)
Chunks(t) == Fitting(chunks[op[t].at], op[t].n, op[t].al, op[t].class)

AllocSlot(t) ==
  /\ At(t, "walk") /\ HasSlot(t)
  /\ slots' = [slots EXCEPT ![op[t].at] = TakeSlot(@)]
  /\ Got(t, SlotStart(op[t].class, NextSlot(slots[op[t].at])))
  /\ UNCHANGED <<OutsideBlocks, chunks, bump, full, dirty>>

AllocChunk(t) ==
  /\ At(t, "walk") /\ ~HasSlot(t) /\ ~full[op[t].at] /\ Chunks(t) # {}
  /\ LET u == Min(Chunks(t))
         start == ChunkStart(u, op[t].al, op[t].class)
     IN  /\ chunks' = [chunks EXCEPT ![op[t].at] = TakeChunk(@, u, start)]
         /\ dirty' = [dirty EXCEPT ![op[t].at] = @ \cup PagesOf(start - 1, 1)]
         /\ Got(t, start)
  /\ UNCHANGED <<OutsideBlocks, slots, bump, full>>

(* The walk over the chunks found none: the block is marked full, a moment *)
(* after the last chunk was looked at.                                     *)
NoChunk(t) ==
  /\ At(t, "walk") /\ ~HasSlot(t) /\ ~full[op[t].at] /\ Chunks(t) = {}
  /\ Goto(t, "full")
  /\ UNCHANGED <<OutsideBlocks, slots, chunks, bump, full, dirty>>

MarkFull(t) ==
  /\ At(t, "full")
  /\ full' = Set(full, op[t].at, TRUE)
  /\ Goto(t, "bump")
  /\ UNCHANGED <<OutsideBlocks, slots, chunks, bump, dirty>>

AtBump(t) == At(t, "bump") \/ (At(t, "walk") /\ ~HasSlot(t) /\ full[op[t].at])

AllocBump(t) ==
  /\ AtBump(t) /\ BumpFits(bump[op[t].at], op[t].n, op[t].al)
  /\ LET start == BumpStart(bump[op[t].at], op[t].al)
     IN  /\ bump' = [bump EXCEPT ![op[t].at] = TakeBump(@, op[t].n, op[t].al)]
         /\ dirty' = [dirty EXCEPT ![op[t].at] = @ \cup PagesOf(start - 1, 1)]
         /\ Got(t, start)
  /\ UNCHANGED <<OutsideBlocks, slots, chunks, full>>

(* Nothing in this block.  It is never the block just added, by            *)
(* AlignsAssumption.                                                       *)
NextBlock(t) ==
  /\ AtBump(t) /\ ~BumpFits(bump[op[t].at], op[t].n, op[t].al)
  /\ op' = [op EXCEPT ![t].pc = "walk", ![t].at = Following(block_lists[op[t].heap][op[t].class], op[t].at)]
  /\ UNCHANGED <<OutsideBlocks, slots, chunks, bump, full, dirty>>

(* The list has nothing: gc it once if the policy says so, and ask for a   *)
(* new block.  After the gc the code goes back to its walk with no block   *)
(* in hand, so that it looks at none again.                                *)
ListEnds(t) ==
  /\ op[t].pc = "walk" /\ op[t].at = None
  /\ op' = IF gc_policy = "failure"
           THEN [op EXCEPT ![t].pc = "gc", ![t].at = HeadOf(block_lists[op[t].heap][op[t].class])]
           ELSE [op EXCEPT ![t].pc = "get"]
  /\ UNCHANGED <<OutsideBlocks, slots, chunks, bump, full, dirty>>
----------------------------------------------------------------------------
Empty_NoBump(b) == AllFree(chunks[b]) /\ slots[b].n = 0

(* bk_gc_block, under the lock of the list.                                *)
Empty(b) == AllFree(chunks[b]) /\ slots[b].n = 0 /\ bump[b].n = bump[b].freed

GcBlock(t) ==
  LET h == op[t].heap  c == op[t].class  b == op[t].at IN
  /\ At(t, "gc") \/ At(t, "sweep")
  /\ chunks' = [chunks EXCEPT ![b] = IF Empty(b) THEN FreshChunks(TRUE) ELSE Coalesced(@)]
  /\ op' = [op EXCEPT ![t].at = Following(block_lists[h][c], b)]
  /\ IF Empty(b)
     THEN /\ RemoveBlock(h, b)
          /\ block_lists' = [block_lists EXCEPT ![h][c] = Without(@, {b})]
     ELSE UNCHANGED <<meta, slots, bump, full, dirty, reuse, block_lists>>
  /\ UNCHANGED <<gc_policy, lock, free_count, live>>

GcEnds(t) ==
  /\ op[t].pc = "gc" /\ op[t].at = None
  /\ Goto(t, "get")
  /\ UNCHANGED <<gc_policy, inside, block_lists, lock, reuse, free_count, live>>

(* bk_get_block: the smallest block of the reuse list that is large        *)
(* enough, the newest of those; unlinked first, subtracted from what all   *)
(* lists hold next.                                                        *)
WantedSize(t) == IF op[t].class = Big THEN BigRequest(op[t].n, op[t].al) ELSE BlockUnits
Enough(t) ==
  {i \in DOMAIN reuse_list[op[t].heap] : meta[reuse_list[op[t].heap][i]].size >= WantedSize(t)}
SizeAt(h, i) == meta[reuse_list[h][i]].size
BestFit(h, is) ==
  Min({i \in is : \A j \in is : SizeAt(h, i) <= SizeAt(h, j)})

UnlinkReuse(t) ==
  LET h == op[t].heap  i == BestFit(h, Enough(t)) IN
  /\ op[t].pc = "get" /\ reuse_lock[h] = None /\ Enough(t) # {}
  /\ reuse_lock' = Set(reuse_lock, h, t)
  /\ reuse_list' = [reuse_list EXCEPT ![h] = RemoveAt(@, i)]
  /\ reuse_size' = [reuse_size EXCEPT ![h] = @ - SizeAt(h, i)]
  /\ op' = [op EXCEPT ![t].pc = "reuse", ![t].at = reuse_list[h][i]]
  /\ UNCHANGED <<gc_policy, inside, block_lists, lock, reuse_bytes, free_count, live>>

(* The blocks left on the list have been passed over once more: they lose  *)
(* their pages, and later their place.                                     *)
PassedOver(b) ==
  LET passes == meta[b].passes + 1
  IN  IF gc_policy = "never" THEN meta[b]
      ELSE IF passes = ReleaseAfter THEN None
      ELSE IF passes = DecommitAfter THEN [meta[b] EXCEPT !.passes = passes, !.zero = TRUE]
      ELSE [meta[b] EXCEPT !.passes = passes]

Drops(b) == gc_policy # "never" /\ meta[b].passes + 1 = DecommitAfter /\ ~meta[b].zero

(* A block that was got: a small one joins its list and is allocated from, *)
(* a big one holds the one object.                                         *)
AddBlock(t, b) ==
  LET class == op[t].class IN
  /\ ResetBlock(b, class, IF meta[b] = None THEN TRUE ELSE meta[b].zero)
  /\ IF class = Big
     THEN /\ op' = [op EXCEPT ![t].pc = "done", ![t].at = b, ![t].mem = BigStart(op[t].al)]
          /\ UNCHANGED block_lists
     ELSE /\ op' = [op EXCEPT ![t].pc = "walk", ![t].at = b]
          /\ block_lists' = [block_lists EXCEPT ![op[t].heap][class] = <<b>> \o @]

BigCalloc(t) == op[t].class = Big /\ op[t].zero

ReuseBlock(t) ==
  LET h == op[t].heap
      b == op[t].at
      left == Range(reuse_list[h])
      gone == {x \in left : PassedOver(x) = None}
  IN  /\ op[t].pc = "reuse"
      /\ reuse_lock' = Set(reuse_lock, h, None)
      /\ reuse_list' = [reuse_list EXCEPT ![h] = Without(@, gone)]
      /\ reuse_size' = [reuse_size EXCEPT ![h] = @ - SizeSum(gone)]
      /\ reuse_bytes' = reuse_bytes - meta[b].size - SizeSum(gone)
      /\ meta' = [x \in Blocks |->
           IF x \in left THEN PassedOver(x)
           ELSE IF x = b THEN Fresh(h, op[t].class, meta[b].size, meta[b].zero, BigCalloc(t))
           ELSE meta[x]]
      /\ dirty' = [x \in Blocks |->
           CASE x \in gone -> {}
             [] x \in left \ gone /\ Drops(x) -> Decommitted(dirty[x], PageUnits, meta[x].size)
             [] x = b -> ReusedPages(b, WantedSize(t), BigCalloc(t)) \ {0}
             [] OTHER -> dirty[x]]
      /\ AddBlock(t, b)
      /\ UNCHANGED <<gc_policy, lock, free_count, live>>

(* bk_make_block: an anonymous mapping, which is zero.                     *)
MakeBlock(t) ==
  LET h == op[t].heap IN
  /\ op[t].pc = "get" /\ reuse_lock[h] = None /\ Enough(t) = {}
  /\ \E b \in Blocks \ Mapped :
       /\ meta' = Set(meta, b, Fresh(h, op[t].class, PageUp(WantedSize(t)), TRUE, BigCalloc(t)))
       /\ dirty' = Set(dirty, b, {})
       /\ AddBlock(t, b)
  /\ UNCHANGED <<gc_policy, lock, reuse, free_count, live>>

(* The allocation returns: the list is unlocked, a calloc clears what is   *)
(* not known to be zero, a realloc copies and goes on to free.  The        *)
(* program may fill what it is given.                                      *)
FreeOf(o) == [pc |-> "free", heap |-> meta[o.block].heap, class |-> meta[o.block].class,
              at |-> o.block, mem |-> o.at]
Unlocked(t) ==
  IF op[t].class = Big THEN lock ELSE [lock EXCEPT ![op[t].heap][op[t].class] = None]

Cleared(t) == op[t].zero /\ op[t].class # Big
                /\ ~KnownZero(op[t].class, chunks[op[t].at], op[t].mem)

Return(t) ==
  LET b == op[t].at
      pages == PagesOf(op[t].mem, op[t].n)
      clean == Cleared(t) \/ pages \cap dirty[b] = {}
      new == [block |-> b, at |-> op[t].mem, n |-> op[t].n, by |-> t,
              zero |-> op[t].zero, clean |-> clean]
  IN  /\ op[t].pc = "done"
      /\ lock' = Unlocked(t)
      /\ live' = (live \ op[t].old) \cup {new}
      /\ dirty' = [dirty EXCEPT ![b] = @ \cup pages]
      /\ op' = Set(op, t, IF op[t].old = {} THEN Idle ELSE FreeOf(CHOOSE o \in op[t].old : TRUE))
      /\ UNCHANGED <<gc_policy, meta, slots, chunks, bump, full, block_lists, reuse, free_count>>

----------------------------------------------------------------------------
(* bk_heap_free.                                                           *)
Free(t) ==
  /\ op[t].pc = "idle"
  /\ \E o \in live : ~Held(o) /\ live' = live \ {o} /\ op' = Set(op, t, FreeOf(o))
  /\ UNCHANGED <<gc_policy, inside, block_lists, lock, reuse, free_count>>

Freeing(t, kind(_, _)) == op[t].pc = "free" /\ kind(op[t].class, op[t].mem)
AfterFree(t) ==
  op' = Set(op, t, IF gc_policy = "free_threshold" THEN [op[t] EXCEPT !.pc = "count"] ELSE Idle)

FreeBig(t) ==
  /\ op[t].pc = "free" /\ op[t].class = Big
  /\ RemoveBlock(op[t].heap, op[t].at)
  /\ op' = Set(op, t, Idle)
  /\ UNCHANGED <<gc_policy, chunks, block_lists, lock, free_count, live>>

FreeBump(t) ==
  /\ Freeing(t, IsBump)
  /\ bump' = [bump EXCEPT ![op[t].at].freed = @ + 1]
  /\ AfterFree(t)
  /\ UNCHANGED <<OutsideBlocks, slots, chunks, full, dirty>>

FreeSlot(t) ==
  /\ Freeing(t, IsSlot)
  /\ lock[op[t].heap][op[t].class] = None
  /\ slots' = [slots EXCEPT ![op[t].at] = DropSlot(@, SlotAt(op[t].class, op[t].mem))]
  /\ AfterFree(t)
  /\ UNCHANGED <<OutsideBlocks, chunks, bump, full, dirty>>

(* Without the lock: first the flags of the chunk, then the block's.       *)
FreeChunk(t) ==
  /\ Freeing(t, IsChunk)
  /\ chunks' = [chunks EXCEPT ![op[t].at] = DropChunk(@, op[t].mem)]
  /\ Goto(t, "unfull")
  /\ UNCHANGED <<OutsideBlocks, slots, bump, full, dirty>>

ClearFull(t) ==
  /\ op[t].pc = "unfull"
  /\ full' = Set(full, op[t].at, FALSE)
  /\ AfterFree(t)
  /\ UNCHANGED <<OutsideBlocks, slots, chunks, bump, dirty>>

(* Under the policy free_threshold the thread that passes it sweeps the    *)
(* heap, one list after the other.                                         *)
Count(t) ==
  LET h == op[t].heap IN
  /\ op[t].pc = "count"
  /\ free_count' = [free_count EXCEPT ![h] = @ + 1]
  /\ op' = IF free_count[h] >= FreeThreshold
           THEN [op EXCEPT ![t].pc = "sweeplock", ![t].class = 0]
           ELSE Set(op, t, Idle)
  /\ UNCHANGED <<gc_policy, inside, block_lists, lock, reuse, live>>

SweepLock(t) ==
  LET h == op[t].heap  c == op[t].class IN
  /\ op[t].pc = "sweeplock" /\ lock[h][c] = None
  /\ lock' = [lock EXCEPT ![h][c] = t]
  /\ op' = [op EXCEPT ![t].pc = "sweep", ![t].at = HeadOf(block_lists[h][c])]
  /\ UNCHANGED <<gc_policy, inside, block_lists, reuse, free_count, live>>

SweepNext(t) ==
  LET h == op[t].heap  c == op[t].class IN
  /\ op[t].pc = "sweep" /\ op[t].at = None
  /\ lock' = [lock EXCEPT ![h][c] = None]
  /\ IF c + 1 \in Classes
     THEN /\ op' = [op EXCEPT ![t].pc = "sweeplock", ![t].class = c + 1]
          /\ UNCHANGED free_count
     ELSE op' = Set(op, t, Idle) /\ free_count' = Set(free_count, h, 0)
  /\ UNCHANGED <<gc_policy, inside, block_lists, reuse, live>>
----------------------------------------------------------------------------
(* bk_destroy_heap of a heap nobody uses: its blocks are released, those   *)
(* on its reuse list too, and what all reuse lists hold is not corrected.  *)
(* The heap bk_heap makes for the name next is an empty one.               *)
InUse(h) == \/ \E o \in live : meta[o.block].heap = h
            \/ \E t \in Calls : op[t].heap = h
BlocksOf(h) == {b \in Mapped : meta[b].heap = h}

DestroyHeap(h) ==
  /\ ~InUse(h) /\ BlocksOf(h) # {}
  /\ meta' = [b \in Blocks |-> IF b \in BlocksOf(h) THEN None ELSE meta[b]]
  /\ dirty' = [b \in Blocks |-> IF b \in BlocksOf(h) THEN {} ELSE dirty[b]]
  /\ block_lists' = Set(block_lists, h, [c \in Classes |-> <<>>])
  /\ reuse_list' = Set(reuse_list, h, <<>>)
  /\ reuse_size' = Set(reuse_size, h, 0)
  /\ free_count' = Set(free_count, h, 0)
  /\ Forget(BlocksOf(h))
  /\ chunks' = [b \in Blocks |-> IF b \in BlocksOf(h) THEN FreshChunks(TRUE) ELSE chunks[b]]
  /\ UNCHANGED <<gc_policy, lock, reuse_lock, reuse_bytes, op, live>>

Next ==
  \/ \E t \in Threads :
       \/ Malloc(t) \/ Realloc(t) \/ LockList(t)
       \/ AllocSlot(t) \/ AllocChunk(t) \/ NoChunk(t) \/ MarkFull(t) \/ AllocBump(t)
       \/ NextBlock(t) \/ ListEnds(t) \/ GcBlock(t) \/ GcEnds(t)
       \/ UnlinkReuse(t) \/ ReuseBlock(t) \/ MakeBlock(t) \/ Return(t)
       \/ Free(t) \/ FreeBig(t) \/ FreeBump(t) \/ FreeSlot(t) \/ FreeChunk(t) \/ ClearFull(t)
       \/ Count(t) \/ SweepLock(t) \/ SweepNext(t)
  \/ \E h \in UserHeaps : DestroyHeap(h)

Spec == Init /\ [][Next]_vars
=============================================================================
