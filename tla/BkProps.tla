------------------------------ MODULE BkProps ------------------------------
(***************************************************************************)
(* What must hold of bkmalloc's heaps (BkMalloc).                          *)
(***************************************************************************)
EXTENDS BkMalloc

----------------------------------------------------------------------------
(* The memory that is somebody's: the program's, a call's that has taken   *)
(* it but not returned, a call's that is about to give it back.            *)
OfCall(t) == [block |-> op[t].at, at |-> op[t].mem]
Holdings ==
  {[block |-> o.block, at |-> o.at] : o \in live}
    \cup {OfCall(t) : t \in {u \in Calls : op[u].pc \in {"done", "free"}}}

InBlock(b, kind(_, _)) == {o \in Holdings : o.block = b /\ kind(meta[b].class, o.at)}

(* Whatever the interleaving of allocations, frees from other threads and  *)
(* garbage collection, what a block counts is what is held of it: the slot *)
(* bits and their number, the flags of the chunks, the balance of the bump *)
(* allocations.  bk_gc_block retires a block on these alone.               *)
CountsExact ==
  \A b \in Mapped : meta[b].class # Big =>
    LET class == meta[b].class IN
    /\ slots[b].taken = {SlotAt(class, o.at) : o \in InBlock(b, IsSlot)}
    /\ slots[b].n = Cardinality(slots[b].taken)
    /\ \A r \in 0 .. (MaxSlots \div RegionSlots) - 1 :
         r \in slots[b].full <=> Cardinality(InRegion(slots[b].taken, r)) = RegionSlots
    /\ {u \in DOMAIN chunks[b] : ~chunks[b][u].free} = {o.at : o \in InBlock(b, IsChunk)}
    /\ bump[b].n - bump[b].freed = Cardinality(InBlock(b, IsBump))

(* A block is in one place: memory that is held lies in a block of the     *)
(* list of its heap and class (a big block is on none), and a block kept   *)
(* for reuse is on no other list and nothing of it is held.                *)
Places(b) == {hc \in Heaps \X Classes : b \in Range(block_lists[hc[1]][hc[2]])}
Kept4Reuse == UNION {Range(reuse_list[h]) : h \in Heaps}

BlocksPlaced ==
  /\ \A h \in Heaps : IsInjective(reuse_list[h]) /\ \A c \in Classes : IsInjective(block_lists[h][c])
  /\ \A b \in Blocks : Places(b) # {} =>
       b \in Mapped \ Kept4Reuse /\ Places(b) = {<<meta[b].heap, meta[b].class>>}
  /\ \A h \in Heaps : \A b \in Range(reuse_list[h]) : b \in Mapped /\ meta[b].heap = h
  /\ \A o \in Holdings :
       o.block \in Mapped \ Kept4Reuse /\ (meta[o.block].class # Big => Places(o.block) # {})

(* What the reuse lists hold: a heap's own sum is exact; the sum of all is *)
(* never below what the lists hold (subtracting never wraps) and never     *)
(* above max-reuse-list-size-MB.  It may stay above what they hold:        *)
(* a destroyed heap's share is never taken off.                            *)
Unlinked == {op[t].at : t \in {u \in Calls : op[u].pc = "reuse"}}

ReuseCounted ==
  /\ \A h \in Heaps : reuse_size[h] = SizeSum(Range(reuse_list[h]))
  /\ SizeSum(Kept4Reuse \cup Unlinked) <= reuse_bytes /\ reuse_bytes <= MaxReuse

(* The memory of a calloc reads as zero, where it is a slot or has a block *)
(* of its own; bump memory and chunks of a reused block need not be.       *)
CallocClean ==
  \A o \in live : o.zero /\ ~IsBump(meta[o.block].class, o.at)
                         /\ ~IsChunk(meta[o.block].class, o.at) => o.clean

(* The heaps give the program memory no other object has, wherever and     *)
(* however it was found: bk_heap_alloc, bk_heap_free, bk_realloc.          *)
Promise == INSTANCE Allocator WITH
  objects <- {[block |-> o.block, at |-> o.at, n |-> o.n, by |-> o.by] : o \in live}

ImplementsAllocator == Promise!Spec

(* The memory bk_malloc_size tells the program it may use, and in which    *)
(* bk_realloc leaves an object that grows, is no other object's.           *)
UsableApart ==
  \A o, p \in live : o # p /\ o.block = p.block =>
    Span(o.at, Usable(o)) \cap Span(p.at, p.n) = {}
=============================================================================
