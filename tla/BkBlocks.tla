------------------------------ MODULE BkBlocks ------------------------------
(***************************************************************************)
(* The inside of a bkmalloc block (src/include/bkmalloc.h).  A block is an *)
(* aligned run of memory: its metadata, the chunk space, the slots and, in *)
(* what the slots leave, the bump space.                                   *)
(*                                                                         *)
(* Memory is counted in units of BK_MIN_ALIGN (32 bytes); an address is an *)
(* offset into its block.  Unit 0 is the metadata and ends with the header *)
(* of the first chunk.  A header takes 8 bytes, so it lies in the unit     *)
(* before the memory it describes and that unit is not the user's.         *)
(*                                                                         *)
(* A definition D_xyz is D with a plausible mistake in it.  Nothing uses   *)
(* it; PROJECT.json names the mistake that breaks each property.           *)
(***************************************************************************)
EXTENDS Integers, FiniteSets, Sequences, FiniteSetsExt

CONSTANTS
  NrClasses,    \* BK_NR_SIZE_CLASSES (15)
  MaxSlots,     \* most slots of a block (4096), a multiple of RegionSlots
  RegionSlots,  \* slots of a region (64)
  ChunkEnd,     \* the unit in which the chunk space ends
  SlotBase,     \* the first unit of the slots (1 MB)
  BlockUnits,   \* BK_BLOCK_SIZE (2 MB)
  PageUnits     \* PAGE_SIZE (128 units)

ASSUME GeometryAssumption ==
  /\ {NrClasses, MaxSlots, RegionSlots, ChunkEnd, SlotBase, BlockUnits, PageUnits}
       \subseteq Nat \ {0}
  /\ 1 < ChunkEnd /\ ChunkEnd <= SlotBase /\ SlotBase < BlockUnits
  /\ BlockUnits % PageUnits = 0
  /\ SlotBase % 2^(NrClasses - 1) = 0
  /\ MaxSlots % RegionSlots = 0

Big == NrClasses                \* BK_BIG_ALLOC_SIZE_CLASS_IDX
Classes == 0 .. NrClasses - 1

(* ALIGN_UP: the next multiple, and never the number itself.               *)
AlignUp(x, al) == (x \div al + 1) * al
PageUp(x) == IF x % PageUnits = 0 THEN x ELSE AlignUp(x, PageUnits)

SizeOf(class) == 2^class

(* Arithmetic, named for the proofs.                                       *)
ASSUME SizesAssumption == \A class \in 0 .. NrClasses : SizeOf(class) \in Nat \ {0}

MaxBlockAlloc == SizeOf(NrClasses - 1)

(* bk_get_size_class_idx.                                                  *)
ClassOf(n) == Min({c \in Classes : n <= SizeOf(c)})

(* BK_REQUEST_NEEDS_BIG_ALLOC; the second clause, for calloc, is a         *)
(* threshold of 16 KB.                                                     *)
NeedsBig(n, zero, threshold) == n > MaxBlockAlloc \/ (zero /\ n >= threshold)

(* bk_big_alloc: the size asked of bk_get_block, and the user's memory.    *)
BigRequest(n, al) ==
  LET asked == PageUnits + (AlignUp(n, PageUnits) + PageUnits) + al
  IN  IF asked > BlockUnits THEN asked ELSE BlockUnits
BigStart(al) == AlignUp(0, al)
----------------------------------------------------------------------------
(* Slots: the taken ones, the regions marked full, the counter.            *)
SlotsOf(class) == Min({(BlockUnits - SlotBase) \div SizeOf(class), MaxSlots})
BumpBase(class) == SlotBase + SizeOf(class) * SlotsOf(class)

NoSlots == [taken |-> {}, full |-> {}, n |-> 0]

(* CLZ(~bits): the first clear bit.  CLZ ors in a one, so of a word that   *)
(* has none it is the last bit.                                            *)
FirstClear(set, bits) ==
  IF 0 .. bits - 1 \subseteq set THEN bits - 1 ELSE Min((0 .. bits - 1) \ set)

RegionOf(slot) == slot \div RegionSlots
InRegion(taken, r) == {s % RegionSlots : s \in {t \in taken : RegionOf(t) = r}}

(* bk_alloc_slot and bk_free_slot.                                         *)
NextSlot(s) ==
  LET r == FirstClear(s.full, MaxSlots \div RegionSlots)
  IN  r * RegionSlots + FirstClear(InRegion(s.taken, r), RegionSlots)

TakeSlot(s) ==
  LET slot  == NextSlot(s)
      taken == s.taken \cup {slot}
      r     == RegionOf(slot)
  IN  [taken |-> taken, n |-> s.n + 1,
       full  |-> IF InRegion(taken, r) = 0 .. RegionSlots - 1
                 THEN s.full \cup {r} ELSE s.full]

DropSlot_KeepsFull(s, slot) ==
  [taken |-> s.taken \ {slot}, n |-> s.n - 1, full |-> s.full]

DropSlot(s, slot) ==
  [taken |-> s.taken \ {slot}, n |-> s.n - 1, full |-> s.full \ {RegionOf(slot)}]
----------------------------------------------------------------------------
(* Chunks: from the first unit of a chunk's memory to its flags.           *)
FirstChunk == 1
FreshChunks(zero) == [u \in {FirstChunk} |-> [free |-> TRUE, been |-> ~zero]]

NextChunk(c, u) == Min({v \in DOMAIN c : v > u} \cup {ChunkEnd})
Room(c, u) == NextChunk(c, u) - u - 1

(* bk_alloc_chunk: memory that is not aligned is given from a second chunk *)
(* split off behind one size class.                                        *)
ChunkStart(u, al, class) == IF u % al = 0 THEN u ELSE AlignUp(u + SizeOf(class), al)

Fitting_Used(c, n, al, class) ==
  {u \in DOMAIN c : ChunkStart(u, al, class) + n < NextChunk(c, u)}

Fitting(c, n, al, class) ==
  {u \in DOMAIN c : c[u].free /\ ChunkStart(u, al, class) + n < NextChunk(c, u)}

TakeChunk(c, u, start) ==
  [v \in DOMAIN c \cup {start} |->
     IF v = start THEN [free |-> FALSE, been |-> c[u].been] ELSE c[v]]

(* bk_free_chunk.                                                          *)
DropChunk(c, u) == [c EXCEPT ![u] = [free |-> TRUE, been |-> TRUE]]

(* The walk of bk_gc_block: a free chunk swallows its free neighbour and   *)
(* the walk goes on behind it, from the header it has just swallowed: of   *)
(* a run of free chunks every other one is swallowed.                      *)
FreeRun(c, u) ==
  {p \in DOMAIN c : p < u /\ \A q \in DOMAIN c : p <= q /\ q < u => c[q].free}
Swallowed(c) == {u \in DOMAIN c : c[u].free /\ Cardinality(FreeRun(c, u)) % 2 = 1}

Coalesced(c) == [u \in DOMAIN c \ Swallowed(c) |-> c[u]]

AllFree(c) == \A u \in DOMAIN c : c[u].free
----------------------------------------------------------------------------
(* Bump space: where it has got to, allocations made and given back.       *)
FreshBump(class) == [at |-> BumpBase(class), n |-> 0, freed |-> 0]

BumpStart(b, al) == AlignUp(b.at, al)

BumpFits(b, n, al) == BumpStart(b, al) + n <= BlockUnits
TakeBump(b, n, al) == [b EXCEPT !.at = BumpStart(b, al) + n, !.n = @ + 1]
----------------------------------------------------------------------------
(* Where a pointer lies decides how it is freed and how large it is.       *)
IsBump(class, u) == class # Big /\ u >= BumpBase(class)
IsSlot(class, u) == class # Big /\ SlotBase <= u /\ u < BumpBase(class)
IsChunk(class, u) == class # Big /\ u < SlotBase
SlotAt(class, u) == (u - SlotBase) \div SizeOf(class)
SlotStart(class, slot) == SlotBase + slot * SizeOf(class)

(* _bk_malloc_size; size is the block's.                                   *)
UsableSize(class, size, c, u) ==
  CASE class = Big  -> size - u
    [] u >= SlotBase -> SizeOf(class)
    [] OTHER         -> Room(c, u)

(* bk_mem_is_zero.                                                         *)
KnownZero(class, c, u) == IsBump(class, u) \/ (IsChunk(class, u) /\ ~c[u].been)

Span(u, n) == u .. u + n - 1
PagesOf(u, n) == (u \div PageUnits) .. ((u + n - 1) \div PageUnits)
=============================================================================
