----------------------------- MODULE TestedHeap -----------------------------
(***************************************************************************)
(* The allocations whose events the interval tests hear, and the pages the *)
(* tests take each of them to lie on.                                      *)
(***************************************************************************)
EXTENDS SuiteEvents, FiniteSets

CONSTANTS
  Address, SizeOf,
  PAGE_SIZE,
  Pages,         \* the heap's pages, numbered as their addresses order them
  MaxAllocated   \* bytes a program allocates in all

ASSUME PtrsAssumption == IsFiniteSet(Ptrs)
ASSUME SizesAssumption == Address \in [Ptrs -> Nat] /\ SizeOf \in [Ptrs -> Nat]
ASSUME PageSizeAssumption == PAGE_SIZE \in Nat \ {0}

PageOf(address) == address \div PAGE_SIZE

\* The pages a size takes up if it begins with one.
count_virtual_pages(size) == size \div PAGE_SIZE + (IF size % PAGE_SIZE # 0 THEN 1 ELSE 0)

\* The pages get_page_info() looks at: as many as the size takes up, from
\* that of the first byte.  An object that begins inside a page may end on
\* one more, which is left out.
PagesOf ==
  [p \in Ptrs |->
     PageOf(Address[p]) .. PageOf(Address[p]) + count_virtual_pages(SizeOf[p]) - 1]

ASSUME PagesAssumption == IsFiniteSet(Pages) /\ PagesOf \in [Ptrs -> SUBSET Pages]
=============================================================================
