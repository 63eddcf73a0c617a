---------------------------- MODULE Generational ----------------------------
(***************************************************************************)
(* GenerationalTest (src/src/intervals/generational.cpp): its running      *)
(* totals and the row of an interval, which sums the sizes of the          *)
(* allocations by the number of intervals they have lived.  The row is a   *)
(* function of the generations: the seven blocks of code that add to the   *)
(* columns of one generation each are one definition.  The totals go into  *)
(* the row as they are and are left out of it.                             *)
(*                                                                         *)
(* A definition D_xyz is D with a plausible mistake in it.  Nothing uses   *)
(* it; PROJECT.json names the mistake that breaks each property.           *)
(***************************************************************************)
EXTENDS Integers, FiniteSets, FiniteSetsExt

CONSTANTS
  Generations,  \* 2, 4, 8, 10, 16, 24, 32
  SizeOf, PagesOf, PAGE_SIZE

Totals ==
  [total_allocations |-> 0, total_frees |-> 0,
   memory_allocated_since_last_interval |-> 0, memory_freed_since_last_interval |-> 0,
   total_memory_allocated |-> 0, total_memory_freed |-> 0]

on_alloc(totals, p) ==
  [totals EXCEPT !.total_allocations = @ + 1,
                 !.memory_allocated_since_last_interval = @ + SizeOf[p],
                 !.total_memory_allocated = @ + SizeOf[p]]

on_free(totals, p) ==
  [totals EXCEPT !.total_frees = @ + 1,
                 !.memory_freed_since_last_interval = @ + SizeOf[p],
                 !.total_memory_freed = @ + SizeOf[p]]

finish_interval(totals) ==
  [totals EXCEPT !.memory_allocated_since_last_interval = 0,
                 !.memory_freed_since_last_interval = 0]

\* What each of its pages adds to the physical size of an object.
Share(p) == IF PAGE_SIZE < SizeOf[p] THEN PAGE_SIZE ELSE SizeOf[p]

Old_More(age, p, g) == age[p] > g

Old(age, p, g) == age[p] >= g

VirtualSize(objects) == MapThenSumSet(LAMBDA p : SizeOf[p], objects)

\* The pages in one of the states.
InState(state, states) == {v \in DOMAIN state : state[v] \in states}

\* The shares of some objects in the pages listed for them; a page of two
\* objects adds to both.
PhysicalSize(objects, pages) ==
  MapThenSumSet(LAMBDA p : Share(p) * Cardinality(PagesOf[p] \cap pages), objects)

\* The columns of one generation.  Of the resident pages only the zero page
\* is left out.
Column(objects, state) ==
  [physical |-> PhysicalSize(objects, InState(state, {"clean", "dirty"})),
   written  |-> PhysicalSize(objects, InState(state, {"dirty"})),
   readonly |-> PhysicalSize(objects, InState(state, {"clean"})),
   virtual  |-> VirtualSize(objects)]

\* Generation 0 is every object; its virtual size comes from the totals.
GenerationalRow(totals, age, recorded, state) ==
  [g \in {0} \cup Generations |->
     IF g = 0 THEN [Column(recorded, state) EXCEPT !.virtual = totals.total_memory_allocated - totals.total_memory_freed]
     ELSE Column({p \in recorded : Old(age, p, g)}, state)]
=============================================================================
