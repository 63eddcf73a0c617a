---------------------------- MODULE TestCounters ----------------------------
(***************************************************************************)
(* The running totals that AllTest (src/src/intervals/all.cpp) and         *)
(* AccessPatternTest (src/src/intervals/access_patterns_test.cpp) keep in  *)
(* their on_alloc, on_free and finish_interval, as operators on a record   *)
(* with one field per member of the class.                                 *)
(*                                                                         *)
(* A definition D_xyz is D with a plausible mistake in it.  Nothing uses   *)
(* it; PROJECT.json names the mistake that breaks each property.           *)
(***************************************************************************)
EXTENDS Integers

Zeroes == [total_objects_live |-> 0, total_bytes_live |-> 0,
           memory_allocated_since_last_interval |-> 0,
           memory_freed_since_last_interval |-> 0,
           total_memory_allocated |-> 0, total_memory_freed |-> 0]

on_alloc(c, size) ==
  [c EXCEPT !.total_objects_live = @ + 1,
            !.total_bytes_live = @ + size,
            !.memory_allocated_since_last_interval = @ + size,
            !.total_memory_allocated = @ + size]

on_free_Twice(c, size) ==
  [c EXCEPT !.total_objects_live = @ - 2,
            !.total_bytes_live = @ - 2 * size,
            !.memory_freed_since_last_interval = @ + size,
            !.total_memory_freed = @ + size]

on_free(c, size) ==
  [c EXCEPT !.total_objects_live = @ - 1,
            !.total_bytes_live = @ - size,
            !.memory_freed_since_last_interval = @ + size,
            !.total_memory_freed = @ + size]

finish_interval_KeepsFreed(c) ==
  [c EXCEPT !.memory_allocated_since_last_interval = 0]

finish_interval(c) ==
  [c EXCEPT !.memory_allocated_since_last_interval = 0,
            !.memory_freed_since_last_interval = 0]
=============================================================================
