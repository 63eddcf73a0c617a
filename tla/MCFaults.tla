---------------------------- MODULE MCFaults ----------------------------
(* Two objects on one page, and the allocator's own memory beside them. *)
EXTENDS FaultsProps

MCStart == [x |-> 3, y |-> 4]
MCSize == [x |-> 1, y |-> 1]
\* Every guard, tests that open, read and close in different ways, a working
\* thread that allocates beside the objects and elsewhere, an allocator that
\* writes beside them, and a program that writes more addresses than are
\* tracked.
MCConfigs ==
  {[guard |-> "hard", spin |-> "waits", test |-> "access_compression",
    heap |-> {}, accesses |-> {<<3, "w">>, <<4, "r">>}],
   [guard |-> "none", spin |-> "waits", test |-> "page_tracking",
    heap |-> {1}, accesses |-> {<<5, "w">>}],
   [guard |-> "soft", spin |-> "waits", test |-> "page_tracking",
    heap |-> {}, accesses |-> {<<3, "w">>, <<4, "w">>}],
   [guard |-> "soft", spin |-> "waits", test |-> "compression",
    heap |-> {}, accesses |-> {<<4, "r">>}]}

\* The spin loop as an optimizing build has it.
MCHangs ==
  {[guard |-> "hard", spin |-> "hangs", test |-> "access_compression",
    heap |-> {}, accesses |-> {<<3, "w">>, <<4, "r">>}]}
=============================================================================
