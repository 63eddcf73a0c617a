---------------------------- MODULE MCHugePages ----------------------------
(* Three blocks whose hashes differ, as those of any 1875 blocks in one    *)
(* stretch of the address space do (block addresses are multiples of 2 MB, *)
(* taken modulo 30000).                                                    *)
EXTENDS HugePages

MCHome == [b \in Blocks |-> b - 1]
=============================================================================
