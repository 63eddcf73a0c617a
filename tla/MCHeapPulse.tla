---------------------------- MODULE MCHeapPulse ----------------------------
(* Small programs for TLC. *)
EXTENDS HeapPulseProps, TLC

\* Pointers are 1, 2, 3 ...; each has a slot of its own.
MCInjective == [p \in Ptrs |-> p - 1]

\* All pointers hash to the same slot.
MCColliding == [p \in Ptrs |-> 0]

\* An address whose free was missed is not handed out again: no property
\* says anything of such a pointer any more, and the theorems go on to it.
MissedNotReused == \A t \in Threads : call[t].kind = "malloc" => call[t].ptr \notin missed

Symmetry == Permutations(Threads) \cup Permutations(Sites)
=============================================================================
