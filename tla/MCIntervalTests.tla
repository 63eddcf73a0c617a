-------------------------- MODULE MCIntervalTests --------------------------
(* Allocation 1 lies on pages 0 and 1.  Allocation 2 begins on page 1 and     *)
(* ends on page 2, which is listed for no allocation and left out of Pages.   *)
EXTENDS IntervalTests

MCAddress == <<0, 3>>
MCSizeOf == <<3, 2>>

MCPtrHash == [p \in Ptrs |-> p - 1]
=============================================================================
