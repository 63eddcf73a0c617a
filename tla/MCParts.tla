------------------------------ MODULE MCParts ------------------------------
(***************************************************************************)
(* The parts that keep to themselves, side by side: a run takes the steps  *)
(* of one of them, the others stay as they begin.                          *)
(***************************************************************************)
EXTENDS MCStackMap, OtherTestsProps, StackVec, StackTextProps, ReportFile, BkHeaps, TLC

VARIABLE part

others(but) ==
  /\ but # "map" => UNCHANGED vars
  /\ but # "tests" => UNCHANGED other_vars
  /\ but # "vec" => UNCHANGED vec_vars
  /\ but # "text" => UNCHANGED text_vars
  /\ but # "report" => UNCHANGED report_vars
  /\ but # "heaps" => UNCHANGED heap_vars
  /\ UNCHANGED part

PartsInit ==
  /\ part \in {"map", "tests", "vec", "text", "report", "heaps"}
  /\ Init /\ OtherInit /\ VecInit /\ TextInit /\ ReportInit /\ HeapsInit
  /\ part # "report" => mode = "APPEND"

PartsNext ==
  \/ part = "map" /\ Next /\ others("map")
  \/ part = "tests" /\ OtherNext /\ others("tests")
  \/ part = "vec" /\ VecNext /\ others("vec")
  \/ part = "text" /\ TextNext /\ others("text")
  \/ part = "report" /\ ReportNext /\ others("report")
  \/ part = "heaps" /\ HeapsNext /\ others("heaps")

PartsSpec == PartsInit /\ [][PartsNext]_<<vars, other_vars, vec_vars, text_vars, report_vars, heap_vars, part>>

---------------------------------------------------------------------------

\* Object 2 lies on pages 0 and 1.  Object 1 begins on page 1 and ends on
\* page 2.
MCAddress == <<7, 1>>
MCObjectSize == <<2, 5>>

Mapping(f, g, s, t) ==
  [frame |-> 0 :> f @@ 1 :> g @@ 2 :> "h", state |-> 0 :> s @@ 1 :> t @@ 2 :> "dirty"]

MCMappings ==
  {Mapping("f", "g", "clean", "dirty"), Mapping("g", "f", "dirty", "clean"), Mapping("f", "g", "dirty", "zero")}

MCTitles == <<"A", "B", "C">>

MCCpuOf == "t1" :> 0 @@ "t2" :> 0 @@ "t3" :> 1
MCTableHash == "a" :> 0 @@ "b" :> 5 @@ "c" :> 16
MCPrimes == <<5, 11>>
=============================================================================
