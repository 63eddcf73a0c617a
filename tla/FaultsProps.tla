---------------------------- MODULE FaultsProps ----------------------------
(* What the page fault handler and the intervals owe the program and the   *)
(* tests.                                                                  *)
EXTENDS Faults

\* Between intervals no page is open to the program without an access that
\* the handler recorded since the page was closed, of its kind where reads
\* and writes are told apart -- but for the pages closed just after the
\* handler recorded an access and before it served it, and those whose
\* access it could not record because the set was full.
OpenedAreRecorded ==
  \A p \in Pages \ slipped :
    /\ perm[p] # "none" => seen[p] # {}
    /\ perm[p] = "rw" /\ config.guard = "hard" => seen[p] \cap {"w", "tracker"} # {}

\* A recorded fault is given to the tests once: what an interval hands to
\* on_access has been recorded since an interval last took it.
DeliveredOnce ==
  [][/\ DeliverWrites => \A o \in Delivered("w") : <<Start[o], "w">> \in owed
     /\ DeliverReads => \A o \in Delivered("r") : <<Start[o], "r">> \in owed]_faults_vars

\* The tests that read what nobody may read.
ReadsClosed == Test.opens = "none" /\ Test.reads

\* The working thread waits for protection_lock while its holder waits for
\* the working thread only under a test that reads closed pages, or because
\* memory the working thread allocated lies on a page of a tracked object.
DeadlockNeedsClosedPages ==
  \A t \in Threads :
    /\ fpc[t] = "spin" /\ protection_lock = t
    /\ runner # NoThread /\ fpc[runner] = "lock"
    => ReadsClosed \/ PageOf(access[runner][1]) \in config.heap \cap ObjectPages

\* Where accesses are guarded, no test reads closed pages, the working thread
\* allocates nothing beside an object and the spin loop reads its flag, every
\* access that faults succeeds in the end, or the handler ends the program.
Servable == /\ config.guard # "none" /\ config.spin = "waits"
            /\ ~ReadsClosed /\ config.heap \cap ObjectPages = {}

Served == \A t \in Threads : (fpc[t] = "compare" /\ Servable) ~> (fpc[t] \in {"run", "interval"} \/ died)

\* What src/src/include/interval_test.hpp:1390 says of a thread put to sleep
\* in an interval: it is woken up afterwards.
Woken == \A t \in Threads : (fpc[t] = "spin") ~> (fpc[t] # "spin" \/ died)
=============================================================================
