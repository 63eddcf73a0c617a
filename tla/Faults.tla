------------------------------- MODULE Faults -------------------------------
(***************************************************************************)
(* The page fault handler of src/src/include/interval_test.hpp, and the    *)
(* intervals that take the program's permissions away and deliver what the *)
(* handler recorded.  Threads of the program read and write objects; an    *)
(* access to a closed page runs protection_handler, which is retried until *)
(* the page is open.  The thread whose hook starts an interval becomes the *)
(* working thread, and may fault as well: on a page its test reads, and on *)
(* memory of its own.  A lambda of more than two words is an operator new  *)
(* when it becomes a std::function, which the program's allocator serves,  *)
(* perhaps from a page that the test has closed for the objects beside it. *)
(*                                                                         *)
(* A configuration, chosen at the start, fixes what the preprocessor, the  *)
(* compiler, the registered test, the allocator and the program decide.    *)
(* Its accesses are to live objects and, in its allocator, to what lies    *)
(* beside them; one that dereferences NULL faults until it is ended.       *)
(*                                                                         *)
(* A definition D_xyz is D with a plausible mistake in it.  Nothing uses   *)
(* it; PROJECT.json names the mistake that breaks each property.           *)
(***************************************************************************)
EXTENDS Integers, FiniteSets

CONSTANTS
  Threads,
  Objects, Start, ObjectSize,  \* the tracked objects, their addresses and sizes
  PageSize,
  MaxFaults,             \* MAX_CONSECUTIVE_PAGE_FAULTS
  MaxTracked,            \* MAX_TRACKED_ACCESSES
  Configs,               \* records [guard, spin, test, heap, accesses]
  NoThread

ASSUME FaultsAssumption ==
  /\ NoThread \notin Threads /\ MaxFaults \in Nat \ {0} /\ MaxTracked \in Nat /\ PageSize \in Nat \ {0}
  /\ Start \in [Objects -> Nat] /\ ObjectSize \in [Objects -> Nat \ {0}]

VARIABLES
  config,       \* guard: GUARD_ACCESSES and SOFT_GUARD_ACCESSES; spin: what the
                \* compiler makes of `while (IS_PROTECTED) {}`; test: see Tests;
                \* heap: the pages of what the working thread allocates;
                \* accesses: what the program does, << address, kind >>
  fpc,          \* where a thread is
  access,       \* the access it is making, << address, kind >>
  same,         \* whether it found last_address to be its own
  last_address, consecutive, protection_lock,
  IS_PROTECTED, WORKING_THREAD_ID,
  runner,       \* the thread in interval(); it holds hook_lock
  stage,        \* and where in it
  todo, open,   \* the objects its test has still to look at, and to close
  looking,      \* the pages of the one it looks at
  perm,         \* the permission of every page
  recorded,     \* written_addresses and read_addresses
  live,         \* the tracked objects
  owed,         \* what the handler recorded and no interval has taken
  seen,         \* the kinds of access recorded of a page since it was closed
  slipped,      \* the pages closed between an access's record and its service,
                \* or opened with no record because the access set was full
  died          \* the handler ended the program

handler_vars == <<fpc, access, same, last_address, consecutive, protection_lock>>
interval_vars == <<IS_PROTECTED, WORKING_THREAD_ID, runner, stage, todo, open, looking>>
page_vars == <<perm, recorded, owed, seen, slipped>>
faults_vars == <<config, handler_vars, interval_vars, page_vars, live, died>>

\* What a test does in its interval(): the permissions it gives an object
\* before it looks at it, whether it reads the object's pages, the
\* permissions it leaves, whether it leaves them before it goes on to the
\* next object, and whether it goes on at once, leaving nothing, from a small
\* object whose page it has looked at.
Tests(name) ==
  CASE name = "page_tracking" ->
         [opens |-> "rw",    reads |-> FALSE, closes |-> "none", each |-> TRUE,  once |-> TRUE]
    [] name = "access_patterns" ->
         [opens |-> "as is", reads |-> FALSE, closes |-> "none", each |-> FALSE, once |-> FALSE]
    [] name = "access_compression" ->
         [opens |-> "r",     reads |-> TRUE,  closes |-> "none", each |-> FALSE, once |-> FALSE]
    [] name = "compression" ->
         [opens |-> "none",  reads |-> TRUE,  closes |-> "rw",   each |-> TRUE,  once |-> FALSE]

ASSUME ConfigsAssumption ==
  Configs \subseteq [guard : {"none", "soft", "hard"}, spin : {"waits", "hangs"},
                    test : {"page_tracking", "access_patterns", "access_compression", "compression"},
                    heap : SUBSET Nat, accesses : SUBSET ((Nat \ {0}) \X {"w", "r"})]

Test == Tests(config.test)

PageOf(a) == a \div PageSize

\* The pages mprotect is called for: from the page of the first byte, as many
\* as the size fills, which leaves out the last page of an unaligned object.
Protected(o) ==
  PageOf(Start[o]) .. PageOf(Start[o]) + (ObjectSize[o] + PageSize - 1) \div PageSize - 1

contains(o, a) == Start[o] <= a /\ a < Start[o] + ObjectSize[o]

ObjectPages == UNION {Protected(o) : o \in Objects}

Pages == ObjectPages \cup UNION {c.heap \cup {PageOf(x[1]) : x \in c.accesses} : c \in Configs}

Permits(p, kind) == p = "rw" \/ (p = "r" /\ kind = "r")

Allowed(t) == Permits(perm[PageOf(access[t][1])], access[t][2])

FaultsInit ==
  /\ config \in Configs
  /\ fpc = [t \in Threads |-> "run"] /\ access = [t \in Threads |-> <<>>]
  /\ same = [t \in Threads |-> FALSE]
  /\ last_address = 0 /\ consecutive = 0 /\ protection_lock = NoThread
  /\ IS_PROTECTED = FALSE /\ WORKING_THREAD_ID = NoThread /\ runner = NoThread /\ stage = "idle"
  /\ todo = {} /\ open = {} /\ looking = {}
  /\ perm = [p \in Pages |-> "rw"] /\ seen = [p \in Pages |-> {"tracker"}]
  /\ recorded = [w |-> {}, r |-> {}] /\ owed = {} /\ slipped = {}
  /\ live = Objects
  /\ died = FALSE

---------------------------------------------------------------------------
\* protection_handler.

GoTo(t, label) == fpc' = [fpc EXCEPT ![t] = label]

\* A thread of the program makes an access its page does not permit: to a
\* live object, or to memory that no object lies on.
Fault(t) ==
  /\ fpc[t] = "run"
  /\ \E x \in config.accesses :
       /\ \A o \in Objects \ live : ~contains(o, x[1])
       /\ ~Permits(perm[PageOf(x[1])], x[2])
       /\ access' = [access EXCEPT ![t] = x]
  /\ GoTo(t, "compare")
  /\ UNCHANGED <<same, last_address, consecutive, protection_lock, interval_vars, page_vars, live, died>>

\* last_address and the count are static, and read and written with no lock.
Compare(t) ==
  /\ fpc[t] = "compare"
  /\ same' = [same EXCEPT ![t] = last_address = access[t][1]]
  /\ GoTo(t, "count")
  /\ UNCHANGED <<access, last_address, consecutive, protection_lock, interval_vars, page_vars, live, died>>

Count(t) ==
  /\ fpc[t] = "count"
  /\ IF same[t]
       THEN consecutive' = consecutive + 1 /\ UNCHANGED last_address
       ELSE consecutive' = 0 /\ last_address' = access[t][1]
  /\ died' = (consecutive' >= MaxFaults)
  /\ same' = [same EXCEPT ![t] = FALSE]
  /\ GoTo(t, "lock")
  /\ UNCHANGED <<access, protection_lock, interval_vars, page_vars, live>>

\* The working thread gets its page back.
GiveBack(t) ==
  /\ fpc[t] = "lock"
  /\ protection_lock = NoThread
  /\ WORKING_THREAD_ID = t
  /\ perm' = [perm EXCEPT ![PageOf(access[t][1])] = "rw"]
  /\ seen' = [seen EXCEPT ![PageOf(access[t][1])] = {"tracker"}]
  /\ GoTo(t, "retry")
  /\ UNCHANGED <<access, same, last_address, consecutive, protection_lock, interval_vars,
                 recorded, owed, slipped, live, died>>

\* Another thread keeps the lock, and spins while the pages are protected
\* for an interval.
Lock(t) ==
  /\ fpc[t] = "lock"
  /\ protection_lock = NoThread
  /\ WORKING_THREAD_ID # t
  /\ protection_lock' = t
  /\ GoTo(t, IF IS_PROTECTED THEN "spin" ELSE "mark")
  /\ UNCHANGED <<access, same, last_address, consecutive, interval_vars, page_vars, live, died>>

StopSpinning(t) ==
  /\ fpc[t] = "spin"
  /\ config.spin = "waits"
  /\ ~IS_PROTECTED
  /\ GoTo(t, "mark")
  /\ UNCHANGED <<access, same, last_address, consecutive, protection_lock, interval_vars, page_vars, live, died>>

\* Whether the set of a kind of access takes one more address.
Tracks(kind, a) == a \in recorded[kind] \/ Cardinality(recorded[kind]) < MaxTracked

Mark(t) ==
  /\ fpc[t] = "mark"
  /\ LET a == access[t][1]  kind == access[t][2] IN
       IF Tracks(kind, a)
         THEN /\ recorded' = [recorded EXCEPT ![kind] = @ \cup {a}]
              /\ owed' = owed \cup {access[t]}
              /\ seen' = [seen EXCEPT ![PageOf(a)] = @ \cup {kind}]
              /\ UNCHANGED slipped
         ELSE /\ slipped' = slipped \cup {PageOf(a)}
              /\ UNCHANGED <<recorded, owed, seen>>
  /\ GoTo(t, "open")
  /\ UNCHANGED <<access, same, last_address, consecutive, protection_lock, interval_vars, perm, live, died>>

Granted_AlwaysBoth(p, kind) == IF config.guard = "none" THEN p ELSE "rw"

\* What an access of a kind gets: nothing unless accesses are guarded, and
\* with the soft guard always both.
Granted(p, kind) ==
  CASE config.guard = "none" -> p
    [] config.guard = "hard" -> IF kind = "w" THEN "rw" ELSE "r"
    [] config.guard = "soft" -> "rw"

Open(t) ==
  /\ fpc[t] = "open"
  /\ perm' = [perm EXCEPT ![PageOf(access[t][1])] = Granted(@, access[t][2])]
  /\ protection_lock' = NoThread
  /\ GoTo(t, "retry")
  /\ UNCHANGED <<access, same, last_address, consecutive, interval_vars, recorded, owed, seen, slipped, live, died>>

\* The handler has returned and the instruction runs again.
Succeed(t) ==
  /\ fpc[t] = "retry"
  /\ Allowed(t)
  /\ GoTo(t, IF t = runner THEN "interval" ELSE "run")
  /\ access' = [access EXCEPT ![t] = <<>>]
  /\ UNCHANGED <<same, last_address, consecutive, protection_lock, interval_vars, page_vars, live, died>>

FaultAgain(t) ==
  /\ fpc[t] = "retry"
  /\ ~Allowed(t)
  /\ GoTo(t, "compare")
  /\ UNCHANGED <<access, same, last_address, consecutive, protection_lock, interval_vars, page_vars, live, died>>

---------------------------------------------------------------------------
\* interval(), in the hook of a thread.

Idle == runner = NoThread /\ ~IS_PROTECTED

InInterval(s) == runner # NoThread /\ stage = s /\ fpc[runner] = "interval"

\* become_working_thread(), in the hook that finds the period elapsed.
Begin(t) ==
  /\ Idle
  /\ fpc[t] = "run"
  /\ runner' = t /\ WORKING_THREAD_ID' = t /\ IS_PROTECTED' = TRUE
  /\ stage' = "writes"
  /\ GoTo(t, "interval")
  /\ UNCHANGED <<access, same, last_address, consecutive, protection_lock,
                 todo, open, looking, page_vars, live, died>>

\* The objects on_access is called for: an address that is not the first of
\* a tracked object is dropped.
Delivered(kind) == {o \in live : Start[o] \in recorded[kind]}

\* A copy of the set is walked.
Deliver(s, kind, next) ==
  /\ InInterval(s)
  /\ owed' = owed \ (recorded[kind] \X {kind})
  /\ stage' = next
  /\ UNCHANGED <<handler_vars, IS_PROTECTED, WORKING_THREAD_ID, runner, todo, open, looking,
                 perm, recorded, seen, slipped, live, died>>

DeliverWrites == Deliver("writes", "w", "reads")
DeliverReads == Deliver("reads", "r", "clear")

Clear_ReadsStay ==
  /\ InInterval("clear")
  /\ recorded' = [recorded EXCEPT !.w = {}]
  /\ todo' = live
  /\ stage' = "test"
  /\ UNCHANGED <<handler_vars, IS_PROTECTED, WORKING_THREAD_ID, runner, open, looking,
                 perm, owed, seen, slipped, live, died>>

\* clear_accesses(): what the handler recorded since the copies is lost.
Clear ==
  /\ InInterval("clear")
  /\ recorded' = [w |-> {}, r |-> {}]
  /\ todo' = live
  /\ stage' = "test"
  /\ UNCHANGED <<handler_vars, IS_PROTECTED, WORKING_THREAD_ID, runner, open, looking,
                 perm, owed, seen, slipped, live, died>>

\* mprotect on the pages of an object, by the test.
SetPermissions(o, p) ==
  IF p = "as is"
    THEN UNCHANGED <<perm, seen, slipped>>
    ELSE /\ perm' = [q \in Pages |-> IF q \in Protected(o) THEN p ELSE perm[q]]
         /\ seen' = [q \in Pages |-> IF q \notin Protected(o) THEN seen[q]
                                     ELSE IF p = "none" THEN {} ELSE {"tracker"}]
         /\ slipped' = (slipped \ Protected(o)) \cup
              {q \in Protected(o) : p = "none" /\ \E t \in Threads : fpc[t] = "open" /\ PageOf(access[t][1]) = q}

PassedOver(o) ==
  /\ Test.once /\ ObjectSize[o] <= PageSize
  /\ \E other \in live \ todo : PageOf(Start[o]) \in Protected(other)

LookAt_DefaultProtection(o) ==
  /\ InInterval("test")
  /\ o \in todo /\ looking = {}
  /\ Test.each => open = {}
  /\ SetPermissions(o, "none")
  /\ todo' = todo \ {o} /\ open' = IF PassedOver(o) THEN open ELSE open \cup {o}
  /\ looking' = IF Test.reads THEN Protected(o) ELSE {}
  /\ UNCHANGED <<handler_vars, IS_PROTECTED, WORKING_THREAD_ID, runner, stage, recorded, owed, live, died>>

LookAt(o) ==
  /\ InInterval("test")
  /\ o \in todo /\ looking = {}
  /\ Test.each => open = {}
  /\ SetPermissions(o, Test.opens)
  /\ todo' = todo \ {o} /\ open' = IF PassedOver(o) THEN open ELSE open \cup {o}
  /\ looking' = IF Test.reads THEN Protected(o) ELSE {}
  /\ UNCHANGED <<handler_vars, IS_PROTECTED, WORKING_THREAD_ID, runner, stage, recorded, owed, live, died>>

\* The test reads a page, or faults on it.
ReadPage(p) ==
  /\ InInterval("test")
  /\ p \in looking
  /\ Permits(perm[p], "r")
  /\ looking' = looking \ {p}
  /\ UNCHANGED <<handler_vars, IS_PROTECTED, WORKING_THREAD_ID, runner, stage, todo, open, page_vars, live, died>>

FaultOnPage(p) ==
  /\ InInterval("test")
  /\ p \in looking
  /\ ~Permits(perm[p], "r")
  /\ access' = [access EXCEPT ![runner] = <<p * PageSize, "r">>]
  /\ GoTo(runner, "compare")
  /\ UNCHANGED <<same, last_address, consecutive, protection_lock, interval_vars, page_vars, live, died>>

\* The working thread writes to memory it allocates for its test, and faults.
FaultOnHeap(p) ==
  /\ InInterval("test")
  /\ p \in config.heap
  /\ ~Permits(perm[p], "w")
  /\ access' = [access EXCEPT ![runner] = <<p * PageSize, "w">>]
  /\ GoTo(runner, "compare")
  /\ UNCHANGED <<same, last_address, consecutive, protection_lock, interval_vars, page_vars, live, died>>

Close(o) ==
  /\ InInterval("test")
  /\ o \in open /\ looking = {}
  /\ Test.each \/ todo = {}
  /\ SetPermissions(o, Test.closes)
  /\ open' = open \ {o}
  /\ UNCHANGED <<handler_vars, IS_PROTECTED, WORKING_THREAD_ID, runner, stage, todo, looking, recorded, owed, live, died>>

End_StaysProtected ==
  /\ InInterval("test")
  /\ todo = {} /\ open = {} /\ looking = {}
  /\ WORKING_THREAD_ID' = NoThread
  /\ runner' = NoThread /\ stage' = "idle"
  /\ GoTo(runner, "run")
  /\ UNCHANGED <<access, same, last_address, consecutive, protection_lock,
                 IS_PROTECTED, todo, open, looking, page_vars, live, died>>

\* no_longer_working_thread().  perform_clear_soft_dirty_bits() before it
\* saves and restores the flag, and so changes nothing here.
End ==
  /\ InInterval("test")
  /\ todo = {} /\ open = {} /\ looking = {}
  /\ WORKING_THREAD_ID' = NoThread /\ IS_PROTECTED' = FALSE
  /\ runner' = NoThread /\ stage' = "idle"
  /\ GoTo(runner, "run")
  /\ UNCHANGED <<access, same, last_address, consecutive, protection_lock,
                 todo, open, looking, page_vars, live, died>>

\* The hooks of malloc and free, which do nothing during an interval.
Unused(o) == \A t \in Threads : access[t] # <<>> => ~contains(o, access[t][1])

Track(o) ==
  /\ Idle /\ o \notin live
  /\ live' = live \cup {o}
  /\ UNCHANGED <<handler_vars, interval_vars, page_vars, died>>

Untrack(o) ==
  /\ Idle /\ o \in live /\ Unused(o)
  /\ live' = live \ {o}
  /\ UNCHANGED <<handler_vars, interval_vars, page_vars, died>>

---------------------------------------------------------------------------

Handle(t) == Compare(t) \/ Count(t) \/ GiveBack(t) \/ Lock(t)
             \/ StopSpinning(t) \/ Mark(t) \/ Open(t) \/ Succeed(t) \/ FaultAgain(t)

IntervalStep ==
  \/ DeliverWrites \/ DeliverReads \/ Clear
  \/ \E o \in Objects : LookAt(o) \/ Close(o)
  \/ \E p \in Pages : ReadPage(p) \/ FaultOnPage(p) \/ FaultOnHeap(p)
  \/ End

FaultsNext ==
  /\ ~died
  /\ \/ \E t \in Threads : Handle(t) \/ Fault(t) \/ Begin(t)
     \/ IntervalStep
     \/ \E o \in Objects : Track(o) \/ Untrack(o)
  /\ UNCHANGED config

\* Every thread takes its next step.  A mutex that is free again and again is
\* taken; and intervals are a period of seconds apart, so a thread that spins
\* sees the flag between two of them, and an instruction that runs again is
\* not for ever too late for its page.
FaultsFairness ==
  /\ \A t \in Threads : WF_faults_vars(~died /\ Handle(t) /\ UNCHANGED config)
  /\ \A t \in Threads : /\ SF_faults_vars(~died /\ Lock(t) /\ UNCHANGED config)
                        /\ SF_faults_vars(~died /\ StopSpinning(t) /\ UNCHANGED config)
                        /\ SF_faults_vars(~died /\ Succeed(t) /\ UNCHANGED config)
  /\ WF_faults_vars(~died /\ IntervalStep /\ UNCHANGED config)

FaultsSpec == FaultsInit /\ [][FaultsNext]_faults_vars /\ FaultsFairness
=============================================================================
