------------------------------ MODULE BkHeaps ------------------------------
(***************************************************************************)
(* Which heap a thread gets (src/include/bkmalloc.h:2557, 3604, 3665 and   *)
(* 3743): the global one until bk_init() has run, then the heap of the     *)
(* slot its thread id is mapped to, made by the first thread that comes,   *)
(* with two looks at is_valid, of which the first takes no lock; and heaps *)
(* with names, which live in a table.                                      *)
(*                                                                         *)
(* A definition D_xyz is D with a plausible mistake in it.  Nothing uses   *)
(* it; PROJECT.json names the mistake that breaks each property.           *)
(***************************************************************************)
EXTENDS HashTable

CONSTANTS
  BkThreads,
  NameThreads,             \* those that call bk_heap() and bk_destroy_heap()
  CpuOf,                   \* tid % _bk_nr_cpus
  MainCpu,                 \* _bk_main_thread_cpu
  MainThreadUseGlobal,     \* the option main-thread-use-global
  MaxHeaps                 \* heaps are made up to this bound

Nobody == "nobody"

ASSUME HeapsAssumption ==
  /\ NameThreads \subseteq BkThreads /\ Nobody \notin BkThreads
  /\ CpuOf \in [BkThreads -> Nat] /\ MainThreadUseGlobal \in BOOLEAN /\ MaxHeaps \in Nat \ {0}

Cpus == {CpuOf[t] : t \in BkThreads}

Global == 0

VARIABLES
  bk_is_initialized,
  slots,        \* _bk_thread_datas: [heap, lock, is_valid] of each slot
  local,        \* _bk_local_thr is set
  bk_user_heaps, bk_user_heaps_lock,
  heaps,        \* the heaps made: "raw", "ready" or "freed"
  at,           \* where each thread is
  got,          \* the heap BK_GET_HEAP() has given the thread since bk_init()
  named         \* history: the heap bk_heap() last made for a name

heap_vars == <<bk_is_initialized, slots, local, bk_user_heaps, bk_user_heaps_lock, heaps, at, got, named>>

HeapsInit ==
  /\ bk_is_initialized = FALSE
  /\ slots = [c \in Cpus |-> [heap |-> NoValue, lock |-> Nobody, is_valid |-> FALSE]]
  /\ local = [t \in BkThreads |-> FALSE]
  /\ bk_user_heaps = make /\ bk_user_heaps_lock = Nobody
  /\ heaps = [h \in {Global} |-> "ready"]
  /\ at = [t \in BkThreads |-> [pc |-> "idle"]]
  /\ got = [t \in BkThreads |-> NoValue]
  /\ named = [k \in TableKeys |-> NoValue]

Fresh == Cardinality(DOMAIN heaps)

new_heap(state) == heaps' = [h \in DOMAIN heaps \cup {Fresh} |-> IF h = Fresh THEN state ELSE heaps[h]]

goto(t, pc) == at' = [at EXCEPT ![t] = [pc |-> pc]]

Return(t, h) == got' = [got EXCEPT ![t] = h] /\ goto(t, "idle")

table_vars == <<bk_user_heaps, bk_user_heaps_lock, named>>

\* bk_init(), a constructor: it has run before the program starts threads.
bk_init ==
  /\ ~bk_is_initialized
  /\ bk_is_initialized' = TRUE
  /\ got' = [t \in BkThreads |-> NoValue]
  /\ UNCHANGED <<slots, local, table_vars, heaps, at>>

\* BK_GET_HEAP() up to the first look at is_valid.
GetHeap(t) ==
  /\ at[t].pc = "idle"
  /\ IF bk_is_initialized THEN local' = [local EXCEPT ![t] = TRUE] ELSE UNCHANGED local
  /\ IF ~bk_is_initialized THEN Return(t, Global)
     ELSE IF local[t] \/ slots[CpuOf[t]].is_valid THEN Return(t, slots[CpuOf[t]].heap)
     ELSE goto(t, "lock") /\ UNCHANGED got
  /\ UNCHANGED <<bk_is_initialized, slots, table_vars, heaps>>

LockSlot(t) ==
  /\ at[t].pc = "lock"
  /\ slots[CpuOf[t]].lock = Nobody
  /\ slots' = [slots EXCEPT ![CpuOf[t]].lock = t]
  /\ goto(t, "check")
  /\ UNCHANGED <<bk_is_initialized, local, table_vars, heaps, got>>

CheckSlot_Once(t) ==
  /\ at[t].pc = "check"
  /\ Fresh < MaxHeaps
  /\ new_heap("raw")
  /\ slots' = [slots EXCEPT ![CpuOf[t]].heap = Fresh]
  /\ goto(t, "init")
  /\ UNCHANGED <<bk_is_initialized, local, table_vars, got>>

\* The second look.  A new heap is in the slot before bk_init_heap() has
\* filled it.
CheckSlot(t) ==
  /\ at[t].pc = "check"
  /\ IF slots[CpuOf[t]].is_valid THEN goto(t, "unlock") /\ UNCHANGED <<slots, heaps>>
     ELSE IF CpuOf[t] = MainCpu /\ MainThreadUseGlobal
     THEN slots' = [slots EXCEPT ![CpuOf[t]].heap = Global] /\ goto(t, "valid") /\ UNCHANGED heaps
     ELSE /\ Fresh < MaxHeaps
          /\ new_heap("raw")
          /\ slots' = [slots EXCEPT ![CpuOf[t]].heap = Fresh]
          /\ goto(t, "init")
  /\ UNCHANGED <<bk_is_initialized, local, table_vars, got>>

InitHeap(t) ==
  /\ at[t].pc = "init"
  /\ heaps' = [heaps EXCEPT ![slots[CpuOf[t]].heap] = "ready"]
  /\ goto(t, "valid")
  /\ UNCHANGED <<bk_is_initialized, slots, local, table_vars, got>>

Publish(t) ==
  /\ at[t].pc = "valid"
  /\ slots' = [slots EXCEPT ![CpuOf[t]].is_valid = TRUE]
  /\ goto(t, "unlock")
  /\ UNCHANGED <<bk_is_initialized, local, table_vars, heaps, got>>

UnlockSlot(t) ==
  /\ at[t].pc = "unlock"
  /\ slots' = [slots EXCEPT ![CpuOf[t]].lock = Nobody]
  /\ Return(t, slots[CpuOf[t]].heap)
  /\ UNCHANGED <<bk_is_initialized, local, table_vars, heaps>>

---------------------------------------------------------------------------

\* bk_heap() or bk_destroy_heap() up to the lock.
LockUsers(t, op, name) ==
  /\ bk_is_initialized
  /\ at[t].pc = "idle"
  /\ bk_user_heaps_lock = Nobody
  /\ bk_user_heaps_lock' = t
  /\ at' = [at EXCEPT ![t] = [pc |-> op, name |-> name]]
  /\ UNCHANGED <<bk_is_initialized, slots, local, bk_user_heaps, heaps, got, named>>

slot_vars == <<bk_is_initialized, slots, local>>

\* The rest of bk_heap(); its lock is let go last.
bk_heap(t) ==
  /\ at[t].pc = "heap"
  /\ LET name == at[t].name
         found == get_val(bk_user_heaps, name)
     IN IF found # NoValue THEN UNCHANGED <<bk_user_heaps, heaps, named>>
        ELSE /\ Fresh < MaxHeaps
             /\ new_heap("ready")
             /\ bk_user_heaps' = insert(bk_user_heaps, name, Fresh)
             /\ named' = [named EXCEPT ![name] = Fresh]
  /\ bk_user_heaps_lock' = Nobody
  /\ goto(t, "idle")
  /\ UNCHANGED <<slot_vars, got>>

\* bk_destroy_heap(): the entry is deleted, and its slot freed, before the
\* heap is read from it.
DeleteName(t) ==
  /\ at[t].pc = "destroy"
  /\ LET found == get_val(bk_user_heaps, at[t].name)
     IN IF found = NoValue THEN goto(t, "unlock users") ELSE at' = [at EXCEPT ![t] = [pc |-> "free", heapp |-> found]]
  /\ bk_user_heaps' = delete(bk_user_heaps, at[t].name)
  /\ named' = [named EXCEPT ![at[t].name] = NoValue]
  /\ UNCHANGED <<slot_vars, bk_user_heaps_lock, heaps, got>>

\* A thread that allocates from the global heap may have been given the
\* slot: then what is read there is anything, and so is what comes after.
FreeHeap(t) ==
  /\ at[t].pc = "free"
  /\ \/ heaps' = [heaps EXCEPT ![at[t].heapp] = "freed"] /\ goto(t, "unlock users")
     \/ (\E u \in BkThreads \ {t} : at[u].pc # "idle") /\ goto(t, "undefined") /\ UNCHANGED heaps
  /\ UNCHANGED <<slot_vars, table_vars, got>>

UnlockUsers(t) ==
  /\ at[t].pc = "unlock users"
  /\ bk_user_heaps_lock' = Nobody
  /\ goto(t, "idle")
  /\ UNCHANGED <<slot_vars, bk_user_heaps, named, heaps, got>>

HeapsNext ==
  \/ bk_init
  \/ \E t \in BkThreads :
       \/ GetHeap(t) \/ LockSlot(t) \/ CheckSlot(t) \/ InitHeap(t) \/ Publish(t) \/ UnlockSlot(t)
       \/ \E name \in TableKeys, op \in {"heap", "destroy"} : t \in NameThreads /\ LockUsers(t, op, name)
       \/ bk_heap(t) \/ DeleteName(t) \/ FreeHeap(t) \/ UnlockUsers(t)

---------------------------------------------------------------------------

\* The threads of a slot share one heap, which is ready before any of them
\* gets it, although is_valid is read without the lock (bkmalloc.h:3634),
\* and no two slots share one.
SlotHeapsShared ==
  /\ \A c \in Cpus : slots[c].is_valid => heaps[slots[c].heap] = "ready"
  /\ \A t \in BkThreads : got[t] # NoValue => heaps[got[t]] # "raw"
  /\ \A c, d \in Cpus : c # d /\ slots[c].heap # NoValue => slots[c].heap # slots[d].heap
  /\ \A c \in Cpus, k \in TableKeys : named[k] # NoValue => slots[c].heap # named[k]

\* A name has the heap bk_heap() made for it until it is destroyed, through
\* every growth of the table; no two have the same, none has one that was
\* freed; the table never fills up.
NamesKeepHeaps ==
  /\ \A k \in TableKeys : get_val(bk_user_heaps, k) = named[k]
  /\ \A k, l \in TableKeys : named[k] # NoValue /\ k # l => named[k] # named[l]
  /\ \A k \in TableKeys : named[k] # NoValue => heaps[named[k]] = "ready"
  /\ bk_user_heaps.len = Cardinality({k \in TableKeys : named[k] # NoValue})
  /\ bk_user_heaps.len < bk_user_heaps.load_thresh
=============================================================================
