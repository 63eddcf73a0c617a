--------------------------- MODULE BkMallocProofs ---------------------------
(***************************************************************************)
(* Proofs about the allocator with its heaps, lists, locks and retired     *)
(* blocks, for every number of threads, heaps, classes and blocks and every*)
(* layout of a block that the assumptions allow. HeapInv is the inductive  *)
(* invariant: the theorems on counts, places and retired bytes follow from *)
(* it. With it goes ClaimsFit, that what is held of a block lies in slots, *)
(* chunks and bump memory of its own, from which the heaps keep the promise*)
(* of the abstract Allocator; and CleanInv, which pages of a block are     *)
(* zero, from which the memory of a calloc is.                             *)
(***************************************************************************)
EXTENDS BkLemmas

---------------------------------------------------------------------------
(* The invariant                                                           *)

MetaType == [heap : Heaps, class : 0 .. NrClasses, size : Nat, zero : BOOLEAN,
             calloc : BOOLEAN, passes : Nat]
ObjectType == [block : Blocks, at : Nat, n : Nat \ {0}, by : Threads, zero : BOOLEAN,
               clean : BOOLEAN]

CallLabels == {"lock", "walk", "full", "bump", "gc", "get", "reuse", "done"}
FreeLabels == {"free", "unfull", "count", "sweeplock", "sweep"}
CallType == [pc : CallLabels, heap : Heaps, class : 0 .. NrClasses, n : Requests, al : Nat \ {0},
             zero : BOOLEAN, at : Blocks \cup {None}, mem : Nat, old : SUBSET ObjectType]
FreeType == [pc : FreeLabels, heap : Heaps, class : 0 .. NrClasses, at : Blocks \cup {None},
             mem : Nat]
OpType == {Idle} \cup CallType \cup FreeType

\* Labels at which the lock of a list is held, and those with a block of it.
WalkLabels == {"walk", "full", "bump", "gc", "sweep"}
LockedLabels == WalkLabels \cup {"get", "reuse", "done"}
HasLock(x) == x.pc \in LockedLabels /\ x.class # Big
\* A call that has memory.
Holder(x) == x.pc \in {"done", "free"}

Shape(x) ==
  /\ x.pc \in WalkLabels \cup {"lock", "sweeplock"} => x.class \in Classes
  /\ Holder(x) \/ x.pc = "reuse" => x.at \in Blocks
  /\ x.pc \in CallLabels /\ x.class # Big => x.n <= SizeOf(x.class)
OpsOK(o) == o \in [Threads -> OpType] /\ \A t \in Threads : Shape(o[t])

LockType == [Heaps -> [Classes -> Threads \cup {None}]]
ReuseLockType == [Heaps -> Threads \cup {None}]
Locked(x, t, lk, rlk) ==
  /\ HasLock(x) => lk[x.heap][x.class] = t
  /\ x.pc = "reuse" => rlk[x.heap] = t
LocksOK(o, lk, rlk) ==
  lk \in LockType /\ rlk \in ReuseLockType /\ \A t \in Threads : Locked(o[t], t, lk, rlk)

\* What a realloc copies from stays the program's and is that call's alone.
OldsOK(os, o) ==
  /\ os \subseteq ObjectType
  /\ \A t \in Threads : o[t].pc \in CallLabels =>
       o[t].old \subseteq os /\ \A p, q \in o[t].old : p = q
  /\ \A t, u \in Threads : o[t].pc \in CallLabels /\ o[u].pc \in CallLabels /\ t # u =>
       \A p \in o[t].old : p \notin o[u].old

\* The addresses of a block that are somebody's, each one's alone.
Addrs(os, o, b) ==
  {p.at : p \in {q \in os : q.block = b}}
    \cup {o[t].mem : t \in {u \in Threads : Holder(o[u]) /\ o[u].at = b}}
HeldOnce(os, o) ==
  /\ \A p, q \in os : p.block = q.block /\ p.at = q.at => p = q
  /\ \A t, u \in Threads :
       Holder(o[t]) /\ Holder(o[u]) /\ o[t].at = o[u].at /\ o[t].mem = o[u].mem => t = u
  /\ \A t \in Threads, p \in os : Holder(o[t]) => ~(o[t].at = p.block /\ o[t].mem = p.at)

\* Every block is on one list, or on none.
Retired(rl, b) == \E h \in Heaps : b \in Range(rl[h])
Listed(bl, b) == \E h \in Heaps, c \in Classes : b \in Range(bl[h][c])
Lists(m, bl, rl) ==
  /\ m \in [Blocks -> MetaType \cup {None}]
  /\ bl \in [Heaps -> [Classes -> Seq(Blocks)]] /\ rl \in [Heaps -> Seq(Blocks)]
  /\ \A h \in Heaps : IsInjective(rl[h]) /\ \A c \in Classes : IsInjective(bl[h][c])
  /\ \A h \in Heaps, c \in Classes : \A b \in Range(bl[h][c]) :
       m[b] # None /\ m[b].heap = h /\ m[b].class = c /\ ~Retired(rl, b)
  /\ \A h \in Heaps : \A b \in Range(rl[h]) : m[b] # None /\ m[b].heap = h

\* A block of which something may be held.
Used(m, bl, rl, b) == m[b] # None /\ ~Retired(rl, b) /\ (m[b].class # Big => Listed(bl, b))
\* A block between two lists.
Between(m, bl, rl, b) == m[b] # None /\ ~Retired(rl, b) /\ ~Listed(bl, b)

Placed(x, m, bl, rl) ==
  /\ Holder(x) =>
       Used(m, bl, rl, x.at) /\ m[x.at].heap = x.heap /\ m[x.at].class = x.class
  /\ x.pc \in WalkLabels /\ x.at # None => x.at \in Range(bl[x.heap][x.class])
  /\ x.pc = "reuse" => Between(m, bl, rl, x.at) /\ m[x.at].heap = x.heap
AllPlaced(os, o, m, bl, rl) ==
  /\ \A p \in os : Used(m, bl, rl, p.block)
  /\ \A t \in Threads : Placed(o[t], m, bl, rl)
  /\ \A t \in Threads : o[t].pc = "reuse" => Addrs(os, o, o[t].at) = {}

\* What a block counts is what is held of it.
BlockOK(md, s, c, bp, A) ==
  /\ IsFiniteSet(A) /\ A \in SUBSET Nat
  /\ md # None => IF md.class = Big THEN \A u, v \in A : u = v
                  ELSE BlockMatch(md.class, s, c, bp, A)
OfBlocks(f) == f = [b \in Blocks |-> f[b]]
Contents(m, s, c, bp, os, o) ==
  /\ OfBlocks(s) /\ OfBlocks(c) /\ OfBlocks(bp)
  /\ \A b \in Blocks : BlockOK(m[b], s[b], c[b], bp[b], Addrs(os, o, b))
BumpsBased(bl, bp) ==
  \A h \in Heaps, c \in Classes : \A b \in Range(bl[h][c]) : BumpBase(c) <= bp[b].at

HeapInv ==
  /\ OpsOK(op)
  /\ LocksOK(op, lock, reuse_lock)
  /\ OldsOK(live, op) /\ HeldOnce(live, op)
  /\ Lists(meta, block_lists, reuse_list)
  /\ reuse_size \in [Heaps -> Int] /\ reuse_bytes \in Int
  /\ AllPlaced(live, op, meta, block_lists, reuse_list)
  /\ Contents(meta, slots, chunks, bump, live, op)
  /\ BumpsBased(block_lists, bump)

---------------------------------------------------------------------------
(* What the change of one thread does                                      *)

Others(o, q, t) == \A u \in Threads : u # t => q[u] = o[u]

\* A label tells what the record of a thread is.
LEMMA Labels ==
  \A x \in OpType :
    /\ x.pc \in {"idle"} \cup CallLabels \cup FreeLabels
    /\ x.pc \in CallLabels => x \in CallType
    /\ x.pc \in FreeLabels => x \in FreeType
    /\ x.pc = "idle" => x = Idle
  BY DEF OpType, Idle, CallType, FreeType, CallLabels, FreeLabels

\* A step of one thread keeps the records well formed, ...
LEMMA OpsStep ==
  ASSUME NEW o, NEW q, NEW t \in Threads, OpsOK(o), q \in [Threads -> OpType], Others(o, q, t),
         Shape(q[t])
  PROVE  OpsOK(q)
  BY Zenon DEF OpsOK, Others

\* ... the locks with their holders, ...
LEMMA LocksStep ==
  ASSUME NEW o, NEW q, NEW t \in Threads, NEW lk, NEW rlk, NEW lk2, NEW rlk2,
         OpsOK(o), LocksOK(o, lk, rlk), Others(o, q, t),
         lk2 \in LockType, rlk2 \in ReuseLockType,
         \A h \in Heaps : /\ rlk[h] \in Threads \ {t} => rlk2[h] = rlk[h]
                          /\ \A c \in Classes : lk[h][c] \in Threads \ {t} => lk2[h][c] = lk[h][c],
         Locked(q[t], t, lk2, rlk2)
  PROVE  LocksOK(q, lk2, rlk2)
  <1>1. SUFFICES ASSUME NEW u \in Threads, u # t PROVE Locked(q[u], u, lk2, rlk2)
    BY Zenon DEF LocksOK
  <1> DEFINE x == q[u]
  <1>2. x = o[u] /\ x \in OpType /\ Locked(x, u, lk, rlk)
    BY <1>1, Zenon DEF Others, OpsOK, LocksOK
  <1> HIDE DEF x
  <1>3. ASSUME HasLock(x) PROVE lk2[x.heap][x.class] = u
    <2>1. x.heap \in Heaps /\ x.class \in Classes
      BY <1>2, <1>3, Labels, Geometry DEF HasLock, LockedLabels, WalkLabels, CallLabels, FreeLabels,
         CallType, FreeType, Classes, Big
    <2> QED BY <1>1, <1>2, <1>3, <2>1, Zenon DEF Locked
  <1>4. ASSUME x.pc = "reuse" PROVE rlk2[x.heap] = u
    <2>1. x.heap \in Heaps
      BY <1>2, <1>4, Labels DEF CallLabels, CallType
    <2> QED BY <1>1, <1>2, <1>4, <2>1, Zenon DEF Locked
  <1> QED BY <1>3, <1>4, Zenon DEF Locked, x

\* ... and what reallocs copy from apart.
LEMMA OldsStep ==
  ASSUME NEW os, NEW o, NEW q, NEW t \in Threads, OldsOK(os, o), Others(o, q, t),
         q[t].pc \in CallLabels =>
           /\ q[t].old \subseteq os /\ \A p, r \in q[t].old : p = r
           /\ \A u \in Threads : o[u].pc \in CallLabels /\ u # t => \A p \in o[u].old : p \notin q[t].old
  PROVE  OldsOK(os, q)
  BY Zenon DEF OldsOK, Others

\* The addresses held of a block, one by one.
LEMMA InAddrs ==
  ASSUME NEW os, NEW o, NEW b, NEW x
  PROVE  x \in Addrs(os, o, b) <=>
           \/ \E p \in os : p.block = b /\ p.at = x
           \/ \E t \in Threads : Holder(o[t]) /\ o[t].at = b /\ o[t].mem = x
  BY Zenon DEF Addrs

\* Addresses: a thread that takes none, takes one, gives one back.
LEMMA AddrsSame ==
  ASSUME NEW os, NEW o, NEW q, NEW t \in Threads, Others(o, q, t),
         ~Holder(o[t]), ~Holder(q[t])
  PROVE  \A b : Addrs(os, q, b) = Addrs(os, o, b)
  BY Zenon DEF Others, Addrs

\* A call that gets memory adds its address, ...
LEMMA AddrsTaken ==
  ASSUME NEW os, NEW o, NEW q, NEW t \in Threads, Others(o, q, t),
         ~Holder(o[t]), Holder(q[t])
  PROVE  Addrs(os, q, q[t].at) = Addrs(os, o, q[t].at) \cup {q[t].mem}
  BY Zenon DEF Others, Addrs

\* ... to that block only.
LEMMA AddrsOther ==
  ASSUME NEW os, NEW o, NEW q, NEW t \in Threads, Others(o, q, t),
         ~Holder(o[t]), NEW b, b # q[t].at
  PROVE  Addrs(os, q, b) = Addrs(os, o, b)
  BY Zenon DEF Others, Addrs

\* A call that gives memory back removes its address.
LEMMA AddrsGive ==
  ASSUME NEW os, NEW o, NEW q, NEW t \in Threads, Others(o, q, t), HeldOnce(os, o),
         Holder(o[t]), ~Holder(q[t])
  PROVE  /\ Addrs(os, q, o[t].at) = Addrs(os, o, o[t].at) \ {o[t].mem}
         /\ o[t].mem \in Addrs(os, o, o[t].at)
         /\ \A b : b # o[t].at => Addrs(os, q, b) = Addrs(os, o, b)
  <1> DEFINE b == o[t].at  x == o[t].mem
  <1>1. \A p \in os : p.block = b => p.at # x
    BY Zenon DEF HeldOnce
  <1>2. \A u \in Threads : u # t /\ Holder(o[u]) /\ o[u].at = b => o[u].mem # x
    BY Zenon DEF HeldOnce
  <1>3. x \in Addrs(os, o, b)
    BY InAddrs, Zenon
  <1>4. \A c : c # b => Addrs(os, q, c) = Addrs(os, o, c)
    BY Zenon DEF Others, Addrs
  <1>5. ASSUME NEW y PROVE y \in Addrs(os, q, b) <=> y \in Addrs(os, o, b) /\ y # x
    <2>1. y \in Addrs(os, q, b) <=> \/ \E p \in os : p.block = b /\ p.at = y
                                   \/ \E u \in Threads : Holder(q[u]) /\ q[u].at = b /\ q[u].mem = y
      BY InAddrs
    <2>2. y \in Addrs(os, o, b) <=> \/ \E p \in os : p.block = b /\ p.at = y
                                   \/ \E u \in Threads : Holder(o[u]) /\ o[u].at = b /\ o[u].mem = y
      BY InAddrs
    <2> HIDE DEF b, x
    <2>3. (\E u \in Threads : Holder(q[u]) /\ q[u].at = b /\ q[u].mem = y)
            <=> (\E u \in Threads : u # t /\ Holder(o[u]) /\ o[u].at = b /\ o[u].mem = y)
      BY Zenon DEF Others
    <2>4. \A u \in Threads : Holder(o[u]) /\ o[u].at = b /\ o[u].mem = y /\ u = t => y = x
      BY Zenon DEF x
    <2> QED BY <1>1, <1>2, <2>1, <2>2, <2>3, <2>4, Zenon
  <1> HIDE DEF b, x
  <1>6. Addrs(os, q, b) = Addrs(os, o, b) \ {x}
    BY <1>5, Zenon
  <1> QED BY <1>3, <1>4, <1>6, Zenon DEF b, x

\* Every address is still one holder's when a call gives memory back, ...
LEMMA HeldLess ==
  ASSUME NEW os, NEW o, NEW q, NEW t \in Threads, Others(o, q, t), HeldOnce(os, o), ~Holder(q[t])
  PROVE  HeldOnce(os, q)
  BY Zenon DEF Others, HeldOnce

\* ... and when a call gets an address that nobody has.
LEMMA HeldMore ==
  ASSUME NEW os, NEW o, NEW q, NEW t \in Threads, Others(o, q, t), HeldOnce(os, o),
         Holder(q[t]), ~Holder(o[t]), q[t].mem \notin Addrs(os, o, q[t].at)
  PROVE  HeldOnce(os, q)
  <1>1. /\ \A p \in os : ~(q[t].at = p.block /\ q[t].mem = p.at)
        /\ \A u \in Threads : Holder(o[u]) => ~(q[t].at = o[u].at /\ q[t].mem = o[u].mem)
    BY InAddrs
  <1> QED BY <1>1, Zenon DEF Others, HeldOnce

\* What every call works on is where it was, when one thread moves on.
LEMMA PlacedStep ==
  ASSUME NEW os, NEW o, NEW q, NEW t \in Threads, NEW m, NEW bl, NEW rl, Others(o, q, t),
         AllPlaced(os, o, m, bl, rl), Placed(q[t], m, bl, rl), q[t].pc # "reuse",
         \A u \in Threads : o[u].pc = "reuse" => Addrs(os, q, o[u].at) = Addrs(os, o, o[u].at)
  PROVE  AllPlaced(os, q, m, bl, rl)
  BY Zenon DEF Others, AllPlaced

\* A function of blocks changed at one of them.
LEMMA ExceptIs ==
  ASSUME NEW f, NEW b \in Blocks, NEW v, OfBlocks(f)
  PROVE  LET g == [f EXCEPT ![b] = v] IN
         OfBlocks(g) /\ g[b] = v /\ \A x \in Blocks : x # b => g[x] = f[x]
  BY DEF OfBlocks

\* Steps that change no block and hand over no memory.
placing == <<meta, block_lists, reuse_list, reuse_size, reuse_bytes>>
counting == <<slots, chunks, bump>>

OldAlone(q, t) ==
  q[t].pc \in CallLabels =>
    /\ q[t].old \subseteq live /\ \A p, r \in q[t].old : p = r
    /\ \A u \in Threads : op[u].pc \in CallLabels /\ u # t => \A p \in op[u].old : p \notin q[t].old

KeepsLocks(t) ==
  /\ lock' \in LockType /\ reuse_lock' = reuse_lock
  /\ \A h \in Heaps, c \in Classes : lock[h][c] \in Threads \ {t} => lock'[h][c] = lock[h][c]

\* The lists of one heap.
LEMMA ListFacts ==
  ASSUME NEW m, NEW bl, NEW rl, Lists(m, bl, rl), NEW h \in Heaps
  PROVE  /\ rl[h] \in Seq(Blocks) /\ IsInjective(rl[h])
         /\ \A b \in Range(rl[h]) :
              b \in Blocks /\ m[b] \in MetaType /\ m[b] # None /\ m[b].heap = h /\ Retired(rl, b)
         /\ \A c \in Classes :
              /\ bl[h][c] \in Seq(Blocks) /\ IsInjective(bl[h][c])
              /\ \A b \in Range(bl[h][c]) :
                   /\ b \in Blocks /\ m[b] \in MetaType /\ m[b] # None
                   /\ m[b].heap = h /\ m[b].class = c
                   /\ ~Retired(rl, b) /\ Listed(bl, b)
  <1>1. rl[h] \in Seq(Blocks) /\ \A c \in Classes : bl[h][c] \in Seq(Blocks)
    <2>1. rl \in [Heaps -> Seq(Blocks)] /\ bl \in [Heaps -> [Classes -> Seq(Blocks)]]
      BY Zenon DEF Lists
    <2> QED BY <2>1
  <1>2. Range(rl[h]) \subseteq Blocks /\ \A c \in Classes : Range(bl[h][c]) \subseteq Blocks
    BY <1>1, RangeIn, Zenon
  <1>3. \A b \in Blocks : m[b] # None => m[b] \in MetaType
    <2>1. m \in [Blocks -> MetaType \cup {None}]
      BY Zenon DEF Lists
    <2> QED BY <2>1
  <1>4. /\ \A b \in Range(rl[h]) : m[b] # None /\ m[b].heap = h
        /\ \A c \in Classes : \A b \in Range(bl[h][c]) :
             m[b] # None /\ m[b].heap = h /\ m[b].class = c /\ ~Retired(rl, b)
        /\ IsInjective(rl[h]) /\ \A c \in Classes : IsInjective(bl[h][c])
    BY Zenon DEF Lists
  <1>5. /\ \A b \in Range(rl[h]) : Retired(rl, b)
        /\ \A c \in Classes : \A b \in Range(bl[h][c]) : Listed(bl, b)
    BY Zenon DEF Retired, Listed
  <1> QED BY <1>1, <1>2, <1>3, <1>4, <1>5, Zenon

\* A step that leaves the locks alone.
LEMMA KeptLocks ==
  ASSUME HeapInv, NEW t \in Threads, UNCHANGED <<lock, reuse_lock>>
  PROVE  KeepsLocks(t)
  BY Zenon DEF HeapInv, LocksOK, KeepsLocks

\* A thread's step keeps what the invariant says of the calls.
LEMMA ControlStep ==
  ASSUME HeapInv, NEW t \in Threads, KeepsLocks(t),
         op' \in [Threads -> OpType], Others(op, op', t), Shape(op'[t]),
         Locked(op'[t], t, lock', reuse_lock'), OldAlone(op', t), live' = live
  PROVE  OpsOK(op') /\ LocksOK(op', lock', reuse_lock') /\ OldsOK(live', op')
  <1>i. /\ OpsOK(op) /\ LocksOK(op, lock, reuse_lock) /\ OldsOK(live, op) /\ HeldOnce(live, op)
        /\ Lists(meta, block_lists, reuse_list)
        /\ reuse_size \in [Heaps -> Int] /\ reuse_bytes \in Int
        /\ AllPlaced(live, op, meta, block_lists, reuse_list)
        /\ Contents(meta, slots, chunks, bump, live, op) /\ BumpsBased(block_lists, bump)
    BY Zenon DEF HeapInv
  <1>1. OpsOK(op')
    BY <1>i, OpsStep, Zenon
  <1>2. LocksOK(op', lock', reuse_lock')
    <2>1. reuse_lock' \in ReuseLockType /\ \A h \in Heaps : reuse_lock'[h] = reuse_lock[h]
      BY <1>i, Zenon DEF LocksOK, KeepsLocks
    <2> QED BY <1>i, <2>1, LocksStep DEF KeepsLocks
  <1>3. OldsOK(live', op')
    BY <1>i, OldsStep, Zenon DEF OldAlone
  <1> QED BY <1>1, <1>2, <1>3

\* A step that leaves the blocks alone keeps the invariant.
LEMMA QuietStep ==
  ASSUME HeapInv, NEW t \in Threads, KeepsLocks(t),
         op' \in [Threads -> OpType], Others(op, op', t), Shape(op'[t]),
         Locked(op'[t], t, lock', reuse_lock'), OldAlone(op', t), live' = live,
         UNCHANGED <<placing, counting>>,
         ~Holder(op[t]), ~Holder(op'[t]), op'[t].pc # "reuse",
         Placed(op'[t], meta, block_lists, reuse_list)
  PROVE  HeapInv'
  <1>i. /\ OpsOK(op) /\ LocksOK(op, lock, reuse_lock) /\ OldsOK(live, op) /\ HeldOnce(live, op)
        /\ Lists(meta, block_lists, reuse_list)
        /\ reuse_size \in [Heaps -> Int] /\ reuse_bytes \in Int
        /\ AllPlaced(live, op, meta, block_lists, reuse_list)
        /\ Contents(meta, slots, chunks, bump, live, op) /\ BumpsBased(block_lists, bump)
    BY Zenon DEF HeapInv
  <1>0. /\ meta' = meta /\ block_lists' = block_lists /\ reuse_list' = reuse_list
        /\ reuse_size' = reuse_size /\ reuse_bytes' = reuse_bytes
        /\ slots' = slots /\ chunks' = chunks /\ bump' = bump
    BY Zenon DEF placing, counting
  <1>1. OpsOK(op') /\ LocksOK(op', lock', reuse_lock') /\ OldsOK(live', op')
    BY ControlStep
  <1>2. HeldOnce(live', op')
    BY <1>i, HeldLess, Zenon
  <1>3. \A b : Addrs(live', op', b) = Addrs(live, op, b)
    BY AddrsSame, Zenon
  <1>4. AllPlaced(live', op', meta', block_lists', reuse_list')
    BY <1>i, <1>0, <1>3, PlacedStep, Zenon
  <1>5. Contents(meta', slots', chunks', bump', live', op')
    BY <1>i, <1>0, <1>3, Zenon DEF Contents
  <1> QED BY <1>0, <1>1, <1>2, <1>4, <1>5, Zenon DEF HeapInv

\* What one block counts changes; A is what is held of it then.
CountsAt(b, A) ==
  /\ OfBlocks(slots') /\ OfBlocks(chunks') /\ OfBlocks(bump')
  /\ \A x \in Blocks : x # b => slots'[x] = slots[x] /\ chunks'[x] = chunks[x] /\ bump'[x] = bump[x]
  /\ BlockMatch(meta[b].class, slots'[b], chunks'[b], bump'[b], A)
  /\ BumpBase(meta[b].class) <= bump'[b].at

\* A step that takes memory of a block keeps it.
LEMMA TakeStep ==
  ASSUME HeapInv, NEW t \in Threads, KeepsLocks(t),
         op' \in [Threads -> OpType], Others(op, op', t), Shape(op'[t]),
         Locked(op'[t], t, lock', reuse_lock'), OldAlone(op', t), live' = live,
         UNCHANGED placing, ~Holder(op[t]), Holder(op'[t]),
         Placed(op'[t], meta, block_lists, reuse_list),
         NEW b \in Blocks, b = op'[t].at, b \in Range(block_lists[op'[t].heap][op'[t].class]),
         op'[t].heap \in Heaps, op'[t].class \in Classes,
         op'[t].mem \in Nat, op'[t].mem \notin Addrs(live, op, b),
         CountsAt(b, Addrs(live, op, b) \cup {op'[t].mem})
  PROVE  HeapInv'
  <1>i. /\ OpsOK(op) /\ LocksOK(op, lock, reuse_lock) /\ OldsOK(live, op) /\ HeldOnce(live, op)
        /\ Lists(meta, block_lists, reuse_list)
        /\ reuse_size \in [Heaps -> Int] /\ reuse_bytes \in Int
        /\ AllPlaced(live, op, meta, block_lists, reuse_list)
        /\ Contents(meta, slots, chunks, bump, live, op) /\ BumpsBased(block_lists, bump)
    BY Zenon DEF HeapInv
  <1>0. /\ meta' = meta /\ block_lists' = block_lists /\ reuse_list' = reuse_list
        /\ reuse_size' = reuse_size /\ reuse_bytes' = reuse_bytes
    BY Zenon DEF placing
  <1>1. OpsOK(op') /\ LocksOK(op', lock', reuse_lock') /\ OldsOK(live', op')
    BY ControlStep
  <1>2. HeldOnce(live', op')
    BY <1>i, HeldMore, Zenon
  <1>3. /\ Addrs(live', op', b) = Addrs(live, op, b) \cup {op'[t].mem}
        /\ \A x : x # b => Addrs(live', op', x) = Addrs(live, op, x)
    <2>1. \A x : x # b => Addrs(live, op', x) = Addrs(live, op, x)
      BY AddrsOther
    <2>2. Addrs(live, op', op'[t].at) = Addrs(live, op, op'[t].at) \cup {op'[t].mem}
      BY AddrsTaken
    <2> QED BY <2>1, <2>2
  <1>m. meta[b].class = op'[t].class
    <2> DEFINE h == op'[t].heap  c == op'[t].class
    <2>1. h \in Heaps /\ c \in Classes /\ b \in Range(block_lists[h][c])
      BY Zenon
    <2> HIDE DEF h, c
    <2>2. meta[b].class = c
      BY <1>i, <2>1, ListFacts
    <2> QED BY <2>2 DEF c
  <1>4. AllPlaced(live', op', meta', block_lists', reuse_list')
    <2>1. \A u \in Threads : op[u].pc = "reuse" => op[u].at # b
      BY <1>i, Zenon DEF AllPlaced, Placed, Between, Listed
    <2>2. op'[t].pc # "reuse"
      BY DEF Holder
    <2>3. AllPlaced(live, op', meta, block_lists, reuse_list)
      BY <1>i, <1>3, <2>1, <2>2, PlacedStep, Zenon
    <2> QED BY <1>0, <2>3
  <1>5. Contents(meta', slots', chunks', bump', live', op')
    <2>1. meta[b].class # Big
      BY <1>m, Sizes, Zenon
    <2>2. BlockOK(meta[b], slots'[b], chunks'[b], bump'[b], Addrs(live', op', b))
      <3>1. IsFiniteSet(Addrs(live, op, b)) /\ Addrs(live, op, b) \in SUBSET Nat
        BY <1>i, Zenon DEF Contents, BlockOK
      <3>2. IsFiniteSet(Addrs(live', op', b))
        BY <1>3, <3>1, FS_AddElement
      <3> QED BY <1>3, <2>1, <3>1, <3>2, Zenon DEF BlockOK, CountsAt
    <2>3. \A x \in Blocks : x # b => BlockOK(meta[x], slots'[x], chunks'[x], bump'[x], Addrs(live', op', x))
      BY <1>i, <1>3, Zenon DEF Contents, CountsAt
    <2> QED BY <1>0, <2>2, <2>3, Zenon DEF Contents, CountsAt
  <1>6. BumpsBased(block_lists', bump')
    <2>1. ASSUME NEW h \in Heaps, NEW c \in Classes, NEW x \in Range(block_lists[h][c])
          PROVE  BumpBase(c) <= bump'[x].at
      <3>1. x \in Blocks /\ meta[x].class = c
        BY <1>i, ListFacts, Zenon
      <3>2. BumpBase(c) <= bump[x].at
        BY <1>i, Zenon DEF BumpsBased
      <3> QED BY <3>1, <3>2, Zenon DEF CountsAt
    <2> QED BY <1>0, <2>1, Zenon DEF BumpsBased
  <1>7. /\ Lists(meta', block_lists', reuse_list')
        /\ reuse_size' \in [Heaps -> Int] /\ reuse_bytes' \in Int
    BY <1>i, <1>0, Zenon
  <1> QED BY <1>1, <1>2, <1>4, <1>5, <1>6, <1>7, Zenon DEF HeapInv

\* A step that gives memory back to a block keeps it.
LEMMA GiveStep ==
  ASSUME HeapInv, NEW t \in Threads, KeepsLocks(t),
         op' \in [Threads -> OpType], Others(op, op', t), Shape(op'[t]),
         Locked(op'[t], t, lock', reuse_lock'), OldAlone(op', t), live' = live,
         UNCHANGED placing, Holder(op[t]), ~Holder(op'[t]), op'[t].pc # "reuse",
         Placed(op'[t], meta, block_lists, reuse_list),
         NEW b \in Blocks, b = op[t].at, meta[b].class # Big,
         CountsAt(b, Addrs(live, op, b) \ {op[t].mem})
  PROVE  HeapInv'
  <1>i. /\ OpsOK(op) /\ LocksOK(op, lock, reuse_lock) /\ OldsOK(live, op) /\ HeldOnce(live, op)
        /\ Lists(meta, block_lists, reuse_list)
        /\ reuse_size \in [Heaps -> Int] /\ reuse_bytes \in Int
        /\ AllPlaced(live, op, meta, block_lists, reuse_list)
        /\ Contents(meta, slots, chunks, bump, live, op) /\ BumpsBased(block_lists, bump)
    BY Zenon DEF HeapInv
  <1>0. /\ meta' = meta /\ block_lists' = block_lists /\ reuse_list' = reuse_list
        /\ reuse_size' = reuse_size /\ reuse_bytes' = reuse_bytes
    BY Zenon DEF placing
  <1>1. OpsOK(op') /\ LocksOK(op', lock', reuse_lock') /\ OldsOK(live', op')
    BY ControlStep
  <1>2. HeldOnce(live', op')
    BY <1>i, HeldLess, Zenon
  <1>3. /\ Addrs(live', op', b) = Addrs(live, op, b) \ {op[t].mem}
        /\ op[t].mem \in Addrs(live, op, b)
        /\ \A x : x # b => Addrs(live', op', x) = Addrs(live, op, x)
    BY <1>i, AddrsGive
  <1>4. AllPlaced(live', op', meta', block_lists', reuse_list')
    <2>1. \A u \in Threads : op[u].pc = "reuse" => op[u].at # b
      BY <1>i, <1>3, Zenon DEF AllPlaced
    <2>2. \A u \in Threads : op[u].pc = "reuse" => Addrs(live, op', op[u].at) = Addrs(live, op, op[u].at)
      BY <1>3, <2>1, Zenon
    <2>3. AllPlaced(live, op', meta, block_lists, reuse_list)
      BY <1>i, <2>2, PlacedStep, Zenon
    <2> QED BY <1>0, <2>3
  <1>5. Contents(meta', slots', chunks', bump', live', op')
    <2>2. BlockOK(meta[b], slots'[b], chunks'[b], bump'[b], Addrs(live', op', b))
      <3>1. IsFiniteSet(Addrs(live, op, b)) /\ Addrs(live, op, b) \in SUBSET Nat
        BY <1>i, Zenon DEF Contents, BlockOK
      <3>2. IsFiniteSet(Addrs(live', op', b))
        BY <1>3, <3>1, FS_RemoveElement
      <3> QED BY <1>3, <3>1, <3>2, Zenon DEF BlockOK, CountsAt
    <2>3. \A x \in Blocks : x # b => BlockOK(meta[x], slots'[x], chunks'[x], bump'[x], Addrs(live', op', x))
      BY <1>i, <1>3, Zenon DEF Contents, CountsAt
    <2> QED BY <1>0, <2>2, <2>3, Zenon DEF Contents, CountsAt
  <1>6. BumpsBased(block_lists', bump')
    <2>1. ASSUME NEW h \in Heaps, NEW c \in Classes, NEW x \in Range(block_lists[h][c])
          PROVE  BumpBase(c) <= bump'[x].at
      <3>1. x \in Blocks /\ meta[x].class = c
        BY <1>i, ListFacts, Zenon
      <3>2. BumpBase(c) <= bump[x].at
        BY <1>i, Zenon DEF BumpsBased
      <3> QED BY <3>1, <3>2, Zenon DEF CountsAt
    <2> QED BY <1>0, <2>1, Zenon DEF BumpsBased
  <1>7. /\ Lists(meta', block_lists', reuse_list')
        /\ reuse_size' \in [Heaps -> Int] /\ reuse_bytes' \in Int
    BY <1>i, <1>0, Zenon
  <1> QED BY <1>1, <1>2, <1>4, <1>5, <1>6, <1>7, Zenon DEF HeapInv

\* What an assignment to fields of one thread's record leaves.
SameCall(x, y) ==
  y.heap = x.heap /\ y.class = x.class /\ y.n = x.n /\ y.al = x.al /\ y.zero = x.zero /\ y.old = x.old
CallStep(o, q, t) ==
  /\ q \in [Threads -> OpType] /\ Others(o, q, t)
  /\ q[t] \in CallType /\ SameCall(o[t], q[t])

FreeStep(o, q, t) ==
  /\ q \in [Threads -> OpType] /\ Others(o, q, t)
  /\ q[t] \in FreeType /\ q[t].heap = o[t].heap

\* The record of one thread changed.
LEMMA OpSet ==
  ASSUME NEW o \in [Threads -> OpType], NEW t \in Threads, NEW x \in OpType,
         NEW q, q = [o EXCEPT ![t] = x]
  PROVE  q \in [Threads -> OpType] /\ Others(o, q, t) /\ q[t] = x
  BY DEF Others

\* The record of a thread.
LEMMA OpOf ==
  ASSUME HeapInv, NEW t \in Threads
  PROVE  /\ op \in [Threads -> OpType] /\ op[t] \in OpType /\ Shape(op[t])
         /\ op[t].pc \in CallLabels => op[t] \in CallType
         /\ op[t].pc \in FreeLabels => op[t] \in FreeType
  BY Labels, Zenon DEF HeapInv, OpsOK

\* The first block of a list.
LEMMA HeadIs ==
  ASSUME NEW S, NEW s \in Seq(S)
  PROVE  HeadOf(s) = None \/ HeadOf(s) \in Range(s)
  BY OfRange DEF HeadOf

\* The next block of a list.
LEMMA FollowingIs ==
  ASSUME NEW S, NEW s \in Seq(S), NEW b \in Range(s)
  PROVE  Following(s, b) = None \/ Following(s, b) \in Range(s)
  <1> DEFINE i == CHOOSE j \in DOMAIN s : s[j] = b
  <1>1. i \in 1 .. Len(s) /\ s[i] = b
    <2>1. \E j \in DOMAIN s : s[j] = b
      BY OfRange
    <2> QED BY <2>1
  <1>2. Following(s, b) = IF i = Len(s) THEN None ELSE s[i + 1]
    BY DEF Following
  <1> HIDE DEF i
  <1>3. i # Len(s) => i + 1 \in 1 .. Len(s)
    BY <1>1
  <1> QED BY <1>2, <1>3, OfRange

\* None is no block and no thread.
LEMMA NoneIsNoBlock == None \notin Blocks /\ None \notin Threads
  BY MallocAssumption

\* A call that goes on keeps what it copies from.
LEMMA OldKept ==
  ASSUME HeapInv, NEW t \in Threads, op[t].pc \in CallLabels, op'[t].old = op[t].old
  PROVE  OldAlone(op', t)
  <1>1. OldsOK(live, op)
    BY Zenon DEF HeapInv
  <1> QED BY <1>1, Zenon DEF OldsOK, OldAlone

\* What a call that walks a list has of it.
LEMMA WalkClass ==
  ASSUME HeapInv, NEW t \in Threads
  PROVE  /\ op[t].pc \in CallLabels \cup FreeLabels => op[t].heap \in Heaps /\ op[t].class \in 0 .. NrClasses
         /\ op[t].pc \in WalkLabels \cup {"lock", "sweeplock"} => op[t].class \in Classes
         /\ op[t].pc \in WalkLabels /\ op[t].at # None =>
              op[t].at \in Range(block_lists[op[t].heap][op[t].class])
         /\ HasLock(op[t]) => lock[op[t].heap][op[t].class] = t
  <1>1. op[t].pc \in CallLabels \cup FreeLabels => op[t].heap \in Heaps /\ op[t].class \in 0 .. NrClasses
    BY OpOf DEF CallType, FreeType
  <1>2. op[t].pc \in WalkLabels \cup {"lock", "sweeplock"} => op[t].class \in Classes
    BY OpOf, Zenon DEF Shape
  <1>3. Placed(op[t], meta, block_lists, reuse_list) /\ Locked(op[t], t, lock, reuse_lock)
    BY Zenon DEF HeapInv, AllPlaced, LocksOK
  <1> QED BY <1>1, <1>2, <1>3, Zenon DEF Placed, Locked

\* A call goes on without touching a block.
LEMMA CallQuiet ==
  ASSUME HeapInv, NEW t \in Threads, KeepsLocks(t), live' = live, UNCHANGED <<placing, counting>>,
         op[t].pc \in CallLabels \ {"done"}, CallStep(op, op', t),
         op'[t].pc \in CallLabels \ {"done", "reuse"},
         op'[t].pc \in WalkLabels \cup {"lock"} => op[t].class \in Classes,
         HasLock(op'[t]) => lock'[op[t].heap][op[t].class] = t,
         op'[t].pc \in WalkLabels /\ op'[t].at # None =>
           op'[t].at \in Range(block_lists[op[t].heap][op[t].class])
  PROVE  HeapInv'
  <1> DEFINE x == op[t]  y == op'[t]
  <1>1. op' \in [Threads -> OpType] /\ Others(op, op', t) /\ y \in CallType /\ SameCall(x, y)
    BY Zenon DEF CallStep
  <1>2. Shape(x)
    BY OpOf, Zenon
  <1>3. ~Holder(x) /\ ~Holder(y) /\ y.pc # "reuse" /\ x.pc \in CallLabels /\ y.pc \in CallLabels
    BY DEF Holder, CallLabels
  <1>4. OldAlone(op', t)
    <2>1. op'[t].old = op[t].old
      BY <1>1, Zenon DEF SameCall
    <2> QED BY <1>3, <2>1, OldKept
  <1>s. y.heap = x.heap /\ y.class = x.class /\ y.n = x.n
    BY <1>1, Zenon DEF SameCall
  <1>5. Shape(op'[t])
    <2>1. y.pc \in WalkLabels \cup {"lock", "sweeplock"} => y.pc \in WalkLabels \cup {"lock"}
      BY <1>3 DEF CallLabels
    <2> QED BY <1>1, <1>2, <1>3, <1>s, <2>1, Zenon DEF Shape
  <1>6. Locked(op'[t], t, lock', reuse_lock')
    BY <1>3, <1>s, Zenon DEF Locked
  <1>7. Placed(op'[t], meta, block_lists, reuse_list)
    BY <1>3, <1>s, Zenon DEF Placed
  <1> QED BY <1>1, <1>3, <1>4, <1>5, <1>6, <1>7, QuietStep

\* A free that only walks keeps the invariant.
LEMMA FreeQuiet ==
  ASSUME HeapInv, NEW t \in Threads, KeepsLocks(t), live' = live, UNCHANGED <<placing, counting>>,
         op[t].pc \in FreeLabels \ {"free"}, FreeStep(op, op', t),
         op'[t].pc \in FreeLabels \ {"free"},
         op'[t].pc \in {"sweep", "sweeplock"} => op'[t].class \in Classes,
         op'[t].pc = "sweep" => lock'[op[t].heap][op'[t].class] = t,
         op'[t].pc = "sweep" /\ op'[t].at # None =>
           op'[t].at \in Range(block_lists[op[t].heap][op'[t].class])
  PROVE  HeapInv'
  <1> DEFINE x == op[t]  y == op'[t]
  <1>1. op' \in [Threads -> OpType] /\ Others(op, op', t) /\ y \in FreeType /\ y.heap = x.heap
    BY Zenon DEF FreeStep
  <1>3. ~Holder(x) /\ ~Holder(y) /\ y.pc # "reuse" /\ y.pc \notin CallLabels
    BY DEF Holder, CallLabels, FreeLabels
  <1>4. OldAlone(op', t)
    BY <1>3, Zenon DEF OldAlone
  <1>w. /\ y.pc \in WalkLabels => y.pc = "sweep"
        /\ y.pc \in LockedLabels => y.pc = "sweep"
        /\ y.pc # "lock"
    BY DEF FreeLabels, WalkLabels, LockedLabels
  <1>5. Shape(op'[t])
    BY <1>3, <1>w, Zenon DEF Shape
  <1>6. Locked(op'[t], t, lock', reuse_lock')
    BY <1>1, <1>3, <1>w, Zenon DEF Locked, HasLock
  <1>7. Placed(op'[t], meta, block_lists, reuse_list)
    BY <1>1, <1>3, <1>w, Zenon DEF Placed
  <1> QED BY <1>1, <1>3, <1>4, <1>5, <1>6, <1>7, QuietStep

\* A call that ends without memory keeps it.
LEMMA ToIdle ==
  ASSUME HeapInv, NEW t \in Threads, KeepsLocks(t), live' = live, UNCHANGED <<placing, counting>>,
         ~Holder(op[t]), op' = Set(op, t, Idle)
  PROVE  HeapInv'
  <1>1. Idle \in OpType /\ Idle.pc = "idle"
    BY DEF OpType, Idle
  <1>2. op' \in [Threads -> OpType] /\ Others(op, op', t) /\ op'[t] = Idle
    BY <1>1, OpOf, OpSet DEF Set
  <1>3. /\ ~Holder(Idle) /\ Idle.pc \notin CallLabels /\ Idle.pc \notin WalkLabels /\ Idle.pc \notin LockedLabels
        /\ Idle.pc # "reuse" /\ Idle.pc # "lock" /\ Idle.pc # "sweeplock"
    BY <1>1 DEF Holder, CallLabels, WalkLabels, LockedLabels
  <1>4. OldAlone(op', t)
    BY <1>2, <1>3, Zenon DEF OldAlone
  <1>5. Shape(op'[t])
    BY <1>2, <1>3, Zenon DEF Shape
  <1>6. Locked(op'[t], t, lock', reuse_lock')
    BY <1>2, <1>3, Zenon DEF Locked, HasLock
  <1>7. Placed(op'[t], meta, block_lists, reuse_list)
    BY <1>2, <1>3, Zenon DEF Placed
  <1>8. ~Holder(op'[t]) /\ op'[t].pc # "reuse"
    BY <1>2, <1>3, Zenon
  <1> QED BY <1>2, <1>4, <1>5, <1>6, <1>7, <1>8, QuietStep

---------------------------------------------------------------------------
(* The steps that change no block                                          *)

\* Locking a list.
LEMMA TakeLock ==
  ASSUME HeapInv, NEW t \in Threads, NEW h \in Heaps, NEW c \in Classes, lock[h][c] = None,
         lock' = [lock EXCEPT ![h][c] = t], reuse_lock' = reuse_lock
  PROVE  KeepsLocks(t) /\ lock'[h][c] = t
  <1>1. lock \in LockType
    BY Zenon DEF HeapInv, LocksOK
  <1> QED BY <1>1, NoneIsNoBlock DEF LockType, KeepsLocks

\* Unlocking a list.
LEMMA DropLock ==
  ASSUME HeapInv, NEW t \in Threads, NEW h \in Heaps, NEW c \in Classes, lock[h][c] = t,
         lock' = [lock EXCEPT ![h][c] = None], reuse_lock' = reuse_lock
  PROVE  KeepsLocks(t)
  <1>1. lock \in LockType
    BY Zenon DEF HeapInv, LocksOK
  <1> QED BY <1>1, NoneIsNoBlock DEF LockType, KeepsLocks

\* Where a walk begins.
LEMMA HeadOfList ==
  ASSUME HeapInv, NEW h \in Heaps, NEW c \in Classes
  PROVE  LET b == HeadOf(block_lists[h][c]) IN
         b \in Blocks \cup {None} /\ (b # None => b \in Range(block_lists[h][c]))
  <1>1. block_lists[h][c] \in Seq(Blocks)
    BY ListFacts, Zenon DEF HeapInv
  <1>2. Range(block_lists[h][c]) \subseteq Blocks
    BY <1>1, RangeIn, Zenon
  <1>3. HeadOf(block_lists[h][c]) = None \/ HeadOf(block_lists[h][c]) \in Range(block_lists[h][c])
    BY <1>1, HeadIs, Zenon
  <1> QED BY <1>2, <1>3

\* Where it goes on.
LEMMA NextOfList ==
  ASSUME HeapInv, NEW h \in Heaps, NEW c \in Classes, NEW b \in Range(block_lists[h][c])
  PROVE  LET d == Following(block_lists[h][c], b) IN
         d \in Blocks \cup {None} /\ (d # None => d \in Range(block_lists[h][c]))
  <1>1. block_lists[h][c] \in Seq(Blocks)
    BY ListFacts, Zenon DEF HeapInv
  <1>2. Range(block_lists[h][c]) \subseteq Blocks
    BY <1>1, RangeIn, Zenon
  <1>3. Following(block_lists[h][c], b) = None \/ Following(block_lists[h][c], b) \in Range(block_lists[h][c])
    BY <1>1, FollowingIs, Zenon
  <1> QED BY <1>2, <1>3

\* A thread locks the list of its class.
LEMMA LockListInv ==
  ASSUME HeapInv, NEW t \in Threads, LockList(t)
  PROVE  HeapInv'
  <1> DEFINE h == op[t].heap  c == op[t].class  b == HeadOf(block_lists[h][c])
  <1>1. op[t].pc = "lock" /\ lock[h][c] = None /\ live' = live
    BY DEF LockList
  <1>2. h \in Heaps /\ c \in Classes /\ op[t].pc \in CallLabels \ {"done"} /\ op[t].pc \in CallLabels
    BY <1>1, WalkClass DEF CallLabels
  <1>3. b \in Blocks \cup {None} /\ (b # None => b \in Range(block_lists[h][c]))
    BY <1>2, HeadOfList
  <1>4. CallStep(op, op', t) /\ op'[t].pc = "walk" /\ op'[t].at = b
    <2>1. op' = [op EXCEPT ![t].pc = "walk", ![t].at = b] /\ "walk" \in CallLabels
      BY DEF LockList, CallLabels
    <2>2. op \in [Threads -> OpType] /\ op[t] \in CallType
      BY <1>2, OpOf
    <2> HIDE DEF b
    <2> QED BY <1>3, <2>1, <2>2 DEF CallType, OpType, CallStep, SameCall, Others
  <1>5. KeepsLocks(t) /\ lock'[h][c] = t
    <2>1. lock' = [lock EXCEPT ![h][c] = t] /\ reuse_lock' = reuse_lock
      BY DEF LockList, reuse
    <2> QED BY <1>1, <1>2, <2>1, TakeLock
  <1>6. UNCHANGED <<placing, counting>>
    BY DEF LockList, inside, reuse, placing, counting
  <1>7. op'[t].pc \in CallLabels \ {"done", "reuse"}
    BY <1>4 DEF CallLabels
  <1> HIDE DEF b, h, c
  <1> QED BY <1>1, <1>2, <1>3, <1>4, <1>5, <1>6, <1>7, CallQuiet DEF h, c

\* What an action on blocks leaves alone.
LEMMA OutsideKept ==
  ASSUME HeapInv, NEW t \in Threads, UNCHANGED OutsideBlocks
  PROVE  KeepsLocks(t) /\ live' = live /\ UNCHANGED placing
  BY KeptLocks DEF OutsideBlocks, reuse, placing

\* A block has no chunk that fits.
LEMMA NoChunkInv ==
  ASSUME HeapInv, NEW t \in Threads, NoChunk(t)
  PROVE  HeapInv'
  <1>1. op[t].pc = "walk" /\ op[t].at # None
    BY DEF NoChunk, At
  <1>2. op[t].pc \in CallLabels \ {"done"} /\ op[t].pc \in CallLabels /\ op[t].pc \in WalkLabels
    BY <1>1 DEF CallLabels, WalkLabels
  <1>3. CallStep(op, op', t) /\ op'[t].pc = "full" /\ op'[t].at = op[t].at
    <2>1. op' = [op EXCEPT ![t].pc = "full"] /\ "full" \in CallLabels
      BY DEF NoChunk, Goto, CallLabels
    <2>2. op \in [Threads -> OpType] /\ op[t] \in CallType
      BY <1>2, OpOf
    <2> QED BY <2>1, <2>2 DEF CallType, OpType, CallStep, SameCall, Others
  <1>4. KeepsLocks(t) /\ live' = live /\ UNCHANGED <<placing, counting>> /\ lock' = lock
    BY OutsideKept DEF NoChunk, OutsideBlocks, counting
  <1>5. op'[t].pc \in CallLabels \ {"done", "reuse"} /\ HasLock(op[t]) = (op[t].class # Big)
    BY <1>1, <1>3 DEF CallLabels, HasLock, LockedLabels, WalkLabels
  <1>6. /\ op[t].class \in Classes /\ op[t].at \in Range(block_lists[op[t].heap][op[t].class])
        /\ HasLock(op[t]) => lock[op[t].heap][op[t].class] = t
    BY <1>1, <1>2, WalkClass, Zenon
  <1>7. HasLock(op'[t]) => lock'[op[t].heap][op[t].class] = t
    BY <1>3, <1>4, <1>5, <1>6, Zenon DEF HasLock, CallStep, SameCall
  <1> QED BY <1>2, <1>3, <1>4, <1>5, <1>6, <1>7, CallQuiet

\* A call at a block of the list it holds the lock of.
LEMMA AtBlock ==
  ASSUME HeapInv, NEW t \in Threads, op[t].pc \in WalkLabels, op[t].at # None
  PROVE  /\ op[t].heap \in Heaps /\ op[t].class \in Classes
         /\ op[t].at \in Range(block_lists[op[t].heap][op[t].class]) /\ op[t].at \in Blocks
         /\ lock[op[t].heap][op[t].class] = t
         /\ meta[op[t].at] \in MetaType /\ meta[op[t].at] # None
         /\ meta[op[t].at].heap = op[t].heap /\ meta[op[t].at].class = op[t].class
         /\ ~Retired(reuse_list, op[t].at) /\ Listed(block_lists, op[t].at)
  <1> DEFINE h == op[t].heap  c == op[t].class  b == op[t].at
  <1>1. op[t].pc \in WalkLabels /\ op[t].pc \in CallLabels \cup FreeLabels
    BY DEF WalkLabels, CallLabels, FreeLabels
  <1>2. h \in Heaps /\ c \in Classes /\ b \in Range(block_lists[h][c])
    BY <1>1, WalkClass
  <1>3. HasLock(op[t])
    BY <1>1, <1>2, Sizes DEF HasLock, LockedLabels
  <1>4. lock[h][c] = t
    BY <1>3, WalkClass, Zenon
  <1>5. Lists(meta, block_lists, reuse_list)
    BY Zenon DEF HeapInv
  <1> HIDE DEF h, c, b
  <1>6. /\ b \in Blocks /\ meta[b] \in MetaType /\ meta[b] # None
        /\ meta[b].heap = h /\ meta[b].class = c
        /\ ~Retired(reuse_list, b) /\ Listed(block_lists, b)
    BY <1>2, <1>5, ListFacts
  <1> QED BY <1>2, <1>4, <1>6, Zenon DEF h, c, b

\* A block without a free slot is marked full.
LEMMA MarkFullInv ==
  ASSUME HeapInv, NEW t \in Threads, MarkFull(t)
  PROVE  HeapInv'
  <1>1. op[t].pc = "full" /\ op[t].at # None
    BY DEF MarkFull, At
  <1>2. /\ op[t].pc \in CallLabels \ {"done"} /\ op[t].pc \in CallLabels
        /\ op[t].pc \in WalkLabels
    BY <1>1 DEF CallLabels, WalkLabels
  <1>3. CallStep(op, op', t) /\ op'[t].pc = "bump" /\ op'[t].at = op[t].at
    <2>1. op' = [op EXCEPT ![t].pc = "bump"] /\ "bump" \in CallLabels
      BY DEF MarkFull, Goto, CallLabels
    <2>2. op \in [Threads -> OpType] /\ op[t] \in CallType
      BY <1>2, OpOf
    <2> QED BY <2>1, <2>2 DEF CallType, OpType, CallStep, SameCall, Others
  <1>4. KeepsLocks(t) /\ live' = live /\ UNCHANGED <<placing, counting>> /\ lock' = lock
    BY OutsideKept DEF MarkFull, OutsideBlocks, counting
  <1>5. op'[t].pc \in CallLabels \ {"done", "reuse"}
    BY <1>3 DEF CallLabels
  <1>6. /\ op[t].class \in Classes /\ op[t].at \in Range(block_lists[op[t].heap][op[t].class])
        /\ lock[op[t].heap][op[t].class] = t
    BY <1>1, <1>2, AtBlock, Zenon
  <1> QED BY <1>2, <1>3, <1>4, <1>5, <1>6, CallQuiet

\* A walk goes to the next block.
LEMMA NextBlockInv ==
  ASSUME HeapInv, NEW t \in Threads, NextBlock(t)
  PROVE  HeapInv'
  <1> DEFINE d == Following(block_lists[op[t].heap][op[t].class], op[t].at)
  <1>1. op[t].pc \in {"bump", "walk"} /\ op[t].at # None
    BY DEF NextBlock, AtBump, At
  <1>2. /\ op[t].pc \in CallLabels \ {"done"} /\ op[t].pc \in CallLabels
        /\ op[t].pc \in WalkLabels
    BY <1>1 DEF CallLabels, WalkLabels
  <1>6. /\ op[t].heap \in Heaps /\ op[t].class \in Classes
        /\ op[t].at \in Range(block_lists[op[t].heap][op[t].class])
        /\ lock[op[t].heap][op[t].class] = t
    BY <1>1, <1>2, AtBlock, Zenon
  <1>7. /\ d \in Blocks \cup {None}
        /\ d # None => d \in Range(block_lists[op[t].heap][op[t].class])
    BY <1>6, NextOfList
  <1>3. CallStep(op, op', t) /\ op'[t].pc = "walk" /\ op'[t].at = d
    <2>1. op' = [op EXCEPT ![t].pc = "walk", ![t].at = d] /\ "walk" \in CallLabels
      BY DEF NextBlock, CallLabels
    <2>2. op \in [Threads -> OpType] /\ op[t] \in CallType
      BY <1>2, OpOf
    <2> HIDE DEF d
    <2> QED BY <1>7, <2>1, <2>2 DEF CallType, OpType, CallStep, SameCall, Others
  <1>4. KeepsLocks(t) /\ live' = live /\ UNCHANGED <<placing, counting>> /\ lock' = lock
    BY OutsideKept DEF NextBlock, OutsideBlocks, counting
  <1>5. op'[t].pc \in CallLabels \ {"done", "reuse"}
    BY <1>3 DEF CallLabels
  <1> HIDE DEF d
  <1> QED BY <1>2, <1>3, <1>4, <1>5, <1>6, <1>7, CallQuiet

\* A walk ends without memory.
LEMMA ListEndsInv ==
  ASSUME HeapInv, NEW t \in Threads, ListEnds(t)
  PROVE  HeapInv'
  <1> DEFINE b == HeadOf(block_lists[op[t].heap][op[t].class])
  <1>1. op[t].pc = "walk"
    BY DEF ListEnds
  <1>2. op[t].pc \in CallLabels \ {"done"} /\ op[t].pc \in CallLabels /\ op[t].pc \in WalkLabels
    BY <1>1 DEF CallLabels, WalkLabels
  <1>3. /\ op[t].heap \in Heaps /\ op[t].class \in Classes
        /\ lock[op[t].heap][op[t].class] = t
    <2>1. op[t].heap \in Heaps /\ op[t].class \in Classes
      BY <1>2, WalkClass
    <2>2. HasLock(op[t])
      BY <1>2, <2>1, Sizes DEF HasLock, LockedLabels
    <2> QED BY <2>1, <2>2, WalkClass, Zenon
  <1>4. b \in Blocks \cup {None} /\ (b # None => b \in Range(block_lists[op[t].heap][op[t].class]))
    BY <1>3, HeadOfList
  <1>5. KeepsLocks(t) /\ live' = live /\ UNCHANGED <<placing, counting>> /\ lock' = lock
    BY OutsideKept DEF ListEnds, OutsideBlocks, counting
  <1>6. op \in [Threads -> OpType] /\ op[t] \in CallType
    BY <1>2, OpOf
  <1>7. CASE gc_policy = "failure"
    <2>1. CallStep(op, op', t) /\ op'[t].pc = "gc" /\ op'[t].at = b
      <3>1. op' = [op EXCEPT ![t].pc = "gc", ![t].at = b] /\ "gc" \in CallLabels
        BY <1>7 DEF ListEnds, CallLabels
      <3> HIDE DEF b
      <3> QED BY <1>4, <1>6, <3>1 DEF CallType, OpType, CallStep, SameCall, Others
    <2>2. op'[t].pc \in CallLabels \ {"done", "reuse"}
      BY <2>1 DEF CallLabels
    <2> HIDE DEF b
    <2> QED BY <1>2, <1>3, <1>4, <1>5, <2>1, <2>2, CallQuiet
  <1>8. CASE gc_policy # "failure"
    <2>1. CallStep(op, op', t) /\ op'[t].pc = "get"
      <3>1. op' = [op EXCEPT ![t].pc = "get"] /\ "get" \in CallLabels
        BY <1>8 DEF ListEnds, CallLabels
      <3> QED BY <1>6, <3>1 DEF CallType, OpType, CallStep, SameCall, Others
    <2>2. op'[t].pc \in CallLabels \ {"done", "reuse"} /\ op'[t].pc \notin WalkLabels \cup {"lock"}
      BY <2>1 DEF CallLabels, WalkLabels
    <2>3. op'[t].pc \notin WalkLabels
      BY <2>2
    <2> QED BY <1>2, <1>3, <1>5, <2>1, <2>2, <2>3, CallQuiet
  <1> QED BY <1>7, <1>8

\* The collection of empty blocks ends.
LEMMA GcEndsInv ==
  ASSUME HeapInv, NEW t \in Threads, GcEnds(t)
  PROVE  HeapInv'
  <1>1. op[t].pc = "gc"
    BY DEF GcEnds
  <1>2. op[t].pc \in CallLabels \ {"done"} /\ op[t].pc \in CallLabels /\ op[t].pc \in WalkLabels
    BY <1>1 DEF CallLabels, WalkLabels
  <1>3. /\ op[t].heap \in Heaps /\ op[t].class \in Classes
        /\ lock[op[t].heap][op[t].class] = t
    <2>1. op[t].heap \in Heaps /\ op[t].class \in Classes
      BY <1>2, WalkClass
    <2>2. HasLock(op[t])
      BY <1>2, <2>1, Sizes DEF HasLock, LockedLabels
    <2> QED BY <2>1, <2>2, WalkClass, Zenon
  <1>5. KeepsLocks(t) /\ live' = live /\ UNCHANGED <<placing, counting>> /\ lock' = lock
    BY KeptLocks DEF GcEnds, inside, reuse, placing, counting
  <1>6. op \in [Threads -> OpType] /\ op[t] \in CallType
    BY <1>2, OpOf
  <1>7. CallStep(op, op', t) /\ op'[t].pc = "get"
    <2>1. op' = [op EXCEPT ![t].pc = "get"] /\ "get" \in CallLabels
      BY DEF GcEnds, Goto, CallLabels
    <2> QED BY <1>6, <2>1 DEF CallType, OpType, CallStep, SameCall, Others
  <1>8. op'[t].pc \in CallLabels \ {"done", "reuse"} /\ op'[t].pc \notin WalkLabels \cup {"lock"}
    BY <1>7 DEF CallLabels, WalkLabels
  <1>9. op'[t].pc \notin WalkLabels
    BY <1>8
  <1> QED BY <1>2, <1>3, <1>5, <1>8, <1>9, <1>7, CallQuiet

---------------------------------------------------------------------------
\* After a free: counted, or idle.
LEMMA ClearFullInv ==
  ASSUME HeapInv, NEW t \in Threads, ClearFull(t)
  PROVE  HeapInv'
  <1>1. op[t].pc = "unfull"
    BY DEF ClearFull
  <1>2. op[t].pc \in FreeLabels \ {"free"} /\ op[t].pc \in FreeLabels /\ ~Holder(op[t])
    BY <1>1 DEF FreeLabels, Holder
  <1>3. op \in [Threads -> OpType] /\ op[t] \in FreeType
    BY <1>2, OpOf
  <1>4. KeepsLocks(t) /\ live' = live /\ UNCHANGED <<placing, counting>>
    BY OutsideKept DEF ClearFull, OutsideBlocks, counting
  <1>5. CASE gc_policy = "free_threshold"
    <2>1. FreeStep(op, op', t) /\ op'[t].pc = "count"
      <3>1. op' = [op EXCEPT ![t] = [op[t] EXCEPT !.pc = "count"]] /\ "count" \in FreeLabels
        BY <1>5 DEF ClearFull, AfterFree, Set, FreeLabels
      <3> QED BY <1>3, <3>1 DEF FreeType, OpType, FreeStep, Others
    <2>2. op'[t].pc \in FreeLabels \ {"free"} /\ op'[t].pc \notin {"sweep", "sweeplock"}
      BY <2>1 DEF FreeLabels
    <2> QED BY <1>2, <1>4, <2>1, <2>2, FreeQuiet
  <1>6. CASE gc_policy # "free_threshold"
    <2>1. op' = Set(op, t, Idle)
      BY <1>6 DEF ClearFull, AfterFree
    <2> QED BY <1>2, <1>4, <2>1, ToIdle
  <1> QED BY <1>5, <1>6

\* A free counts itself.
LEMMA CountInv ==
  ASSUME HeapInv, NEW t \in Threads, Count(t)
  PROVE  HeapInv'
  <1>1. op[t].pc = "count"
    BY DEF Count
  <1>2. op[t].pc \in FreeLabels \ {"free"} /\ op[t].pc \in FreeLabels /\ ~Holder(op[t])
    BY <1>1 DEF FreeLabels, Holder
  <1>3. op \in [Threads -> OpType] /\ op[t] \in FreeType
    BY <1>2, OpOf
  <1>4. KeepsLocks(t) /\ live' = live /\ UNCHANGED <<placing, counting>>
    BY KeptLocks DEF Count, inside, reuse, placing, counting
  <1>5. CASE free_count[op[t].heap] >= FreeThreshold
    <2>0. 0 \in Classes /\ 0 \in 0 .. NrClasses
      BY Geometry DEF Classes
    <2>1. FreeStep(op, op', t) /\ op'[t].pc = "sweeplock" /\ op'[t].class = 0
      <3>1. op' = [op EXCEPT ![t].pc = "sweeplock", ![t].class = 0] /\ "sweeplock" \in FreeLabels
        BY <1>5 DEF Count, FreeLabels
      <3> QED BY <1>3, <2>0, <3>1 DEF FreeType, OpType, FreeStep, Others
    <2>2. op'[t].pc \in FreeLabels \ {"free"} /\ op'[t].pc # "sweep"
      BY <2>1 DEF FreeLabels
    <2> QED BY <1>2, <1>4, <2>0, <2>1, <2>2, FreeQuiet
  <1>6. CASE ~(free_count[op[t].heap] >= FreeThreshold)
    <2>1. op' = Set(op, t, Idle)
      BY <1>6 DEF Count
    <2> QED BY <1>2, <1>4, <2>1, ToIdle
  <1> QED BY <1>5, <1>6

\* A sweep locks a list.
LEMMA SweepLockInv ==
  ASSUME HeapInv, NEW t \in Threads, SweepLock(t)
  PROVE  HeapInv'
  <1> DEFINE h == op[t].heap  c == op[t].class  b == HeadOf(block_lists[h][c])
  <1>1. op[t].pc = "sweeplock" /\ lock[h][c] = None /\ live' = live
    BY DEF SweepLock
  <1>2. op[t].pc \in FreeLabels \ {"free"} /\ op[t].pc \in FreeLabels
    BY <1>1 DEF FreeLabels
  <1>3. h \in Heaps /\ c \in Classes
    BY <1>1, <1>2, WalkClass
  <1>4. op \in [Threads -> OpType] /\ op[t] \in FreeType
    BY <1>2, OpOf
  <1>5. b \in Blocks \cup {None} /\ (b # None => b \in Range(block_lists[h][c]))
    BY <1>3, HeadOfList
  <1>6. KeepsLocks(t) /\ lock'[h][c] = t
    <2>1. lock' = [lock EXCEPT ![h][c] = t] /\ reuse_lock' = reuse_lock
      BY DEF SweepLock, reuse
    <2> QED BY <1>1, <1>3, <2>1, TakeLock
  <1>7. UNCHANGED <<placing, counting>>
    BY DEF SweepLock, inside, reuse, placing, counting
  <1>8. FreeStep(op, op', t) /\ op'[t].pc = "sweep" /\ op'[t].at = b /\ op'[t].class = c
    <2>1. op' = [op EXCEPT ![t].pc = "sweep", ![t].at = b] /\ "sweep" \in FreeLabels
      BY DEF SweepLock, FreeLabels
    <2> HIDE DEF b
    <2> QED BY <1>4, <1>5, <2>1 DEF FreeType, OpType, FreeStep, Others
  <1>9. op'[t].pc \in FreeLabels \ {"free"}
    BY <1>8 DEF FreeLabels
  <1> HIDE DEF b
  <1> QED BY <1>1, <1>2, <1>3, <1>5, <1>6, <1>7, <1>8, <1>9, FreeQuiet

\* A sweep goes on.
LEMMA SweepNextInv ==
  ASSUME HeapInv, NEW t \in Threads, SweepNext(t)
  PROVE  HeapInv'
  <1> DEFINE h == op[t].heap  c == op[t].class
  <1>1. op[t].pc = "sweep" /\ live' = live
    BY DEF SweepNext
  <1>2. /\ op[t].pc \in FreeLabels \ {"free"} /\ op[t].pc \in FreeLabels /\ ~Holder(op[t])
        /\ op[t].pc \in WalkLabels
    BY <1>1 DEF FreeLabels, Holder, WalkLabels
  <1>3. h \in Heaps /\ c \in Classes /\ lock[h][c] = t
    <2>1. h \in Heaps /\ c \in Classes
      BY <1>2, WalkClass
    <2>2. HasLock(op[t])
      BY <1>2, <2>1, Sizes DEF HasLock, LockedLabels
    <2> QED BY <2>1, <2>2, WalkClass, Zenon
  <1>4. op \in [Threads -> OpType] /\ op[t] \in FreeType
    BY <1>2, OpOf
  <1>5. KeepsLocks(t)
    <2>1. lock' = [lock EXCEPT ![h][c] = None] /\ reuse_lock' = reuse_lock
      BY DEF SweepNext, reuse
    <2> QED BY <1>3, <2>1, DropLock
  <1>6. UNCHANGED <<placing, counting>>
    BY DEF SweepNext, inside, reuse, placing, counting
  <1>7. CASE c + 1 \in Classes
    <2>0. c + 1 \in 0 .. NrClasses
      BY <1>7, Sizes
    <2>1. FreeStep(op, op', t) /\ op'[t].pc = "sweeplock" /\ op'[t].class = c + 1
      <3>1. op' = [op EXCEPT ![t].pc = "sweeplock", ![t].class = c + 1] /\ "sweeplock" \in FreeLabels
        BY <1>7 DEF SweepNext, FreeLabels
      <3> QED BY <1>4, <2>0, <3>1 DEF FreeType, OpType, FreeStep, Others
    <2>2. op'[t].pc \in FreeLabels \ {"free"} /\ op'[t].pc # "sweep"
      BY <2>1 DEF FreeLabels
    <2> QED BY <1>1, <1>2, <1>5, <1>6, <1>7, <2>1, <2>2, FreeQuiet
  <1>8. CASE c + 1 \notin Classes
    <2>1. op' = Set(op, t, Idle)
      BY <1>8 DEF SweepNext
    <2> QED BY <1>1, <1>2, <1>5, <1>6, <2>1, ToIdle
  <1> QED BY <1>7, <1>8

\* A step that hands memory over: what is held is the same.
LEMMA MoveStep ==
  ASSUME HeapInv, NEW t \in Threads, KeepsLocks(t),
         op' \in [Threads -> OpType], Others(op, op', t), Shape(op'[t]),
         Locked(op'[t], t, lock', reuse_lock'),
         OldsOK(live', op'), HeldOnce(live', op'),
         \A b : Addrs(live', op', b) = Addrs(live, op, b),
         UNCHANGED <<placing, counting>>,
         \A p \in live' : Used(meta, block_lists, reuse_list, p.block),
         Placed(op'[t], meta, block_lists, reuse_list), op'[t].pc # "reuse"
  PROVE  HeapInv'
  <1>i. /\ OpsOK(op) /\ LocksOK(op, lock, reuse_lock) /\ OldsOK(live, op) /\ HeldOnce(live, op)
        /\ Lists(meta, block_lists, reuse_list)
        /\ reuse_size \in [Heaps -> Int] /\ reuse_bytes \in Int
        /\ AllPlaced(live, op, meta, block_lists, reuse_list)
        /\ Contents(meta, slots, chunks, bump, live, op) /\ BumpsBased(block_lists, bump)
    BY Zenon DEF HeapInv
  <1>0. /\ meta' = meta /\ block_lists' = block_lists /\ reuse_list' = reuse_list
        /\ reuse_size' = reuse_size /\ reuse_bytes' = reuse_bytes
        /\ slots' = slots /\ chunks' = chunks /\ bump' = bump
    BY Zenon DEF placing, counting
  <1>1. OpsOK(op')
    BY <1>i, OpsStep, Zenon
  <1>2. LocksOK(op', lock', reuse_lock')
    <2>1. reuse_lock' \in ReuseLockType /\ \A h \in Heaps : reuse_lock'[h] = reuse_lock[h]
      BY <1>i, Zenon DEF LocksOK, KeepsLocks
    <2> QED BY <1>i, <2>1, LocksStep DEF KeepsLocks
  <1>4. AllPlaced(live', op', meta', block_lists', reuse_list')
    BY <1>i, <1>0, Zenon DEF AllPlaced, Others
  <1>5. Contents(meta', slots', chunks', bump', live', op')
    BY <1>i, <1>0, Zenon DEF Contents
  <1> QED BY <1>0, <1>i, <1>1, <1>2, <1>4, <1>5, Zenon DEF HeapInv

\* The class of a size holds it.
LEMMA ClassOfIs ==
  ASSUME NEW n \in Nat, n <= MaxBlockAlloc
  PROVE  ClassOf(n) \in Classes /\ n <= SizeOf(ClassOf(n))
  <1> DEFINE S == {c \in Classes : n <= SizeOf(c)}
  <1>1. NrClasses - 1 \in S
    BY Geometry DEF Classes, MaxBlockAlloc
  <1>2. S \in SUBSET Nat /\ S # {}
    BY <1>1, Geometry DEF Classes
  <1>3. Min(S) \in S
    BY <1>2, MinIsLeast
  <1> QED BY <1>3 DEF ClassOf

\* What no call has is not copied from.
LEMMA NotHeld ==
  ASSUME HeapInv, NEW o, ~Held(o), NEW u \in Threads, op[u].pc \in CallLabels
  PROVE  o \notin op[u].old
  <1>1. op[u] \in CallType
    BY OpOf
  <1>2. u \in Calls
    BY DEF Calls, CallLabels
  <1>3. "old" \in DOMAIN op[u]
    BY <1>1 DEF CallType
  <1> QED BY <1>2, <1>3 DEF Held

\* A call begins.
LEMMA BeginInv ==
  ASSUME HeapInv, NEW t \in Threads, op[t].pc = "idle",
         NEW n \in Requests, NEW al \in Nat \ {0}, NEW zero \in BOOLEAN,
         NEW old \in SUBSET live, \A p, r \in old : p = r, \A p \in old : ~Held(p),
         Begin(t, n, al, zero, old), live' = live,
         UNCHANGED <<lock, reuse_lock, placing, counting>>
  PROVE  HeapInv'
  <1>r. n \in Nat \ {0}
    BY MallocAssumption
  <1>o. live \subseteq ObjectType
    BY Zenon DEF HeapInv, OldsOK
  <1> DEFINE big == NeedsBig(n, zero, BigZero)
             X(h) == [pc |-> IF big THEN "get" ELSE "lock", heap |-> h,
                      class |-> IF big THEN Big ELSE ClassOf(n), n |-> n, al |-> al,
                      zero |-> zero, at |-> None, mem |-> 0, old |-> old]
  <1>1. PICK h \in Heaps : op' = Set(op, t, X(h))
    BY DEF Begin
  <1>2. /\ X(h).pc = (IF big THEN "get" ELSE "lock") /\ X(h).class = (IF big THEN Big ELSE ClassOf(n))
        /\ X(h).n = n /\ X(h).old = old /\ X(h).at = None /\ X(h).heap = h
    OBVIOUS
  <1>3. ~big => n <= MaxBlockAlloc
    <2>1. MaxBlockAlloc \in Nat
      <3>1. NrClasses - 1 \in Classes
        BY Geometry DEF Classes
      <3> QED BY <3>1, Sizes DEF MaxBlockAlloc
    <2> QED BY <1>r, <2>1 DEF NeedsBig
  <1>4. ~big => ClassOf(n) \in Classes /\ n <= SizeOf(ClassOf(n))
    BY <1>r, <1>3, ClassOfIs
  <1>5. X(h).class \in 0 .. NrClasses
    BY <1>4, Geometry DEF Big, Classes
  <1>6. X(h) \in CallType
    <2>1. X(h).pc \in CallLabels /\ old \in SUBSET ObjectType
      BY <1>o DEF CallLabels
    <2> QED BY <1>5, <2>1, <1>1 DEF CallType
  <1>7. X(h) \in OpType
    BY <1>6 DEF OpType
  <1> DEFINE x == X(h)
  <1>8. op' \in [Threads -> OpType] /\ Others(op, op', t) /\ op'[t] = x
    <2> HIDE DEF X
    <2> QED BY <1>1, <1>7, OpOf, OpSet DEF Set
  <1>9. x.pc \in {"get", "lock"} /\ (x.pc = "get" => x.class = Big)
        /\ (x.pc = "lock" => x.class \in Classes /\ x.n <= SizeOf(x.class)) /\ x.old = old
    BY <1>2, <1>4
  <1> HIDE DEF X, x
  <1>10. /\ ~Holder(x) /\ x.pc # "reuse" /\ x.pc \in CallLabels /\ x.pc \notin WalkLabels
         /\ x.pc # "sweeplock" /\ ~HasLock(x)
    BY <1>9 DEF Holder, CallLabels, WalkLabels, HasLock, LockedLabels
  <1>11. Shape(op'[t])
    BY <1>8, <1>9, <1>10 DEF Shape
  <1>12. Locked(op'[t], t, lock', reuse_lock')
    BY <1>8, <1>10, Zenon DEF Locked
  <1>13. Placed(op'[t], meta, block_lists, reuse_list)
    BY <1>8, <1>10, Zenon DEF Placed
  <1>14. OldAlone(op', t)
    <2>1. \A u \in Threads : op[u].pc \in CallLabels => \A p \in op[u].old : p \notin old
      BY NotHeld
    <2> QED BY <1>8, <1>9, <2>1, Zenon DEF OldAlone
  <1>15. ~Holder(op[t]) /\ ~Holder(op'[t]) /\ op'[t].pc # "reuse"
    BY <1>8, <1>10 DEF Holder
  <1>16. KeepsLocks(t) /\ UNCHANGED <<placing, counting>>
    BY KeptLocks
  <1> QED BY <1>8, <1>11, <1>12, <1>13, <1>14, <1>15, <1>16, QuietStep

\* A malloc begins.
LEMMA MallocInv ==
  ASSUME HeapInv, NEW t \in Threads, Malloc(t)
  PROVE  HeapInv'
  <1>1. PICK n \in Requests, al \in Aligns, zero \in BOOLEAN : Begin(t, n, al, zero, {})
    BY DEF Malloc
  <1>2. al \in Nat \ {0}
    BY MallocAssumption
  <1>3. op[t].pc = "idle" /\ live' = live /\ UNCHANGED <<lock, reuse_lock, placing, counting>>
    BY DEF Malloc, inside, reuse, placing, counting
  <1> QED BY <1>1, <1>2, <1>3, BeginInv

\* An object changes its length where it is.
LEMMA ResizeInv ==
  ASSUME HeapInv, NEW t \in Threads, NEW o \in live, NEW n \in Requests, ~Held(o),
         live' = (live \ {o}) \cup {[o EXCEPT !.n = n]}, op' = op,
         UNCHANGED <<lock, reuse_lock, placing, counting>>, op[t].pc = "idle"
  PROVE  HeapInv'
  <1>i. /\ OpsOK(op) /\ LocksOK(op, lock, reuse_lock) /\ OldsOK(live, op) /\ HeldOnce(live, op)
        /\ AllPlaced(live, op, meta, block_lists, reuse_list)
    BY Zenon DEF HeapInv
  <1> DEFINE p == [o EXCEPT !.n = n]
  <1>1. o \in ObjectType /\ n \in Nat \ {0}
    BY <1>i, MallocAssumption DEF OldsOK
  <1>2. p \in ObjectType /\ p.block = o.block /\ p.at = o.at
    BY <1>1 DEF ObjectType
  <1>3. live' = (live \ {o}) \cup {p}
    OBVIOUS
  <1> HIDE DEF p
  <1>4. OldsOK(live', op')
    <2>1. \A u \in Threads : op[u].pc \in CallLabels => o \notin op[u].old
      BY NotHeld
    <2>2. live' \subseteq ObjectType
      BY <1>i, <1>2, <1>3 DEF OldsOK
    <2>3. \A u \in Threads : op[u].pc \in CallLabels => op[u].old \subseteq live'
      BY <1>i, <1>3, <2>1 DEF OldsOK
    <2> QED BY <1>i, <2>2, <2>3, Zenon DEF OldsOK
  <1>5. \A q : q \in live' <=> (q \in live /\ q # o) \/ q = p
    BY <1>3
  <1>6. HeldOnce(live', op')
    <2>1. ASSUME NEW q \in live', NEW r \in live', q.block = r.block, q.at = r.at PROVE q = r
      <3>1. q # p /\ r # p => q = r
        BY <1>i, <1>5, <2>1, Zenon DEF HeldOnce
      <3>2. ASSUME NEW s \in live', s # p PROVE ~(s.block = p.block /\ s.at = p.at)
        BY <1>i, <1>2, <1>5, <3>2, Zenon DEF HeldOnce
      <3> QED BY <2>1, <3>1, <3>2, Zenon
    <2>2. ASSUME NEW u \in Threads, NEW q \in live', Holder(op[u])
          PROVE  ~(op[u].at = q.block /\ op[u].mem = q.at)
      BY <1>i, <1>2, <1>5, <2>2, Zenon DEF HeldOnce
    <2> QED BY <1>i, <2>1, <2>2, Zenon DEF HeldOnce
  <1>7. \A b : Addrs(live', op', b) = Addrs(live, op, b)
    <2>1. ASSUME NEW b, NEW x PROVE x \in Addrs(live', op', b) <=> x \in Addrs(live, op, b)
      <3>1. (\E q \in live' : q.block = b /\ q.at = x) <=> (\E q \in live : q.block = b /\ q.at = x)
        BY <1>2, <1>5, Zenon
      <3>2. x \in Addrs(live, op, b) <=>
              \/ \E q \in live : q.block = b /\ q.at = x
              \/ \E u \in Threads : Holder(op[u]) /\ op[u].at = b /\ op[u].mem = x
        BY InAddrs
      <3>3. x \in Addrs(live', op, b) <=>
              \/ \E q \in live' : q.block = b /\ q.at = x
              \/ \E u \in Threads : Holder(op[u]) /\ op[u].at = b /\ op[u].mem = x
        BY InAddrs
      <3> QED BY <3>1, <3>2, <3>3, Zenon
    <2> QED BY <2>1
  <1>8. \A q \in live' : Used(meta, block_lists, reuse_list, q.block)
    BY <1>i, <1>2, <1>5, Zenon DEF AllPlaced
  <1>9. KeepsLocks(t) /\ UNCHANGED <<placing, counting>>
    BY KeptLocks
  <1>10. /\ op' \in [Threads -> OpType] /\ Others(op, op', t) /\ Shape(op'[t])
         /\ Locked(op'[t], t, lock', reuse_lock') /\ Placed(op'[t], meta, block_lists, reuse_list)
    BY <1>i, Zenon DEF OpsOK, Others, LocksOK, AllPlaced
  <1> QED BY <1>4, <1>6, <1>7, <1>8, <1>9, <1>10, MoveStep

\* A realloc is done in place or begins.
LEMMA ReallocInv ==
  ASSUME HeapInv, NEW t \in Threads, Realloc(t)
  PROVE  HeapInv'
  <1>1. PICK o \in live, n \in Requests :
          /\ ~Held(o)
          /\ \/ live' = (live \ {o}) \cup {[o EXCEPT !.n = n]} /\ op' = op
             \/ Begin(t, n, 1, FALSE, {o}) /\ live' = live
    BY DEF Realloc
  <1>2. op[t].pc = "idle" /\ UNCHANGED <<lock, reuse_lock, placing, counting>>
    BY DEF Realloc, reuse, placing, counting
  <1>3. CASE Begin(t, n, 1, FALSE, {o}) /\ live' = live
    <2>1. {o} \in SUBSET live /\ (\A p, r \in {o} : p = r) /\ (\A p \in {o} : ~Held(p))
      BY <1>1
    <2>2. 1 \in Nat \ {0} /\ FALSE \in BOOLEAN
      OBVIOUS
    <2> QED BY <1>2, <1>3, <2>1, <2>2, BeginInv
  <1> QED BY <1>1, <1>2, <1>3, ResizeInv

\* A block in use has its record.
LEMMA UsedIs ==
  ASSUME HeapInv, NEW b \in Blocks, Used(meta, block_lists, reuse_list, b)
  PROVE  meta[b] # None /\ meta[b] \in MetaType
  <1>1. meta \in [Blocks -> MetaType \cup {None}]
    BY Zenon DEF HeapInv, Lists
  <1> QED BY <1>1 DEF Used

\* What begins to free an object.
LEMMA FreeOfIs ==
  ASSUME HeapInv, NEW o \in live
  PROVE  LET x == FreeOf(o) IN
         /\ o \in ObjectType /\ x \in OpType /\ Shape(x) /\ Placed(x, meta, block_lists, reuse_list)
         /\ x.pc = "free" /\ x.at = o.block /\ x.mem = o.at
         /\ Holder(x) /\ ~HasLock(x) /\ x.pc # "reuse" /\ x.pc \notin CallLabels
  <1> DEFINE x == FreeOf(o)
  <1>1. o \in ObjectType /\ Used(meta, block_lists, reuse_list, o.block)
    BY Zenon DEF HeapInv, OldsOK, AllPlaced
  <1>2. o.block \in Blocks /\ o.at \in Nat
    BY <1>1 DEF ObjectType
  <1>3. meta[o.block] \in MetaType
    BY <1>1, <1>2, UsedIs
  <1>4. /\ x.pc = "free" /\ x.at = o.block /\ x.mem = o.at /\ x.heap = meta[o.block].heap
        /\ x.class = meta[o.block].class
    BY DEF FreeOf
  <1>5. x \in FreeType
    BY <1>2, <1>3 DEF FreeOf, FreeType, MetaType, FreeLabels
  <1>6. x \in OpType
    BY <1>5 DEF OpType
  <1> HIDE DEF x
  <1>7. Holder(x) /\ ~HasLock(x) /\ x.pc # "reuse" /\ x.pc \notin CallLabels
        /\ x.pc \notin WalkLabels /\ x.pc \notin {"lock", "sweeplock"}
    BY <1>4 DEF Holder, HasLock, LockedLabels, WalkLabels, CallLabels
  <1>8. Shape(x)
    BY <1>2, <1>4, <1>7 DEF Shape
  <1>9. Placed(x, meta, block_lists, reuse_list)
    BY <1>1, <1>4, <1>7, Zenon DEF Placed
  <1> QED BY <1>1, <1>4, <1>6, <1>7, <1>8, <1>9 DEF x

\* A free begins.
LEMMA FreeInv ==
  ASSUME HeapInv, NEW t \in Threads, Free(t)
  PROVE  HeapInv'
  <1>i. /\ OpsOK(op) /\ LocksOK(op, lock, reuse_lock) /\ OldsOK(live, op) /\ HeldOnce(live, op)
        /\ AllPlaced(live, op, meta, block_lists, reuse_list)
    BY Zenon DEF HeapInv
  <1>1. PICK o \in live : ~Held(o) /\ live' = live \ {o} /\ op' = Set(op, t, FreeOf(o))
    BY DEF Free
  <1>2. op[t].pc = "idle" /\ UNCHANGED <<lock, reuse_lock, placing, counting>>
    BY DEF Free, inside, reuse, placing, counting
  <1> DEFINE x == FreeOf(o)
  <1>3. /\ o \in ObjectType /\ x \in OpType /\ Shape(x) /\ Placed(x, meta, block_lists, reuse_list)
        /\ x.pc = "free" /\ x.at = o.block /\ x.mem = o.at
        /\ Holder(x) /\ ~HasLock(x) /\ x.pc # "reuse" /\ x.pc \notin CallLabels
    BY FreeOfIs
  <1>4. op' \in [Threads -> OpType] /\ Others(op, op', t) /\ op'[t] = x
    <2> HIDE DEF x
    <2>1. op' = [op EXCEPT ![t] = x]
      BY <1>1 DEF Set, x
    <2> QED BY <2>1, <1>3, OpOf, OpSet
  <1> HIDE DEF x
  <1>5. \A q : q \in live' <=> q \in live /\ q # o
    BY <1>1
  <1>6. ~Holder(op[t])
    BY <1>2 DEF Holder
  <1>7. OldsOK(live', op')
    <2>1. \A u \in Threads : op[u].pc \in CallLabels => o \notin op[u].old
      BY <1>1, NotHeld
    <2>2. live' \subseteq ObjectType
      BY <1>i, <1>1 DEF OldsOK
    <2>3. \A u \in Threads : op[u].pc \in CallLabels => op[u].old \subseteq live'
      BY <1>i, <1>1, <2>1 DEF OldsOK
    <2> QED BY <1>i, <1>3, <1>4, <2>2, <2>3, Zenon DEF OldsOK, Others
  <1>8. HeldOnce(live', op')
    <2>1. \A p, q \in live' : p.block = q.block /\ p.at = q.at => p = q
      BY <1>i, <1>5, Zenon DEF HeldOnce
    <2>2. ASSUME NEW u \in Threads, u # t, Holder(op[u]) PROVE ~(op[u].at = x.at /\ op[u].mem = x.mem)
      BY <1>i, <1>3, <2>2, Zenon DEF HeldOnce
    <2>3. \A u, v \in Threads : Holder(op'[u]) /\ Holder(op'[v]) /\ op'[u].at = op'[v].at
                                  /\ op'[u].mem = op'[v].mem => u = v
      BY <1>i, <1>4, <2>2, Zenon DEF HeldOnce, Others
    <2>4. ASSUME NEW p \in live' PROVE ~(x.at = p.block /\ x.mem = p.at)
      BY <1>i, <1>3, <1>5, <2>4, Zenon DEF HeldOnce
    <2>5. \A u \in Threads, p \in live' : Holder(op'[u]) => ~(op'[u].at = p.block /\ op'[u].mem = p.at)
      BY <1>i, <1>4, <1>5, <2>4, Zenon DEF HeldOnce, Others
    <2> QED BY <2>1, <2>3, <2>5, Zenon DEF HeldOnce
  <1>9. \A b : Addrs(live', op', b) = Addrs(live, op, b)
    <2>1. ASSUME NEW b PROVE Addrs(live', op', b) = Addrs(live, op, b)
      <3>1. ASSUME NEW a PROVE a \in Addrs(live', op', b) <=> a \in Addrs(live, op, b)
      <4>1. a \in Addrs(live, op, b) <=>
              \/ \E q \in live : q.block = b /\ q.at = a
              \/ \E u \in Threads : Holder(op[u]) /\ op[u].at = b /\ op[u].mem = a
        BY InAddrs
      <4>2. a \in Addrs(live', op', b) <=>
              \/ \E q \in live' : q.block = b /\ q.at = a
              \/ \E u \in Threads : Holder(op'[u]) /\ op'[u].at = b /\ op'[u].mem = a
        BY InAddrs
      <4>3. (\E q \in live : q.block = b /\ q.at = a)
              <=> (\E q \in live' : q.block = b /\ q.at = a) \/ (x.at = b /\ x.mem = a)
        BY <1>1, <1>3, <1>5, Zenon
      <4>4. (\E u \in Threads : Holder(op'[u]) /\ op'[u].at = b /\ op'[u].mem = a)
              <=> \/ \E u \in Threads : Holder(op[u]) /\ op[u].at = b /\ op[u].mem = a
                  \/ x.at = b /\ x.mem = a
        BY <1>3, <1>4, <1>6, Zenon DEF Others
      <4> QED BY <4>1, <4>2, <4>3, <4>4, Zenon
      <3> QED BY <3>1, Zenon
    <2> QED BY <2>1
  <1>10. \A q \in live' : Used(meta, block_lists, reuse_list, q.block)
    BY <1>i, <1>5, Zenon DEF AllPlaced
  <1>11. KeepsLocks(t) /\ UNCHANGED <<placing, counting>>
    BY <1>2, KeptLocks
  <1>12. /\ Shape(op'[t]) /\ Locked(op'[t], t, lock', reuse_lock')
         /\ Placed(op'[t], meta, block_lists, reuse_list) /\ op'[t].pc # "reuse"
    BY <1>3, <1>4, Zenon DEF Locked
  <1> QED BY <1>4, <1>7, <1>8, <1>9, <1>10, <1>11, <1>12, MoveStep

\* The lock of the list is let go with the memory.
LEMMA ReturnUnlocks ==
  ASSUME HeapInv, NEW t \in Threads, op[t].pc = "done", lock' = Unlocked(t), reuse_lock' = reuse_lock
  PROVE  KeepsLocks(t)
  <1>1. op[t].pc \in CallLabels \cup FreeLabels
    BY DEF CallLabels
  <1>2. op[t].heap \in Heaps /\ op[t].class \in 0 .. NrClasses
    BY <1>1, WalkClass
  <1>3. CASE op[t].class = Big
    <2>1. lock' = lock
      BY <1>3 DEF Unlocked
    <2> QED BY <2>1, KeptLocks
  <1>4. CASE op[t].class # Big
    <2>1. op[t].class \in Classes
      BY <1>2, <1>4, Geometry DEF Big, Classes
    <2>2. HasLock(op[t])
      BY <1>4 DEF HasLock, LockedLabels
    <2>3. lock[op[t].heap][op[t].class] = t
      BY <2>2, WalkClass, Zenon
    <2>4. lock' = [lock EXCEPT ![op[t].heap][op[t].class] = None]
      BY <1>4 DEF Unlocked
    <2> QED BY <1>2, <2>1, <2>3, <2>4, DropLock
  <1> QED BY <1>3, <1>4

\* A call returns with its memory.
LEMMA ReturnInv ==
  ASSUME HeapInv, NEW t \in Threads, Return(t)
  PROVE  HeapInv'
  <1>i. /\ OpsOK(op) /\ LocksOK(op, lock, reuse_lock) /\ OldsOK(live, op) /\ HeldOnce(live, op)
        /\ AllPlaced(live, op, meta, block_lists, reuse_list)
    BY Zenon DEF HeapInv
  <1>1. /\ op[t].pc = "done" /\ op[t].pc \in CallLabels /\ Holder(op[t])
        /\ lock' = Unlocked(t) /\ reuse_lock' = reuse_lock /\ UNCHANGED <<placing, counting>>
    BY DEF Return, CallLabels, Holder, reuse, placing, counting
  <1>2. PICK clean \in BOOLEAN :
          live' = (live \ op[t].old) \cup
                    {[block |-> op[t].at, at |-> op[t].mem, n |-> op[t].n, by |-> t,
                      zero |-> op[t].zero, clean |-> clean]}
    BY DEF Return, Cleared
  <1> DEFINE new == [block |-> op[t].at, at |-> op[t].mem, n |-> op[t].n, by |-> t,
                     zero |-> op[t].zero, clean |-> clean]
             old == op[t].old
  <1>3. op[t] \in CallType /\ op[t].at \in Blocks
    <2>1. op[t] \in CallType /\ Shape(op[t])
      BY <1>1, OpOf
    <2> QED BY <1>1, <2>1, Zenon DEF Shape
  <1>4. new \in ObjectType /\ new.block = op[t].at /\ new.at = op[t].mem
    <2>1. op[t].mem \in Nat /\ op[t].n \in Nat \ {0} /\ op[t].zero \in BOOLEAN
      BY <1>3, MallocAssumption DEF CallType
    <2> QED BY <1>3, <2>1 DEF ObjectType
  <1>5. live' = (live \ old) \cup {new}
    BY <1>2
  <1>6. op' = Set(op, t, IF old = {} THEN Idle ELSE FreeOf(CHOOSE o \in old : TRUE))
    BY DEF Return
  <1>7. old \subseteq live /\ (\A p, q \in old : p = q)
        /\ \A u \in Threads : u # t /\ op[u].pc \in CallLabels => \A p \in op[u].old : p \notin old
    BY <1>i, <1>1, Zenon DEF OldsOK
  <1>8. Placed(op[t], meta, block_lists, reuse_list)
    BY <1>i, Zenon DEF AllPlaced
  <1> HIDE DEF new, old
  <1>9. \A q : q \in live' <=> (q \in live /\ q \notin old) \/ q = new
    BY <1>5
  \* The call frees what it copied from, or ends.
  <1>10. \E x \in OpType :
           /\ op' = Set(op, t, x) /\ Shape(x) /\ Placed(x, meta, block_lists, reuse_list)
           /\ ~HasLock(x) /\ x.pc # "reuse" /\ x.pc \notin CallLabels
           /\ \A b, a : Holder(x) /\ x.at = b /\ x.mem = a
                          <=> \E o \in old : o.block = b /\ o.at = a
    <2>1. CASE old = {}
      <3>1. Idle \in OpType /\ op' = Set(op, t, Idle) /\ Idle.pc = "idle"
        BY <1>6, <2>1 DEF OpType, Idle
      <3>2. /\ ~Holder(Idle) /\ Idle.pc \notin CallLabels /\ Idle.pc \notin WalkLabels
            /\ Idle.pc # "reuse" /\ Idle.pc # "lock" /\ Idle.pc # "sweeplock" /\ ~HasLock(Idle)
        BY <3>1 DEF Holder, CallLabels, WalkLabels, LockedLabels, HasLock
      <3>3. Shape(Idle)
        BY <3>2, Zenon DEF Shape
      <3>4. Placed(Idle, meta, block_lists, reuse_list)
        BY <3>2, Zenon DEF Placed
      <3>5. \A b, a : Holder(Idle) /\ Idle.at = b /\ Idle.mem = a
                        <=> \E o \in old : o.block = b /\ o.at = a
        BY <2>1, <3>2
      <3> QED BY <3>1, <3>2, <3>3, <3>4, <3>5
    <2>2. CASE old # {}
      <3>1. PICK o \in old : op' = Set(op, t, FreeOf(o))
        BY <1>6, <2>2
      <3>2. o \in live /\ \A p \in old : p = o
        BY <1>7
      <3> DEFINE x == FreeOf(o)
      <3>3. /\ x \in OpType /\ Shape(x) /\ Placed(x, meta, block_lists, reuse_list)
            /\ x.at = o.block /\ x.mem = o.at
            /\ Holder(x) /\ ~HasLock(x) /\ x.pc # "reuse" /\ x.pc \notin CallLabels
        BY <3>2, FreeOfIs
      <3> HIDE DEF x
      <3>4. \A b, a : Holder(x) /\ x.at = b /\ x.mem = a <=> \E p \in old : p.block = b /\ p.at = a
        BY <3>1, <3>2, <3>3, Zenon
      <3>5. op' = Set(op, t, x)
        BY <3>1 DEF x
      <3> QED BY <3>3, <3>4, <3>5
    <2> QED BY <2>1, <2>2
  <1>11. PICK x \in OpType :
           /\ op' = Set(op, t, x) /\ Shape(x) /\ Placed(x, meta, block_lists, reuse_list)
           /\ ~HasLock(x) /\ x.pc # "reuse" /\ x.pc \notin CallLabels
           /\ \A b, a : Holder(x) /\ x.at = b /\ x.mem = a
                          <=> \E o \in old : o.block = b /\ o.at = a
    BY <1>10
  <1>12. op' \in [Threads -> OpType] /\ Others(op, op', t) /\ op'[t] = x
    BY <1>11, OpOf, OpSet DEF Set
  <1>13. OldsOK(live', op')
    <2>1. live' \subseteq ObjectType
      BY <1>i, <1>4, <1>5 DEF OldsOK
    <2>2. \A u \in Threads : u # t /\ op[u].pc \in CallLabels => op[u].old \subseteq live'
      BY <1>i, <1>7, <1>9, Zenon DEF OldsOK
    <2>3. op'[t].pc \notin CallLabels
      BY <1>11, <1>12, Zenon
    <2>4. \A u \in Threads : op'[u].pc \in CallLabels => u # t /\ op'[u] = op[u]
      BY <1>12, <2>3, Zenon DEF Others
    <2>5. \A u \in Threads : op'[u].pc \in CallLabels =>
            op'[u].old \subseteq live' /\ \A p, q \in op'[u].old : p = q
      BY <1>i, <2>2, <2>4, Zenon DEF OldsOK
    <2>6. \A u, v \in Threads : op'[u].pc \in CallLabels /\ op'[v].pc \in CallLabels /\ u # v =>
            \A p \in op'[u].old : p \notin op'[v].old
      BY <1>i, <2>4, Zenon DEF OldsOK
    <2> QED BY <2>1, <2>5, <2>6, Zenon DEF OldsOK
  <1>14. HeldOnce(live', op')
    <2>1. ASSUME NEW p \in live, p \notin old PROVE ~(p.block = new.block /\ p.at = new.at)
      BY <1>i, <1>1, <1>4, <2>1, Zenon DEF HeldOnce
    <2>2. \A p, q \in live' : p.block = q.block /\ p.at = q.at => p = q
      BY <1>i, <1>9, <2>1, Zenon DEF HeldOnce
    <2>3. ASSUME NEW u \in Threads, u # t, Holder(op[u]) PROVE ~(op[u].at = new.block /\ op[u].mem = new.at)
      BY <1>i, <1>1, <1>4, <2>3, Zenon DEF HeldOnce
    <2>4. ASSUME Holder(x), NEW u \in Threads, u # t, Holder(op[u]) PROVE ~(op[u].at = x.at /\ op[u].mem = x.mem)
      <3>1. PICK o \in old : o.block = x.at /\ o.at = x.mem
        BY <1>11, <2>4, Zenon
      <3> QED BY <1>i, <1>7, <2>4, <3>1, Zenon DEF HeldOnce
    <2>5. ASSUME Holder(x), NEW p \in live' PROVE ~(x.at = p.block /\ x.mem = p.at)
      <3>1. PICK o \in old : o.block = x.at /\ o.at = x.mem
        BY <1>11, <2>5, Zenon
      <3>2. o \in live
        BY <1>7
      <3>3. p # new => p \in live /\ p \notin old
        BY <1>9
      <3>4. ~(new.block = o.block /\ new.at = o.at)
        BY <1>i, <1>1, <1>4, <3>2, Zenon DEF HeldOnce
      <3> QED BY <1>i, <3>1, <3>2, <3>3, <3>4, Zenon DEF HeldOnce
    <2>6. \A u, v \in Threads : Holder(op'[u]) /\ Holder(op'[v]) /\ op'[u].at = op'[v].at
                                  /\ op'[u].mem = op'[v].mem => u = v
      BY <1>i, <1>12, <2>4, Zenon DEF HeldOnce, Others
    <2>7. ASSUME NEW u \in Threads, NEW p \in live', Holder(op'[u])
          PROVE  ~(op'[u].at = p.block /\ op'[u].mem = p.at)
      <3>1. CASE u = t
        BY <1>12, <2>5, <2>7, <3>1, Zenon
      <3>2. CASE u # t
        <4>1. op'[u] = op[u]
          BY <1>12, <3>2, Zenon DEF Others
        <4>2. CASE p = new
          BY <2>3, <2>7, <3>2, <4>1, <4>2, Zenon
        <4>3. CASE p \in live
          BY <1>i, <2>7, <4>1, <4>3, Zenon DEF HeldOnce
        <4> QED BY <1>9, <4>2, <4>3, Zenon
      <3> QED BY <3>1, <3>2
    <2> QED BY <2>2, <2>6, <2>7, Zenon DEF HeldOnce
  <1>15. \A b : Addrs(live', op', b) = Addrs(live, op, b)
    <2>1. ASSUME NEW b, NEW a PROVE a \in Addrs(live', op', b) <=> a \in Addrs(live, op, b)
      <3>1. a \in Addrs(live, op, b) <=>
              \/ \E q \in live : q.block = b /\ q.at = a
              \/ \E u \in Threads : Holder(op[u]) /\ op[u].at = b /\ op[u].mem = a
        BY InAddrs
      <3>2. a \in Addrs(live', op', b) <=>
              \/ \E q \in live' : q.block = b /\ q.at = a
              \/ \E u \in Threads : Holder(op'[u]) /\ op'[u].at = b /\ op'[u].mem = a
        BY InAddrs
      <3> DEFINE N == new.block = b /\ new.at = a
                 P == \E q \in live : q \notin old /\ q.block = b /\ q.at = a
                 Q == \E q \in old : q.block = b /\ q.at = a
                 U == \E u \in Threads : u # t /\ Holder(op[u]) /\ op[u].at = b /\ op[u].mem = a
      <3>3. (\E q \in live : q.block = b /\ q.at = a) <=> P \/ Q
        BY <1>7, Zenon
      <3>4. (\E q \in live' : q.block = b /\ q.at = a) <=> P \/ N
        BY <1>9, Zenon
      <3>5. (\E u \in Threads : Holder(op'[u]) /\ op'[u].at = b /\ op'[u].mem = a) <=> U \/ Q
        <4>1. Holder(op'[t]) /\ op'[t].at = b /\ op'[t].mem = a <=> Q
          BY <1>11, <1>12, Zenon
        <4> HIDE DEF Q
        <4> QED BY <1>12, <4>1, Zenon DEF Others
      <3>6. (\E u \in Threads : Holder(op[u]) /\ op[u].at = b /\ op[u].mem = a) <=> U \/ N
        BY <1>1, <1>4, Zenon
      <3> HIDE DEF N, P, Q, U
      <3> QED BY <3>1, <3>2, <3>3, <3>4, <3>5, <3>6, Zenon
    <2> QED BY <2>1
  <1>16. \A q \in live' : Used(meta, block_lists, reuse_list, q.block)
    <2>1. Used(meta, block_lists, reuse_list, new.block)
      BY <1>1, <1>4, <1>8, Zenon DEF Placed
    <2> QED BY <1>i, <1>9, <2>1, Zenon DEF AllPlaced
  <1>17. KeepsLocks(t)
    BY <1>1, ReturnUnlocks
  <1>18. /\ Shape(op'[t]) /\ Locked(op'[t], t, lock', reuse_lock')
         /\ Placed(op'[t], meta, block_lists, reuse_list) /\ op'[t].pc # "reuse"
    BY <1>11, <1>12, Zenon DEF Locked
  <1> QED BY <1>1, <1>12, <1>13, <1>14, <1>15, <1>16, <1>17, <1>18, MoveStep

\* What is counted in the block a call is at.
LEMMA AtCounts ==
  ASSUME HeapInv, NEW t \in Threads, op[t].pc \in WalkLabels, op[t].pc \in CallLabels, op[t].at # None
  PROVE  LET b == op[t].at  class == op[t].class  A == Addrs(live, op, b) IN
         /\ class \in Classes /\ b \in Blocks /\ meta[b].class = class
         /\ op[t].n \in Nat \ {0} /\ op[t].al \in Nat \ {0}
         /\ A \in SUBSET Nat /\ IsFiniteSet(A)
         /\ BlockMatch(class, slots[b], chunks[b], bump[b], A)
         /\ BumpBase(class) <= bump[b].at
  <1> DEFINE b == op[t].at  class == op[t].class  h == op[t].heap
  <1>1. /\ h \in Heaps /\ class \in Classes /\ b \in Range(block_lists[h][class]) /\ b \in Blocks
        /\ meta[b] # None /\ meta[b].class = class
    BY AtBlock, Zenon
  <1>2. op[t] \in CallType
    BY OpOf
  <1>3. op[t].n \in Nat \ {0} /\ op[t].al \in Nat \ {0}
    BY <1>2, MallocAssumption DEF CallType
  <1> HIDE DEF b, class, h
  <1>4. BlockOK(meta[b], slots[b], chunks[b], bump[b], Addrs(live, op, b))
    BY <1>1, Zenon DEF HeapInv, Contents
  <1>5. class # Big
    BY <1>1, Sizes
  <1>6. /\ Addrs(live, op, b) \in SUBSET Nat /\ IsFiniteSet(Addrs(live, op, b))
        /\ BlockMatch(class, slots[b], chunks[b], bump[b], Addrs(live, op, b))
    BY <1>1, <1>4, <1>5, Zenon DEF BlockOK
  <1>7. BumpBase(class) <= bump[b].at
    BY <1>1, Zenon DEF HeapInv, BumpsBased
  <1> QED BY <1>1, <1>3, <1>6, <1>7, Zenon DEF b, class

\* A call takes memory in the block it is at.
LEMMA TakeAt ==
  ASSUME HeapInv, NEW t \in Threads, op[t].pc \in WalkLabels, op[t].pc \in CallLabels, op[t].at # None,
         UNCHANGED OutsideBlocks, NEW u \in Nat, Got(t, u),
         u \notin Addrs(live, op, op[t].at), CountsAt(op[t].at, Addrs(live, op, op[t].at) \cup {u})
  PROVE  HeapInv'
  <1> DEFINE b == op[t].at  class == op[t].class  h == op[t].heap
  <1>1. /\ h \in Heaps /\ class \in Classes /\ b \in Range(block_lists[h][class]) /\ b \in Blocks
        /\ lock[h][class] = t
        /\ meta[b] # None /\ meta[b].heap = h /\ meta[b].class = class
        /\ ~Retired(reuse_list, b) /\ Listed(block_lists, b)
    BY AtBlock, Zenon
  <1>2. op \in [Threads -> OpType] /\ op[t] \in CallType /\ op[t].pc \in CallLabels /\ Shape(op[t])
    BY OpOf
  <1>3. op' = [op EXCEPT ![t].pc = "done", ![t].mem = u] /\ "done" \in CallLabels
    BY DEF Got, CallLabels
  <1>4. CallStep(op, op', t) /\ op'[t].pc = "done" /\ op'[t].at = b /\ op'[t].mem = u
    BY <1>2, <1>3 DEF CallType, OpType, CallStep, SameCall, Others
  <1> HIDE DEF b, class, h
  <1>5. /\ op' \in [Threads -> OpType] /\ Others(op, op', t)
        /\ op'[t].heap = h /\ op'[t].class = class /\ op'[t].n = op[t].n /\ op'[t].old = op[t].old
    BY <1>4, Zenon DEF CallStep, SameCall, b, class, h
  <1>6. class # Big => op[t].n <= SizeOf(class)
    BY <1>2, Zenon DEF Shape, class
  <1>7. /\ op'[t].pc \notin WalkLabels \cup {"lock", "sweeplock"} /\ op'[t].pc \notin WalkLabels
        /\ Holder(op'[t]) /\ op'[t].pc # "reuse" /\ ~Holder(op[t])
    BY <1>4 DEF WalkLabels, Holder
  <1>8. Shape(op'[t])
    BY <1>1, <1>4, <1>5, <1>6, <1>7, Zenon DEF Shape
  <1>9. KeepsLocks(t) /\ live' = live /\ UNCHANGED placing /\ lock' = lock
    BY OutsideKept DEF OutsideBlocks
  <1>10. Locked(op'[t], t, lock', reuse_lock')
    BY <1>1, <1>5, <1>7, <1>9, Zenon DEF Locked
  <1>11. Placed(op'[t], meta, block_lists, reuse_list)
    BY <1>1, <1>4, <1>5, <1>7, Zenon DEF Placed, Used
  <1>12. OldAlone(op', t)
    BY <1>2, <1>5, OldKept
  <1>13. /\ b = op'[t].at /\ b \in Range(block_lists[op'[t].heap][op'[t].class])
         /\ op'[t].heap \in Heaps /\ op'[t].class \in Classes
         /\ op'[t].mem \in Nat /\ op'[t].mem \notin Addrs(live, op, b)
         /\ CountsAt(b, Addrs(live, op, b) \cup {op'[t].mem})
    BY <1>1, <1>4, <1>5, Zenon DEF b
  <1> QED BY <1>1, <1>5, <1>7, <1>8, <1>9, <1>10, <1>11, <1>12, <1>13, TakeStep

\* The contents of the blocks are functions of them.
LEMMA AllOfBlocks ==
  ASSUME HeapInv
  PROVE  OfBlocks(slots) /\ OfBlocks(chunks) /\ OfBlocks(bump)
  BY Zenon DEF HeapInv, Contents

\* A call takes a slot.
LEMMA AllocSlotInv ==
  ASSUME HeapInv, NEW t \in Threads, AllocSlot(t)
  PROVE  HeapInv'
  <1> DEFINE b == op[t].at  class == op[t].class  A == Addrs(live, op, b)
             u == SlotStart(class, NextSlot(slots[b]))
  <1>1. /\ op[t].pc \in WalkLabels /\ op[t].pc \in CallLabels /\ b # None /\ slots[b].n # SlotsOf(class)
        /\ slots' = [slots EXCEPT ![b] = TakeSlot(slots[b])] /\ chunks' = chunks /\ bump' = bump
        /\ Got(t, u) /\ UNCHANGED OutsideBlocks
    BY DEF AllocSlot, At, HasSlot, WalkLabels, CallLabels
  <1>2. /\ class \in Classes /\ b \in Blocks /\ meta[b].class = class
        /\ A \in SUBSET Nat
        /\ BlockMatch(class, slots[b], chunks[b], bump[b], A)
        /\ BumpBase(class) <= bump[b].at
    BY <1>1, AtCounts, Zenon
  <1> HIDE DEF b, class, A
  <1>3. u \in Nat /\ u \notin A /\ BlockMatch(class, TakeSlot(slots[b]), chunks[b], bump[b], A \cup {u})
    BY <1>1, <1>2, TakeSlotMatch
  <1> HIDE DEF u
  <1>4. OfBlocks(slots) /\ OfBlocks(chunks) /\ OfBlocks(bump)
    BY AllOfBlocks
  <1>5. OfBlocks(slots') /\ slots'[b] = TakeSlot(slots[b]) /\ \A x \in Blocks : x # b => slots'[x] = slots[x]
    BY <1>1, <1>2, <1>4 DEF OfBlocks
  <1>6. CountsAt(b, A \cup {u})
    BY <1>1, <1>2, <1>3, <1>4, <1>5, Zenon DEF CountsAt
  <1> QED BY <1>1, <1>3, <1>6, TakeAt DEF b, A

\* A call takes a chunk.
LEMMA AllocChunkInv ==
  ASSUME HeapInv, NEW t \in Threads, AllocChunk(t)
  PROVE  HeapInv'
  <1> DEFINE b == op[t].at  class == op[t].class  A == Addrs(live, op, b)
             n == op[t].n  al == op[t].al  c == Min(Fitting(chunks[b], n, al, class))
             u == ChunkStart(c, al, class)
  <1>1. /\ op[t].pc \in WalkLabels /\ op[t].pc \in CallLabels /\ b # None
        /\ Fitting(chunks[b], n, al, class) # {}
        /\ chunks' = [chunks EXCEPT ![b] = TakeChunk(chunks[b], c, u)] /\ slots' = slots /\ bump' = bump
        /\ Got(t, u) /\ UNCHANGED OutsideBlocks
    BY DEF AllocChunk, At, Chunks, WalkLabels, CallLabels
  <1>2. /\ class \in Classes /\ b \in Blocks /\ meta[b].class = class
        /\ n \in Nat \ {0} /\ al \in Nat \ {0} /\ A \in SUBSET Nat
        /\ BlockMatch(class, slots[b], chunks[b], bump[b], A)
        /\ BumpBase(class) <= bump[b].at
    BY <1>1, AtCounts, Zenon
  <1> HIDE DEF b, class, A, n, al
  <1>3. c \in Fitting(chunks[b], n, al, class)
    <2>1. DOMAIN chunks[b] \subseteq 1 .. ChunkEnd - 1
      BY <1>2, Zenon DEF BlockMatch, ChunksMatch
    <2>2. Fitting(chunks[b], n, al, class) \in SUBSET Nat
      BY <2>1, Geometry DEF Fitting
    <2> QED BY <1>1, <2>2, MinIsLeast
  <1> HIDE DEF c
  <1>4. u \in Nat /\ u \notin A /\ BlockMatch(class, slots[b], TakeChunk(chunks[b], c, u), bump[b], A \cup {u})
    BY <1>2, <1>3, TakeChunkMatch
  <1> HIDE DEF u
  <1>5. OfBlocks(slots) /\ OfBlocks(chunks) /\ OfBlocks(bump)
    BY AllOfBlocks
  <1>6. OfBlocks(chunks') /\ chunks'[b] = TakeChunk(chunks[b], c, u)
        /\ \A x \in Blocks : x # b => chunks'[x] = chunks[x]
    BY <1>1, <1>2, <1>5 DEF OfBlocks
  <1>7. CountsAt(b, A \cup {u})
    BY <1>1, <1>2, <1>4, <1>5, <1>6, Zenon DEF CountsAt
  <1> QED BY <1>1, <1>4, <1>7, TakeAt DEF b, A

\* A call takes bump memory.
LEMMA AllocBumpInv ==
  ASSUME HeapInv, NEW t \in Threads, AllocBump(t)
  PROVE  HeapInv'
  <1> DEFINE b == op[t].at  class == op[t].class  A == Addrs(live, op, b)
             n == op[t].n  al == op[t].al  u == BumpStart(bump[b], al)
  <1>1. /\ op[t].pc \in WalkLabels /\ op[t].pc \in CallLabels /\ b # None
        /\ bump' = [bump EXCEPT ![b] = TakeBump(bump[b], n, al)] /\ slots' = slots /\ chunks' = chunks
        /\ Got(t, u) /\ UNCHANGED OutsideBlocks
    BY DEF AllocBump, AtBump, At, WalkLabels, CallLabels
  <1>2. /\ class \in Classes /\ b \in Blocks /\ meta[b].class = class
        /\ n \in Nat \ {0} /\ al \in Nat \ {0} /\ A \in SUBSET Nat /\ IsFiniteSet(A)
        /\ BlockMatch(class, slots[b], chunks[b], bump[b], A)
        /\ BumpBase(class) <= bump[b].at
    BY <1>1, AtCounts, Zenon
  <1> HIDE DEF b, class, A, n, al
  <1>4. /\ u \in Nat /\ u \notin A /\ BlockMatch(class, slots[b], chunks[b], TakeBump(bump[b], n, al), A \cup {u})
        /\ BumpBase(class) <= TakeBump(bump[b], n, al).at
    BY <1>2, TakeBumpMatch
  <1> HIDE DEF u
  <1>5. OfBlocks(slots) /\ OfBlocks(chunks) /\ OfBlocks(bump)
    BY AllOfBlocks
  <1>6. OfBlocks(bump') /\ bump'[b] = TakeBump(bump[b], n, al)
        /\ \A x \in Blocks : x # b => bump'[x] = bump[x]
    BY <1>1, <1>2, <1>5 DEF OfBlocks
  <1>7. CountsAt(b, A \cup {u})
    BY <1>1, <1>2, <1>4, <1>5, <1>6, Zenon DEF CountsAt
  <1> QED BY <1>1, <1>4, <1>7, TakeAt DEF b, A

---------------------------------------------------------------------------
\* What is counted in the block a call frees memory of.
LEMMA FreeCounts ==
  ASSUME HeapInv, NEW t \in Threads, op[t].pc = "free"
  PROVE  LET b == op[t].at  class == op[t].class  A == Addrs(live, op, b)  u == op[t].mem IN
         /\ b \in Blocks /\ meta[b].class = class /\ class \in 0 .. NrClasses
         /\ A \in SUBSET Nat /\ IsFiniteSet(A) /\ u \in A
         /\ class # Big => /\ class \in Classes
                           /\ BlockMatch(class, slots[b], chunks[b], bump[b], A)
                           /\ BumpBase(class) <= bump[b].at
  <1> DEFINE b == op[t].at  class == op[t].class  A == Addrs(live, op, b)  u == op[t].mem
  <1>1. Holder(op[t]) /\ op[t].pc \in FreeLabels
    BY DEF Holder, FreeLabels
  <1>2. op[t] \in FreeType /\ b \in Blocks
    <2>1. op[t] \in FreeType /\ Shape(op[t])
      BY <1>1, OpOf
    <2> QED BY <1>1, <2>1, Zenon DEF Shape
  <1>3. Used(meta, block_lists, reuse_list, b) /\ meta[b].heap = op[t].heap /\ meta[b].class = class
    BY <1>1, Zenon DEF HeapInv, AllPlaced, Placed
  <1>4. class \in 0 .. NrClasses
    BY <1>2 DEF FreeType
  <1>5. u \in A
    BY <1>1, InAddrs, Zenon
  <1> HIDE DEF b, class, A
  <1>6. BlockOK(meta[b], slots[b], chunks[b], bump[b], A)
    BY <1>2, Zenon DEF HeapInv, Contents, A
  <1>7. A \in SUBSET Nat /\ IsFiniteSet(A)
    BY <1>6, Zenon DEF BlockOK
  <1>8. ASSUME class # Big
        PROVE  /\ class \in Classes
               /\ BlockMatch(class, slots[b], chunks[b], bump[b], A)
               /\ BumpBase(class) <= bump[b].at
    <2>1. class \in Classes
      BY <1>4, <1>8, Geometry DEF Big, Classes
    <2>2. BlockMatch(class, slots[b], chunks[b], bump[b], A)
      BY <1>3, <1>6, <1>8, Zenon DEF BlockOK, Used
    <2>3. Listed(block_lists, b)
      BY <1>3, <1>8, Zenon DEF Used
    <2>4. PICK h \in Heaps, c \in Classes : b \in Range(block_lists[h][c])
      BY <2>3, Zenon DEF Listed
    <2>5. meta[b].class = c
      <3>1. Lists(meta, block_lists, reuse_list)
        BY Zenon DEF HeapInv
      <3> QED BY <2>4, <3>1, ListFacts, Zenon
    <2>6. BumpBase(c) <= bump[b].at
      BY <2>4, Zenon DEF HeapInv, BumpsBased
    <2> QED BY <1>3, <2>1, <2>2, <2>5, <2>6, Zenon
  <1> QED BY <1>2, <1>3, <1>4, <1>5, <1>7, <1>8, Zenon DEF b, class, A

\* A call goes on to what is left of its free: the flag of the block, the
\* count, or nothing.
LEMMA GiveAt ==
  ASSUME HeapInv, NEW t \in Threads, op[t].pc = "free", op[t].class # Big,
         UNCHANGED OutsideBlocks,
         \/ op' = Set(op, t, Idle)
         \/ \E pc \in {"count", "unfull"} : op' = [op EXCEPT ![t] = [op[t] EXCEPT !.pc = pc]],
         CountsAt(op[t].at, Addrs(live, op, op[t].at) \ {op[t].mem})
  PROVE  HeapInv'
  <1> DEFINE b == op[t].at
  <1>1. Holder(op[t]) /\ op[t].pc \in FreeLabels
    BY DEF Holder, FreeLabels
  <1>2. op \in [Threads -> OpType] /\ op[t] \in FreeType
    BY <1>1, OpOf
  <1>3. b \in Blocks /\ meta[b].class # Big
    BY FreeCounts, Zenon
  <1>4. \E x \in OpType : op' = [op EXCEPT ![t] = x] /\ x.pc \in {"idle", "count", "unfull"}
    <2>1. CASE op' = Set(op, t, Idle)
      <3>1. Idle \in OpType /\ Idle.pc = "idle"
        BY DEF OpType, Idle
      <3> QED BY <2>1, <3>1 DEF Set
    <2>2. CASE \E pc \in {"count", "unfull"} : op' = [op EXCEPT ![t] = [op[t] EXCEPT !.pc = pc]]
      <3>1. PICK pc \in {"count", "unfull"} : op' = [op EXCEPT ![t] = [op[t] EXCEPT !.pc = pc]]
        BY <2>2
      <3>2. [op[t] EXCEPT !.pc = pc] \in FreeType /\ [op[t] EXCEPT !.pc = pc].pc = pc
        BY <1>2 DEF FreeType, FreeLabels
      <3>3. [op[t] EXCEPT !.pc = pc] \in OpType
        BY <3>2 DEF OpType
      <3> QED BY <3>1, <3>2, <3>3
    <2> QED BY <2>1, <2>2
  <1>5. PICK x \in OpType : op' = [op EXCEPT ![t] = x] /\ x.pc \in {"idle", "count", "unfull"}
    BY <1>4
  <1>6. op' \in [Threads -> OpType] /\ Others(op, op', t) /\ op'[t] = x
    BY <1>2, <1>5, OpSet
  <1>7. /\ ~Holder(x) /\ ~HasLock(x) /\ x.pc # "reuse" /\ x.pc \notin CallLabels
        /\ x.pc \notin WalkLabels /\ x.pc # "lock" /\ x.pc # "sweeplock"
    BY <1>5 DEF Holder, HasLock, LockedLabels, WalkLabels, CallLabels
  <1>8. Shape(op'[t])
    BY <1>6, <1>7, Zenon DEF Shape
  <1>9. Locked(op'[t], t, lock', reuse_lock')
    BY <1>6, <1>7, Zenon DEF Locked
  <1>10. Placed(op'[t], meta, block_lists, reuse_list)
    BY <1>6, <1>7, Zenon DEF Placed
  <1>11. OldAlone(op', t)
    BY <1>6, <1>7, Zenon DEF OldAlone
  <1>12. KeepsLocks(t) /\ live' = live /\ UNCHANGED placing
    BY OutsideKept
  <1>13. ~Holder(op'[t]) /\ op'[t].pc # "reuse"
    BY <1>6, <1>7, Zenon
  <1>14. b = op[t].at /\ CountsAt(b, Addrs(live, op, b) \ {op[t].mem})
    OBVIOUS
  <1> HIDE DEF b
  <1> QED BY <1>1, <1>3, <1>6, <1>8, <1>9, <1>10, <1>11, <1>12, <1>13, <1>14, GiveStep

\* Where a free goes on.
LEMMA AfterFreeIs ==
  ASSUME NEW t, AfterFree(t)
  PROVE  \/ op' = Set(op, t, Idle)
         \/ \E pc \in {"count", "unfull"} : op' = [op EXCEPT ![t] = [op[t] EXCEPT !.pc = pc]]
  BY DEF AfterFree, Set

\* A free of bump memory.
LEMMA FreeBumpInv ==
  ASSUME HeapInv, NEW t \in Threads, FreeBump(t)
  PROVE  HeapInv'
  <1> DEFINE b == op[t].at  class == op[t].class  A == Addrs(live, op, b)  u == op[t].mem
  <1>1. /\ op[t].pc = "free" /\ IsBump(class, u) /\ class # Big /\ AfterFree(t)
        /\ bump' = [bump EXCEPT ![b] = [bump[b] EXCEPT !.freed = @ + 1]] /\ slots' = slots /\ chunks' = chunks
        /\ UNCHANGED OutsideBlocks
    BY DEF FreeBump, Freeing, IsBump
  <1>2. /\ b \in Blocks /\ meta[b].class = class /\ A \in SUBSET Nat /\ IsFiniteSet(A) /\ u \in A
        /\ class \in Classes /\ BlockMatch(class, slots[b], chunks[b], bump[b], A)
        /\ BumpBase(class) <= bump[b].at
    BY <1>1, FreeCounts, Zenon
  <1> HIDE DEF b, class, A, u
  <1>3. \E v : /\ bump' = [bump EXCEPT ![b] = v] /\ BlockMatch(class, slots[b], chunks[b], v, A \ {u})
               /\ v.at = bump[b].at
    <2>1. BlockMatch(class, slots[b], chunks[b], [bump[b] EXCEPT !.freed = @ + 1], A \ {u})
      BY <1>1, <1>2, DropBumpMatch
    <2>2. [bump[b] EXCEPT !.freed = @ + 1].at = bump[b].at
      BY <1>2 DEF BlockMatch, BumpMatch, BumpType
    <2> QED BY <1>1, <2>1, <2>2
  <1>4. PICK v : /\ bump' = [bump EXCEPT ![b] = v] /\ BlockMatch(class, slots[b], chunks[b], v, A \ {u})
                 /\ v.at = bump[b].at
    BY <1>3
  <1>5. OfBlocks(slots) /\ OfBlocks(chunks) /\ OfBlocks(bump)
    BY AllOfBlocks
  <1>6. OfBlocks(bump') /\ bump'[b] = v /\ \A x \in Blocks : x # b => bump'[x] = bump[x]
    BY <1>2, <1>4, <1>5 DEF OfBlocks
  <1>7. CountsAt(b, A \ {u})
    BY <1>1, <1>2, <1>4, <1>5, <1>6, Zenon DEF CountsAt
  <1> QED BY <1>1, <1>7, AfterFreeIs, GiveAt DEF b, A, u, class

\* A free of a slot.
LEMMA FreeSlotInv ==
  ASSUME HeapInv, NEW t \in Threads, FreeSlot(t)
  PROVE  HeapInv'
  <1> DEFINE b == op[t].at  class == op[t].class  A == Addrs(live, op, b)  u == op[t].mem
  <1>1. /\ op[t].pc = "free" /\ IsSlot(class, u) /\ class # Big /\ AfterFree(t)
        /\ slots' = [slots EXCEPT ![b] = DropSlot(slots[b], SlotAt(class, u))] /\ bump' = bump /\ chunks' = chunks
        /\ UNCHANGED OutsideBlocks
    BY DEF FreeSlot, Freeing, IsSlot
  <1>2. /\ b \in Blocks /\ meta[b].class = class /\ A \in SUBSET Nat /\ u \in A
        /\ class \in Classes /\ BlockMatch(class, slots[b], chunks[b], bump[b], A)
        /\ BumpBase(class) <= bump[b].at
    BY <1>1, FreeCounts, Zenon
  <1> HIDE DEF b, class, A, u
  <1>3. BlockMatch(class, DropSlot(slots[b], SlotAt(class, u)), chunks[b], bump[b], A \ {u})
    BY <1>1, <1>2, DropSlotMatch
  <1>5. OfBlocks(slots) /\ OfBlocks(chunks) /\ OfBlocks(bump)
    BY AllOfBlocks
  <1>6. OfBlocks(slots') /\ slots'[b] = DropSlot(slots[b], SlotAt(class, u))
        /\ \A x \in Blocks : x # b => slots'[x] = slots[x]
    BY <1>1, <1>2, <1>5 DEF OfBlocks
  <1>7. CountsAt(b, A \ {u})
    BY <1>1, <1>2, <1>3, <1>5, <1>6, Zenon DEF CountsAt
  <1> QED BY <1>1, <1>7, AfterFreeIs, GiveAt DEF b, A, u, class

\* A free of a chunk.
LEMMA FreeChunkInv ==
  ASSUME HeapInv, NEW t \in Threads, FreeChunk(t)
  PROVE  HeapInv'
  <1> DEFINE b == op[t].at  class == op[t].class  A == Addrs(live, op, b)  u == op[t].mem
  <1>1. /\ op[t].pc = "free" /\ IsChunk(class, u) /\ class # Big
        /\ op' = [op EXCEPT ![t] = [op[t] EXCEPT !.pc = "unfull"]]
        /\ chunks' = [chunks EXCEPT ![b] = DropChunk(chunks[b], u)] /\ bump' = bump /\ slots' = slots
        /\ UNCHANGED OutsideBlocks
    BY DEF FreeChunk, Freeing, IsChunk, Goto
  <1>2. /\ b \in Blocks /\ meta[b].class = class /\ A \in SUBSET Nat /\ u \in A
        /\ class \in Classes /\ BlockMatch(class, slots[b], chunks[b], bump[b], A)
        /\ BumpBase(class) <= bump[b].at
    BY <1>1, FreeCounts, Zenon
  <1> HIDE DEF b, class, A, u
  <1>3. BlockMatch(class, slots[b], DropChunk(chunks[b], u), bump[b], A \ {u})
    BY <1>1, <1>2, DropChunkMatch
  <1>5. OfBlocks(slots) /\ OfBlocks(chunks) /\ OfBlocks(bump)
    BY AllOfBlocks
  <1>6. OfBlocks(chunks') /\ chunks'[b] = DropChunk(chunks[b], u)
        /\ \A x \in Blocks : x # b => chunks'[x] = chunks[x]
    BY <1>1, <1>2, <1>5 DEF OfBlocks
  <1>7. CountsAt(b, A \ {u})
    BY <1>1, <1>2, <1>3, <1>5, <1>6, Zenon DEF CountsAt
  <1>8. \E pc \in {"count", "unfull"} : op' = [op EXCEPT ![t] = [op[t] EXCEPT !.pc = pc]]
    BY <1>1
  <1> QED BY <1>1, <1>7, <1>8, GiveAt DEF b, A, u, class

\* The model's sum is the one the lemmas are about.
LEMMA SizeSumIs ==
  ASSUME NEW bs
  PROVE  SizeSum(bs) = SumOver(meta, bs)
  BY DEF SizeSum, SumOver

\* What a list for reuse holds has a size.
LEMMA RetiredSizes ==
  ASSUME HeapInv, NEW h \in Heaps
  PROVE  /\ reuse_list[h] \in Seq(Blocks) /\ IsInjective(reuse_list[h])
         /\ IsFiniteSet(Range(reuse_list[h])) /\ Range(reuse_list[h]) \subseteq Blocks
         /\ \A x \in Range(reuse_list[h]) :
              meta[x] \in MetaType /\ meta[x] # None /\ meta[x].heap = h /\ meta[x].size \in Nat
         /\ reuse_size[h] \in Int /\ reuse_bytes \in Int /\ MaxReuse \in Nat
  <1>1. Lists(meta, block_lists, reuse_list) /\ reuse_size \in [Heaps -> Int] /\ reuse_bytes \in Int
    BY Zenon DEF HeapInv
  <1>2. /\ reuse_list[h] \in Seq(Blocks) /\ IsInjective(reuse_list[h])
        /\ \A x \in Range(reuse_list[h]) :
             x \in Blocks /\ meta[x] \in MetaType /\ meta[x] # None /\ meta[x].heap = h
    BY <1>1, ListFacts
  <1>3. IsFiniteSet(Range(reuse_list[h])) /\ Range(reuse_list[h]) \subseteq Blocks
    <2>1. Range(reuse_list[h]) \subseteq Blocks
      BY <1>2
    <2>2. IsFiniteSet(Blocks)
      BY MallocAssumption
    <2> QED BY <2>1, <2>2, FS_Subset
  <1>4. \A x : x \in MetaType => x.size \in Nat
    BY DEF MetaType
  <1>5. MaxReuse \in Nat
    BY MallocAssumption
  <1> QED BY <1>1, <1>2, <1>3, <1>4, <1>5

\* The retired blocks that are kept are the front of the list, small enough.
LEMMA KeptIs ==
  ASSUME HeapInv, NEW h \in Heaps, NEW b \in Blocks, meta[b] \in MetaType, ~TooBig(h, b)
  PROVE  \E n \in 0 .. Len(reuse_list[h]) :
           LET front == SubSeq(reuse_list[h], 1, n) IN
           /\ Kept(h, b) = front
           /\ reuse_bytes - reuse_size[h] + SumOver(meta, Range(front)) + meta[b].size <= MaxReuse
  <1> DEFINE s == reuse_list[h]
             K == {n \in 0 .. Len(s) :
                     reuse_bytes - reuse_size[h] + SizeSum(Range(SubSeq(s, 1, n))) + meta[b].size
                       <= MaxReuse}
  <1>1. Kept(h, b) = SubSeq(s, 1, Max(K))
    BY DEF Kept
  <1>2. s \in Seq(Blocks) /\ reuse_size[h] \in Int /\ reuse_bytes \in Int /\ MaxReuse \in Nat
    BY RetiredSizes
  <1>3. Len(s) \in Nat /\ SubSeq(s, 1, 0) = <<>>
    BY <1>2
  <1>4. SizeSum(Range(SubSeq(s, 1, 0))) = 0
    BY <1>3, EmptySeqFacts, SumEmpty, SizeSumIs
  <1>5. meta[b].size \in Nat
    BY DEF MetaType
  <1>6. 0 \in K
    BY <1>2, <1>3, <1>4, <1>5 DEF TooBig
  <1>7. K \in SUBSET (0 .. Len(s)) /\ K # {}
    BY <1>6
  <1>8. Max(K) \in K
    <2> HIDE DEF K
    <2> QED BY <1>3, <1>7, MaxIsIn
  <1>9. /\ Max(K) \in 0 .. Len(s)
        /\ reuse_bytes - reuse_size[h] + SizeSum(Range(SubSeq(s, 1, Max(K)))) + meta[b].size <= MaxReuse
    BY <1>8
  <1> HIDE DEF K, s
  <1> QED BY <1>1, <1>9, SizeSumIs DEF s

\* What bk_remove_block does to the lists for reuse and their sums.
Removed(h, b, kept, delta) ==
  /\ kept \in Seq(Blocks) /\ IsInjective(kept) /\ delta \in Int
  /\ \/ Range(kept) = Range(reuse_list[h]) /\ delta = 0
     \/ /\ b \in Range(kept) /\ Range(kept) \subseteq {b} \cup Range(reuse_list[h])
        /\ delta = meta[b].size - SumOver(meta, Range(reuse_list[h]) \ Range(kept))
        /\ reuse_bytes - reuse_size[h] + SumOver(meta, Range(kept) \ {b}) + meta[b].size <= MaxReuse
  /\ reuse_list' = Set(reuse_list, h, kept)
  /\ reuse_size' = [reuse_size EXCEPT ![h] = @ + delta] /\ reuse_bytes' = reuse_bytes + delta
  /\ meta' = [x \in Blocks |->
       IF x \in ({b} \cup Range(reuse_list[h])) \ Range(kept) THEN None
       ELSE IF x = b THEN RetiredMeta(b) ELSE meta[x]]

\* RemoveBlock in terms of what it keeps.
LEMMA RemoveIs ==
  ASSUME HeapInv, NEW h \in Heaps, NEW b \in Blocks, meta[b] \in MetaType,
         ~Retired(reuse_list, b), RemoveBlock(h, b)
  PROVE  \E kept, delta : Removed(h, b, kept, delta)
  <1> DEFINE R == Range(reuse_list[h])
             kept == IF TooBig(h, b) THEN reuse_list[h] ELSE <<b>> \o Kept(h, b)
             gone == ({b} \cup R) \ Range(kept)
             delta == (IF b \in gone THEN 0 ELSE meta[b].size) - SizeSum(gone \ {b})
  <1>1. /\ reuse_list' = Set(reuse_list, h, kept)
        /\ reuse_size' = [reuse_size EXCEPT ![h] = @ + delta] /\ reuse_bytes' = reuse_bytes + delta
        /\ meta' = [x \in Blocks |-> IF x \in gone THEN None
                                     ELSE IF x = b THEN RetiredMeta(b) ELSE meta[x]]
    BY DEF RemoveBlock
  <1>2. /\ reuse_list[h] \in Seq(Blocks) /\ IsInjective(reuse_list[h]) /\ IsFiniteSet(R)
        /\ \A x \in R : meta[x].size \in Nat
    BY RetiredSizes
  <1>3. b \notin R
    BY DEF Retired
  <1>4. meta[b].size \in Nat
    BY DEF MetaType
  <1>5. CASE TooBig(h, b)
    <2>1. kept = reuse_list[h]
      BY <1>5
    <2>2. gone = {b}
      BY <1>3, <2>1
    <2> HIDE DEF kept, gone
    <2>3. gone \ {b} = {}
      BY <2>2
    <2>4. delta = 0
      BY <2>2, <2>3, SumEmpty, SizeSumIs
    <2> HIDE DEF delta
    <2>5. Removed(h, b, kept, delta)
      <3>1. delta \in Int /\ Range(kept) = Range(reuse_list[h])
        BY <2>1, <2>4
      <3> QED BY <1>1, <1>2, <2>1, <2>4, <3>1, Zenon DEF Removed, gone, R
    <2> QED BY <2>5
  <1>6. CASE ~TooBig(h, b)
    <2>1. PICK n \in 0 .. Len(reuse_list[h]) :
            LET front == SubSeq(reuse_list[h], 1, n) IN
            /\ Kept(h, b) = front
            /\ reuse_bytes - reuse_size[h] + SumOver(meta, Range(front)) + meta[b].size <= MaxReuse
      BY <1>6, KeptIs
    <2> DEFINE front == SubSeq(reuse_list[h], 1, n)
    <2>2. kept = <<b>> \o front
      BY <1>6, <2>1
    <2>3. front \in Seq(Blocks) /\ IsInjective(front) /\ Range(front) \subseteq R
      BY <1>2, PrefixFacts
    <2>r. reuse_bytes - reuse_size[h] + SumOver(meta, Range(front)) + meta[b].size <= MaxReuse
      BY <2>1
    <2> HIDE DEF front
    <2>4. b \notin Range(front)
      BY <1>3, <2>3
    <2>5. /\ kept \in Seq(Blocks) /\ IsInjective(kept) /\ Range(kept) = {b} \cup Range(front)
      <3>1. /\ <<b>> \o front \in Seq(Blocks) /\ IsInjective(<<b>> \o front)
            /\ Range(<<b>> \o front) = {b} \cup Range(front)
        BY <2>3, <2>4, ConsFacts, Zenon
      <3> QED BY <2>2, <3>1, Zenon
    <2> HIDE DEF kept
    <2>6. b \notin gone /\ gone \ {b} = R \ Range(kept) /\ Range(kept) \ {b} = Range(front)
      BY <1>3, <2>4, <2>5
    <2>7. delta = meta[b].size - SumOver(meta, R \ Range(kept))
      BY <2>6, SizeSumIs
    <2>8. SumOver(meta, R \ Range(kept)) \in Nat
      <3>1. IsFiniteSet(R \ Range(kept))
        BY <1>2, FS_Subset
      <3> QED BY <1>2, <3>1, SumType
    <2>9. delta \in Int
      BY <1>4, <2>7, <2>8
    <2>10. b \in Range(kept) /\ Range(kept) \subseteq {b} \cup R
      BY <2>3, <2>5
    <2>11. reuse_bytes - reuse_size[h] + SumOver(meta, Range(kept) \ {b}) + meta[b].size <= MaxReuse
      BY <2>r, <2>6
    <2> HIDE DEF delta, gone, R
    <2>12. Removed(h, b, kept, delta)
      BY <1>1, <2>5, <2>7, <2>9, <2>10, <2>11, Zenon DEF Removed, gone, R
    <2> QED BY <2>12
  <1> QED BY <1>5, <1>6

\* A block is taken off the lists of blocks in use.
Delisted(b) ==
  /\ block_lists' \in [Heaps -> [Classes -> Seq(Blocks)]]
  /\ \A h \in Heaps, c \in Classes :
       IsInjective(block_lists'[h][c]) /\ Range(block_lists'[h][c]) = Range(block_lists[h][c]) \ {b}

\* A function changed at one argument.
LEMMA SetFun ==
  ASSUME NEW S, NEW T, NEW f \in [S -> T], NEW x \in S, NEW v \in T
  PROVE  Set(f, x, v) \in [S -> T] /\ Set(f, x, v)[x] = v /\ \A y \in S : y # x => Set(f, x, v)[y] = f[y]
  BY DEF Set

\* The other blocks are where they were.
LEMMA RemovedFacts ==
  ASSUME HeapInv, NEW h \in Heaps, NEW b \in Blocks, meta[b] \in MetaType, meta[b] # None,
         meta[b].heap = h, ~Retired(reuse_list, b), NEW kept, NEW delta, Removed(h, b, kept, delta)
  PROVE  /\ reuse_list' \in [Heaps -> Seq(Blocks)]
         /\ \A g \in Heaps : IsInjective(reuse_list'[g])
         /\ \A g \in Heaps : \A x \in Range(reuse_list'[g]) : meta'[x] # None /\ meta'[x].heap = g
         /\ meta' \in [Blocks -> MetaType \cup {None}]
         /\ \A x \in Blocks : x # b /\ ~Retired(reuse_list, x) =>
              meta'[x] = meta[x] /\ ~Retired(reuse_list', x)
         /\ \A x \in Blocks : x # b => meta'[x] = None \/ meta'[x] = meta[x]
         /\ meta'[b] # None => meta'[b].class = meta[b].class
         /\ reuse_size' \in [Heaps -> Int] /\ reuse_bytes' \in Int
  <1> DEFINE R == Range(reuse_list[h])  gone == ({b} \cup R) \ Range(kept)
  <1>i. Lists(meta, block_lists, reuse_list) /\ reuse_size \in [Heaps -> Int] /\ reuse_bytes \in Int
    BY Zenon DEF HeapInv
  <1>m. meta \in [Blocks -> MetaType \cup {None}] /\ reuse_list \in [Heaps -> Seq(Blocks)]
    BY <1>i, Zenon DEF Lists
  <1>r. /\ kept \in Seq(Blocks) /\ IsInjective(kept) /\ delta \in Int
        /\ Range(kept) \subseteq {b} \cup R
        /\ reuse_list' = Set(reuse_list, h, kept)
        /\ reuse_size' = [reuse_size EXCEPT ![h] = @ + delta] /\ reuse_bytes' = reuse_bytes + delta
        /\ meta' = [x \in Blocks |-> IF x \in gone THEN None
                                     ELSE IF x = b THEN RetiredMeta(b) ELSE meta[x]]
    BY DEF Removed
  <1>b. b \notin R /\ \A x \in R : x \in Blocks /\ meta[x] # None /\ meta[x].heap = h
    BY RetiredSizes DEF Retired
  <1>z. RetiredMeta(b) \in MetaType /\ RetiredMeta(b).heap = h /\ RetiredMeta(b).class = meta[b].class
    <2>1. \A m : m \in MetaType => /\ [m EXCEPT !.zero = m.calloc] \in MetaType
                                   /\ [m EXCEPT !.zero = m.calloc].heap = m.heap
                                   /\ [m EXCEPT !.zero = m.calloc].class = m.class
      BY DEF MetaType
    <2>2. RetiredMeta(b) = [meta[b] EXCEPT !.zero = meta[b].calloc]
      BY DEF RetiredMeta
    <2> QED BY <2>1, <2>2
  <1>n. \A x : x \in MetaType => x # None
    BY MallocAssumption DEF MetaType, Fresh
  <1>1. /\ reuse_list' \in [Heaps -> Seq(Blocks)] /\ reuse_list'[h] = kept
        /\ \A g \in Heaps : g # h => reuse_list'[g] = reuse_list[g]
    BY <1>m, <1>r DEF Set
  <1>2. \A g \in Heaps : IsInjective(reuse_list'[g])
    BY <1>i, <1>r, <1>1, Zenon DEF Lists
  <1> HIDE DEF gone, R
  <1>3. \A x \in Blocks : meta'[x] = IF x \in gone THEN None
                                     ELSE IF x = b THEN RetiredMeta(b) ELSE meta[x]
    BY <1>r
  <1>4. meta' \in [Blocks -> MetaType \cup {None}]
    BY <1>m, <1>r, <1>z
  <1>5. ASSUME NEW g \in Heaps, NEW x \in Range(reuse_list'[g])
        PROVE  meta'[x] # None /\ meta'[x].heap = g
    <2>1. CASE g = h
      <3>1. x \in Range(kept) /\ x \in {b} \cup R
        BY <1>1, <1>r, <2>1
      <3>2. x \notin gone
        BY <3>1 DEF gone
      <3>3. x \in Blocks
        BY <3>1, <1>b
      <3>4. meta'[x] = IF x = b THEN RetiredMeta(b) ELSE meta[x]
        BY <1>3, <3>2, <3>3
      <3> QED BY <1>b, <1>n, <1>z, <2>1, <3>1, <3>4
    <2>2. CASE g # h
      <3>1. x \in Range(reuse_list[g])
        BY <1>1, <1>5, <2>2
      <3>2. x \in Blocks /\ meta[x] # None /\ meta[x].heap = g
        BY <3>1, RetiredSizes
      <3>3. x # b /\ x \notin R
        BY <1>b, <2>2, <3>2
      <3>4. meta'[x] = meta[x]
        BY <1>3, <3>2, <3>3 DEF gone
      <3> QED BY <3>2, <3>4
    <2> QED BY <2>1, <2>2
  <1>6. ASSUME NEW x \in Blocks, x # b, ~Retired(reuse_list, x)
        PROVE  meta'[x] = meta[x] /\ ~Retired(reuse_list', x)
    <2>1. x \notin R
      BY <1>6 DEF Retired, R
    <2>2. meta'[x] = meta[x]
      BY <1>3, <1>6, <2>1 DEF gone
    <2>3. \A g \in Heaps : x \notin Range(reuse_list'[g])
      BY <1>1, <1>r, <1>6, <2>1 DEF Retired
    <2> QED BY <2>2, <2>3 DEF Retired
  <1>7. \A x \in Blocks : x # b => meta'[x] = None \/ meta'[x] = meta[x]
    BY <1>3
  <1>8. meta'[b] # None => meta'[b].class = meta[b].class
    BY <1>3, <1>z
  <1>9. reuse_size' \in [Heaps -> Int] /\ reuse_bytes' \in Int
    BY <1>i, <1>r
  <1> QED BY <1>1, <1>2, <1>4, <1>5, <1>6, <1>7, <1>8, <1>9

\* The lists once a block was removed from its own.
LEMMA RemovedLists ==
  ASSUME HeapInv, NEW h \in Heaps, NEW b \in Blocks, meta[b] \in MetaType, meta[b] # None,
         meta[b].heap = h, ~Retired(reuse_list, b), NEW kept, NEW delta, Removed(h, b, kept, delta),
         Delisted(b)
  PROVE  /\ Lists(meta', block_lists', reuse_list')
         /\ \A x \in Blocks : x # b /\ Used(meta, block_lists, reuse_list, x) =>
              Used(meta', block_lists', reuse_list', x) /\ meta'[x] = meta[x]
         /\ \A x \in Blocks : x # b /\ Between(meta, block_lists, reuse_list, x) =>
              Between(meta', block_lists', reuse_list', x) /\ meta'[x] = meta[x]
  <1>i. Lists(meta, block_lists, reuse_list)
    BY Zenon DEF HeapInv
  <1>1. /\ reuse_list' \in [Heaps -> Seq(Blocks)]
        /\ \A g \in Heaps : IsInjective(reuse_list'[g])
        /\ \A g \in Heaps : \A x \in Range(reuse_list'[g]) : meta'[x] # None /\ meta'[x].heap = g
        /\ meta' \in [Blocks -> MetaType \cup {None}]
        /\ \A x \in Blocks : x # b /\ ~Retired(reuse_list, x) =>
             meta'[x] = meta[x] /\ ~Retired(reuse_list', x)
    BY RemovedFacts
  <1>2. /\ block_lists' \in [Heaps -> [Classes -> Seq(Blocks)]]
        /\ \A g \in Heaps, c \in Classes :
             IsInjective(block_lists'[g][c]) /\ Range(block_lists'[g][c]) = Range(block_lists[g][c]) \ {b}
    BY Zenon DEF Delisted
  <1>3. ASSUME NEW g \in Heaps, NEW c \in Classes, NEW x \in Range(block_lists'[g][c])
        PROVE  meta'[x] # None /\ meta'[x].heap = g /\ meta'[x].class = c /\ ~Retired(reuse_list', x)
    <2>1. x \in Range(block_lists[g][c]) /\ x # b
      BY <1>2, <1>3
    <2>2. x \in Blocks /\ meta[x] # None /\ meta[x].heap = g /\ meta[x].class = c /\ ~Retired(reuse_list, x)
      BY <1>i, <2>1, ListFacts
    <2> QED BY <1>1, <2>1, <2>2
  <1>4. Lists(meta', block_lists', reuse_list')
    BY <1>1, <1>2, <1>3, Zenon DEF Lists
  <1>5. ASSUME NEW x \in Blocks, x # b PROVE Listed(block_lists', x) <=> Listed(block_lists, x)
    <2>1. ASSUME NEW g \in Heaps, NEW c \in Classes
          PROVE  x \in Range(block_lists'[g][c]) <=> x \in Range(block_lists[g][c])
      BY <1>2, <1>5
    <2> QED BY <2>1, Zenon DEF Listed
  <1>6. \A x \in Blocks : x # b /\ Used(meta, block_lists, reuse_list, x) =>
          Used(meta', block_lists', reuse_list', x) /\ meta'[x] = meta[x]
    BY <1>1, <1>5, Zenon DEF Used
  <1>7. \A x \in Blocks : x # b /\ Between(meta, block_lists, reuse_list, x) =>
          Between(meta', block_lists', reuse_list', x) /\ meta'[x] = meta[x]
    BY <1>1, <1>5, Zenon DEF Between
  <1> QED BY <1>4, <1>6, <1>7

\* What the step leaves of the block, and of the others.
Emptied(t, b) ==
  /\ \A u \in Threads : u # t /\ op[u].pc \in WalkLabels \cup {"reuse"} => op[u].at # b
  /\ Addrs(live', op', b) = {} /\ \A x : x # b => Addrs(live', op', x) = Addrs(live, op, x)
  /\ OfBlocks(chunks') /\ \A x \in Blocks : x # b => chunks'[x] = chunks[x]
  /\ meta[b].class # Big => chunks'[b] = FreshChunks(TRUE)

\* A block that is forgotten has nothing.
LEMMA ForgetIs ==
  ASSUME HeapInv, NEW b \in Blocks, Forget({b})
  PROVE  /\ OfBlocks(slots') /\ OfBlocks(bump')
         /\ slots'[b] = NoSlots /\ bump'[b] = FreshBump(0)
         /\ \A x \in Blocks : x # b => slots'[x] = slots[x] /\ bump'[x] = bump[x]
  BY DEF Forget, OfBlocks

\* Removing a block that nobody has anything of keeps the invariant.
LEMMA RemoveStep ==
  ASSUME HeapInv, NEW t \in Threads, UNCHANGED <<lock, reuse_lock, live>>,
         NEW h \in Heaps, NEW b \in Blocks, meta[b] \in MetaType, meta[b] # None,
         meta[b].heap = h, ~Retired(reuse_list, b),
         RemoveBlock(h, b), Delisted(b), Emptied(t, b),
         op' \in [Threads -> OpType], Others(op, op', t), Shape(op'[t]),
         Locked(op'[t], t, lock', reuse_lock'), OldAlone(op', t),
         ~Holder(op'[t]), op'[t].pc # "reuse",
         op'[t].pc \in WalkLabels /\ op'[t].at # None =>
           op'[t].at \in Range(block_lists'[op'[t].heap][op'[t].class])
  PROVE  HeapInv'
  <1>i. /\ OpsOK(op) /\ LocksOK(op, lock, reuse_lock) /\ OldsOK(live, op) /\ HeldOnce(live, op)
        /\ Lists(meta, block_lists, reuse_list)
        /\ AllPlaced(live, op, meta, block_lists, reuse_list)
        /\ Contents(meta, slots, chunks, bump, live, op) /\ BumpsBased(block_lists, bump)
    BY Zenon DEF HeapInv
  <1>r. PICK kept, delta : Removed(h, b, kept, delta)
    BY RemoveIs
  <1>f. /\ \A x \in Blocks : x # b => meta'[x] = None \/ meta'[x] = meta[x]
        /\ meta'[b] # None => meta'[b].class = meta[b].class
        /\ reuse_size' \in [Heaps -> Int] /\ reuse_bytes' \in Int
    BY <1>r, RemovedFacts
  <1>l. /\ Lists(meta', block_lists', reuse_list')
        /\ \A x \in Blocks : x # b /\ Used(meta, block_lists, reuse_list, x) =>
             Used(meta', block_lists', reuse_list', x) /\ meta'[x] = meta[x]
        /\ \A x \in Blocks : x # b /\ Between(meta, block_lists, reuse_list, x) =>
             Between(meta', block_lists', reuse_list', x) /\ meta'[x] = meta[x]
    BY <1>r, RemovedLists
  <1>g. Forget({b})
    BY DEF RemoveBlock
  <1>e. /\ OfBlocks(slots') /\ OfBlocks(bump')
        /\ slots'[b] = NoSlots /\ bump'[b] = FreshBump(0)
        /\ \A x \in Blocks : x # b => slots'[x] = slots[x] /\ bump'[x] = bump[x]
    BY <1>g, ForgetIs
  <1>a. /\ \A u \in Threads : u # t /\ op[u].pc \in WalkLabels \cup {"reuse"} => op[u].at # b
        /\ Addrs(live', op', b) = {} /\ \A x : x # b => Addrs(live', op', x) = Addrs(live, op, x)
        /\ OfBlocks(chunks') /\ \A x \in Blocks : x # b => chunks'[x] = chunks[x]
        /\ meta[b].class # Big => chunks'[b] = FreshChunks(TRUE)
    BY Zenon DEF Emptied
  <1>1. OpsOK(op') /\ LocksOK(op', lock', reuse_lock') /\ OldsOK(live', op')
    <2>1. KeepsLocks(t)
      BY KeptLocks
    <2> QED BY <2>1, ControlStep
  <1>2. HeldOnce(live', op')
    BY <1>i, HeldLess, Zenon
  <1>3. AllPlaced(live', op', meta', block_lists', reuse_list')
    <2>1. ASSUME NEW p \in live' PROVE Used(meta', block_lists', reuse_list', p.block)
      <3>1. p.at \in Addrs(live', op', p.block)
        BY InAddrs, Zenon
      <3>2. p.block # b
        BY <1>a, <3>1
      <3>3. Used(meta, block_lists, reuse_list, p.block) /\ p.block \in Blocks
        BY <1>i, <2>1, Zenon DEF AllPlaced, OldsOK, ObjectType
      <3> QED BY <1>l, <3>2, <3>3
    <2>2. ASSUME NEW u \in Threads, u # t PROVE Placed(op'[u], meta', block_lists', reuse_list')
      <3> DEFINE x == op[u]
      <3>1. op'[u] = x
        BY <2>2, Zenon DEF Others
      <3>2. Placed(x, meta, block_lists, reuse_list) /\ Shape(x) /\ x \in OpType
        BY <1>i, Zenon DEF AllPlaced, OpsOK
      <3>3. Holder(x) => x.at # b
        <4>1. Holder(x) => x.mem \in Addrs(live', op', x.at)
          BY <3>1, InAddrs, Zenon
        <4> QED BY <1>a, <4>1
      <3>4. x.pc \in WalkLabels => x.heap \in Heaps /\ x.class \in Classes
        <4>1. x.pc \in WalkLabels => x.pc \in CallLabels \cup FreeLabels
          BY DEF WalkLabels, CallLabels, FreeLabels
        <4> QED BY <4>1, WalkClass, Zenon
      <3>5. Holder(x) \/ x.pc = "reuse" => x.at \in Blocks
        BY <3>2, Zenon DEF Shape
      <3>6. x.pc \in WalkLabels \cup {"reuse"} => x.at # b
        BY <1>a, <2>2
      <3> HIDE DEF x
      <3>7. x.pc \in WalkLabels /\ x.at # None => x.at \in Range(block_lists'[x.heap][x.class])
        <4>1. x.pc \in WalkLabels /\ x.at # None => x.at \in Range(block_lists[x.heap][x.class])
          BY <3>2, Zenon DEF Placed
        <4>2. \A g \in Heaps, c \in Classes :
                Range(block_lists'[g][c]) = Range(block_lists[g][c]) \ {b}
          BY Zenon DEF Delisted
        <4> QED BY <3>4, <3>6, <4>1, <4>2
      <3>8. Holder(x) => /\ Used(meta', block_lists', reuse_list', x.at)
                         /\ meta'[x.at].heap = x.heap /\ meta'[x.at].class = x.class
        BY <1>l, <3>2, <3>3, <3>5, Zenon DEF Placed
      <3>9. x.pc = "reuse" => Between(meta', block_lists', reuse_list', x.at) /\ meta'[x.at].heap = x.heap
        BY <1>l, <3>2, <3>5, <3>6 DEF Placed
      <3> QED BY <3>1, <3>7, <3>8, <3>9, Zenon DEF Placed
    <2>3. Placed(op'[t], meta', block_lists', reuse_list')
      BY Zenon DEF Placed
    <2>4. ASSUME NEW u \in Threads, op'[u].pc = "reuse" PROVE Addrs(live', op', op'[u].at) = {}
      <3>1. u # t /\ op'[u] = op[u]
        BY <2>4, Zenon DEF Others
      <3>2. Addrs(live, op, op[u].at) = {} /\ op[u].at # b
        BY <1>i, <1>a, <2>4, <3>1 DEF AllPlaced
      <3> QED BY <1>a, <3>1, <3>2
    <2>5. \A u \in Threads : Placed(op'[u], meta', block_lists', reuse_list')
      BY <2>2, <2>3
    <2> QED BY <2>1, <2>4, <2>5, Zenon DEF AllPlaced
  <1>4. Contents(meta', slots', chunks', bump', live', op')
    <2>1. BlockOK(meta'[b], slots'[b], chunks'[b], bump'[b], Addrs(live', op', b))
      <3>1. IsFiniteSet({}) /\ {} \in SUBSET Nat
        BY FS_EmptySet
      <3>2. ASSUME meta'[b] # None, meta'[b].class # Big
            PROVE  BlockMatch(meta'[b].class, slots'[b], chunks'[b], bump'[b], {})
        <4>1. meta[b].class \in Classes /\ meta'[b].class = meta[b].class /\ meta[b].class # Big
          <5>1. meta[b].class \in 0 .. NrClasses
            BY DEF MetaType
          <5> QED BY <1>f, <3>2, <5>1, Geometry DEF Classes, Big
        <4>2. 0 \in Classes /\ TRUE \in BOOLEAN
          BY Geometry DEF Classes
        <4>3. BlockMatch(meta[b].class, NoSlots, FreshChunks(TRUE), FreshBump(0), {})
          BY <4>1, <4>2, FreshMatch
        <4> QED BY <1>a, <1>e, <4>1, <4>3, Zenon
      <3>3. \A u, v \in {} : u = v
        OBVIOUS
      <3> QED BY <1>a, <3>1, <3>2, <3>3, Zenon DEF BlockOK
    <2>2. ASSUME NEW x \in Blocks, x # b
          PROVE  BlockOK(meta'[x], slots'[x], chunks'[x], bump'[x], Addrs(live', op', x))
      <3>1. BlockOK(meta[x], slots[x], chunks[x], bump[x], Addrs(live, op, x))
        BY <1>i, Zenon DEF Contents
      <3> QED BY <1>a, <1>e, <1>f, <2>2, <3>1, Zenon DEF BlockOK
    <2> QED BY <1>a, <1>e, <2>1, <2>2, Zenon DEF Contents
  <1>5. BumpsBased(block_lists', bump')
    <2>1. ASSUME NEW g \in Heaps, NEW c \in Classes, NEW x \in Range(block_lists'[g][c])
          PROVE  BumpBase(c) <= bump'[x].at
      <3>1. x \in Range(block_lists[g][c]) /\ x # b
        <4>1. Range(block_lists'[g][c]) = Range(block_lists[g][c]) \ {b}
          BY Zenon DEF Delisted
        <4> QED BY <4>1
      <3>2. x \in Blocks
        BY <1>i, <3>1, ListFacts
      <3>3. BumpBase(c) <= bump[x].at
        BY <1>i, <3>1, Zenon DEF BumpsBased
      <3> QED BY <1>e, <3>1, <3>2, <3>3, Zenon
    <2> QED BY <2>1, Zenon DEF BumpsBased
  <1> QED BY <1>f, <1>l, <1>1, <1>2, <1>3, <1>4, <1>5, Zenon DEF HeapInv

\* No block of a list follows itself.
LEMMA FollowingOther ==
  ASSUME NEW S, NEW s \in Seq(S), NEW b \in Range(s), IsInjective(s), None \notin S
  PROVE  Following(s, b) # b
  <1> DEFINE i == CHOOSE j \in DOMAIN s : s[j] = b
  <1>1. i \in 1 .. Len(s) /\ s[i] = b
    <2>1. \E j \in DOMAIN s : s[j] = b
      BY OfRange
    <2> QED BY <2>1
  <1>2. Following(s, b) = IF i = Len(s) THEN None ELSE s[i + 1]
    BY DEF Following
  <1> HIDE DEF i
  <1>3. b \in S
    BY RangeIn
  <1>4. i # Len(s) => s[i + 1] # b
    <2>1. i # Len(s) => i + 1 \in DOMAIN s /\ i \in DOMAIN s /\ i + 1 # i
      BY <1>1
    <2> QED BY <1>1, <2>1, Zenon DEF IsInjective
  <1> QED BY <1>2, <1>3, <1>4

\* Where a thread is on a list, no other thread is at the block.
LEMMA AtBlockAlone ==
  ASSUME HeapInv, NEW t \in Threads, op[t].pc \in WalkLabels, op[t].at # None,
         NEW u \in Threads, u # t, op[u].pc \in WalkLabels \cup {"reuse"}
  PROVE  op[u].at # op[t].at
  <1>1. SUFFICES ASSUME op[u].at = op[t].at PROVE FALSE
    OBVIOUS
  <1>2. /\ op[t].at \in Blocks /\ lock[op[t].heap][op[t].class] = t
        /\ meta[op[t].at].heap = op[t].heap /\ meta[op[t].at].class = op[t].class
        /\ Listed(block_lists, op[t].at)
    BY AtBlock, Zenon
  <1>3. CASE op[u].pc = "reuse"
    BY <1>1, <1>2, <1>3, Zenon DEF HeapInv, AllPlaced, Placed, Between
  <1>4. CASE op[u].pc \in WalkLabels
    <2>1. /\ lock[op[u].heap][op[u].class] = u
          /\ meta[op[u].at].heap = op[u].heap /\ meta[op[u].at].class = op[u].class
      BY <1>1, <1>4, AtBlock, Zenon
    <2> QED BY <1>1, <1>2, <2>1, Zenon
  <1> QED BY <1>3, <1>4

\* A step that changes what a block counts and nothing that is held.
LEMMA RecountStep ==
  ASSUME HeapInv, NEW t \in Threads, KeepsLocks(t),
         op' \in [Threads -> OpType], Others(op, op', t), Shape(op'[t]),
         Locked(op'[t], t, lock', reuse_lock'), OldAlone(op', t), live' = live,
         UNCHANGED placing, ~Holder(op[t]), ~Holder(op'[t]), op'[t].pc # "reuse",
         Placed(op'[t], meta, block_lists, reuse_list),
         NEW b \in Blocks, meta[b].class # Big, CountsAt(b, Addrs(live, op, b))
  PROVE  HeapInv'
  <1>i. /\ OpsOK(op) /\ LocksOK(op, lock, reuse_lock) /\ OldsOK(live, op) /\ HeldOnce(live, op)
        /\ Lists(meta, block_lists, reuse_list)
        /\ reuse_size \in [Heaps -> Int] /\ reuse_bytes \in Int
        /\ AllPlaced(live, op, meta, block_lists, reuse_list)
        /\ Contents(meta, slots, chunks, bump, live, op) /\ BumpsBased(block_lists, bump)
    BY Zenon DEF HeapInv
  <1>0. /\ meta' = meta /\ block_lists' = block_lists /\ reuse_list' = reuse_list
        /\ reuse_size' = reuse_size /\ reuse_bytes' = reuse_bytes
    BY Zenon DEF placing
  <1>1. OpsOK(op') /\ LocksOK(op', lock', reuse_lock') /\ OldsOK(live', op')
    BY ControlStep
  <1>2. HeldOnce(live', op')
    BY <1>i, HeldLess, Zenon
  <1>3. \A x : Addrs(live', op', x) = Addrs(live, op, x)
    BY AddrsSame, Zenon
  <1>4. AllPlaced(live', op', meta', block_lists', reuse_list')
    BY <1>i, <1>0, <1>3, PlacedStep, Zenon
  <1>5. Contents(meta', slots', chunks', bump', live', op')
    <2>1. BlockOK(meta[b], slots'[b], chunks'[b], bump'[b], Addrs(live', op', b))
      <3>1. IsFiniteSet(Addrs(live, op, b)) /\ Addrs(live, op, b) \in SUBSET Nat
        BY <1>i, Zenon DEF Contents, BlockOK
      <3> QED BY <1>3, <3>1, Zenon DEF BlockOK, CountsAt
    <2>2. \A x \in Blocks : x # b => BlockOK(meta[x], slots'[x], chunks'[x], bump'[x], Addrs(live', op', x))
      BY <1>i, <1>3, Zenon DEF Contents, CountsAt
    <2> QED BY <1>0, <2>1, <2>2, Zenon DEF Contents, CountsAt
  <1>6. BumpsBased(block_lists', bump')
    <2>1. ASSUME NEW h \in Heaps, NEW c \in Classes, NEW x \in Range(block_lists[h][c])
          PROVE  BumpBase(c) <= bump'[x].at
      <3>1. x \in Blocks /\ meta[x].class = c
        BY <1>i, ListFacts, Zenon
      <3>2. BumpBase(c) <= bump[x].at
        BY <1>i, Zenon DEF BumpsBased
      <3> QED BY <3>1, <3>2, Zenon DEF CountsAt
    <2> QED BY <1>0, <2>1, Zenon DEF BumpsBased
  <1>7. /\ Lists(meta', block_lists', reuse_list')
        /\ reuse_size' \in [Heaps -> Int] /\ reuse_bytes' \in Int
    BY <1>i, <1>0, Zenon
  <1> QED BY <1>1, <1>2, <1>4, <1>5, <1>6, <1>7, Zenon DEF HeapInv

\* A sweep goes on to the next block of its list.
LEMMA GcMoves ==
  ASSUME HeapInv, NEW t \in Threads, op[t].pc \in {"gc", "sweep"}, op[t].at # None,
         NEW d \in Blocks \cup {None}, op' = [op EXCEPT ![t].at = d],
         UNCHANGED <<lock, reuse_lock>>
  PROVE  /\ op' \in [Threads -> OpType] /\ Others(op, op', t) /\ Shape(op'[t])
         /\ Locked(op'[t], t, lock', reuse_lock') /\ OldAlone(op', t)
         /\ ~Holder(op[t]) /\ ~Holder(op'[t]) /\ op'[t].pc # "reuse" /\ op'[t].pc = op[t].pc
         /\ op'[t].heap = op[t].heap /\ op'[t].class = op[t].class /\ op'[t].at = d
  <1>1. op[t].pc = "gc" => op[t].pc \in CallLabels
    BY DEF CallLabels
  <1>2. op[t].pc = "sweep" => op[t].pc \in FreeLabels /\ op[t].pc \notin CallLabels
    BY DEF CallLabels, FreeLabels
  <1>3. op \in [Threads -> OpType] /\ (op[t].pc = "gc" => op[t] \in CallType)
        /\ (op[t].pc = "sweep" => op[t] \in FreeType) /\ Shape(op[t])
    BY <1>1, <1>2, OpOf
  <1>4. /\ op' \in [Threads -> OpType] /\ Others(op, op', t) /\ op'[t].pc = op[t].pc
        /\ op'[t].heap = op[t].heap /\ op'[t].class = op[t].class /\ op'[t].at = d
        /\ op[t].pc = "gc" => op'[t].n = op[t].n /\ op'[t].old = op[t].old
    <2>1. CASE op[t].pc = "gc"
      BY <1>3, <2>1 DEF CallType, OpType, Others
    <2>2. CASE op[t].pc = "sweep"
      BY <1>3, <2>2 DEF FreeType, OpType, Others
    <2> QED BY <2>1, <2>2
  <1>5. ~Holder(op[t]) /\ ~Holder(op'[t]) /\ op'[t].pc # "reuse"
    BY <1>4 DEF Holder
  <1>6. Shape(op'[t])
    BY <1>2, <1>3, <1>4, <1>5, Zenon DEF Shape
  <1>7. Locked(op[t], t, lock, reuse_lock)
    BY Zenon DEF HeapInv, LocksOK
  <1>8. Locked(op'[t], t, lock', reuse_lock')
    BY <1>4, <1>7, Zenon DEF Locked, HasLock
  <1>9. OldAlone(op', t)
    <2>1. CASE op[t].pc = "gc"
      BY <1>1, <1>4, <2>1, OldKept
    <2>2. CASE op[t].pc = "sweep"
      BY <1>2, <1>4, <2>2, Zenon DEF OldAlone
    <2> QED BY <2>1, <2>2
  <1> QED BY <1>4, <1>5, <1>6, <1>8, <1>9

\* Nothing is held of a block that is empty.
LEMMA EmptyIs ==
  ASSUME HeapInv, NEW b \in Blocks, meta[b] # None, meta[b].class \in Classes, Empty(b)
  PROVE  Addrs(live, op, b) = {}
  <1>1. BlockOK(meta[b], slots[b], chunks[b], bump[b], Addrs(live, op, b))
    BY Zenon DEF HeapInv, Contents
  <1>2. meta[b].class # Big
    BY Sizes
  <1>3. /\ IsFiniteSet(Addrs(live, op, b)) /\ Addrs(live, op, b) \in SUBSET Nat
        /\ BlockMatch(meta[b].class, slots[b], chunks[b], bump[b], Addrs(live, op, b))
    BY <1>1, <1>2, Zenon DEF BlockOK
  <1>4. AllFree(chunks[b]) /\ slots[b].n = 0 /\ bump[b].n = bump[b].freed
    BY DEF Empty
  <1> QED BY <1>3, <1>4, EmptyMatch

\* An empty block is collected.
LEMMA GcBlockInv ==
  ASSUME HeapInv, NEW t \in Threads, GcBlock(t)
  PROVE  HeapInv'
  <1> DEFINE h == op[t].heap  c == op[t].class  b == op[t].at  d == Following(block_lists[h][c], b)
  <1>1. op[t].pc \in {"gc", "sweep"} /\ op[t].pc \in WalkLabels /\ b # None
    BY DEF GcBlock, At, WalkLabels
  <1>2. /\ h \in Heaps /\ c \in Classes /\ b \in Range(block_lists[h][c]) /\ b \in Blocks
        /\ meta[b] \in MetaType /\ meta[b] # None /\ meta[b].heap = h /\ meta[b].class = c
        /\ ~Retired(reuse_list, b)
    BY <1>1, AtBlock, Zenon
  <1>3. d \in Blocks \cup {None} /\ (d # None => d \in Range(block_lists[h][c]))
    BY <1>2, NextOfList
  <1>4. Lists(meta, block_lists, reuse_list) /\ OfBlocks(chunks)
    BY AllOfBlocks, Zenon DEF HeapInv
  <1>5. /\ chunks' = [chunks EXCEPT ![b] = IF Empty(b) THEN FreshChunks(TRUE) ELSE Coalesced(chunks[b])]
        /\ op' = [op EXCEPT ![t].at = d] /\ UNCHANGED <<lock, reuse_lock, live>>
    BY DEF GcBlock, RemoveBlock, reuse
  <1> HIDE DEF d
  <1>6. /\ op' \in [Threads -> OpType] /\ Others(op, op', t) /\ Shape(op'[t])
        /\ Locked(op'[t], t, lock', reuse_lock') /\ OldAlone(op', t)
        /\ ~Holder(op[t]) /\ ~Holder(op'[t]) /\ op'[t].pc # "reuse" /\ op'[t].pc = op[t].pc
        /\ op'[t].heap = h /\ op'[t].class = c /\ op'[t].at = d
    BY <1>1, <1>3, <1>5, GcMoves
  <1>7. /\ OfBlocks(chunks') /\ \A x \in Blocks : x # b => chunks'[x] = chunks[x]
        /\ chunks'[b] = IF Empty(b) THEN FreshChunks(TRUE) ELSE Coalesced(chunks[b])
    BY <1>2, <1>4, <1>5 DEF OfBlocks
  <1>8. CASE Empty(b)
    <2>1. RemoveBlock(h, b) /\ block_lists' = [block_lists EXCEPT ![h][c] = Without(block_lists[h][c], {b})]
      BY <1>8 DEF GcBlock
    <2>2. block_lists[h][c] \in Seq(Blocks) /\ IsInjective(block_lists[h][c])
      BY <1>2, <1>4, ListFacts
    <2> DEFINE s == Without(block_lists[h][c], {b})
    <2>3. s \in Seq(Blocks) /\ IsInjective(s) /\ Range(s) = Range(block_lists[h][c]) \ {b}
      BY <2>2, WithoutFacts
    <2>s. block_lists' = [block_lists EXCEPT ![h][c] = s]
      BY <2>1
    <2> HIDE DEF s, h, c, b
    <2>4. block_lists \in [Heaps -> [Classes -> Seq(Blocks)]]
      BY <1>4, Zenon DEF Lists
    <2>5. /\ block_lists' \in [Heaps -> [Classes -> Seq(Blocks)]] /\ block_lists'[h][c] = s
          /\ \A g \in Heaps, e \in Classes : g # h \/ e # c => block_lists'[g][e] = block_lists[g][e]
      BY <1>2, <2>3, <2>4, <2>s
    <2>6. ASSUME NEW g \in Heaps, NEW e \in Classes
          PROVE  /\ IsInjective(block_lists'[g][e])
                 /\ Range(block_lists'[g][e]) = Range(block_lists[g][e]) \ {b}
      <3>1. CASE g = h /\ e = c
        BY <2>3, <2>5, <3>1
      <3>2. CASE g # h \/ e # c
        <4>1. block_lists'[g][e] = block_lists[g][e] /\ IsInjective(block_lists[g][e])
          BY <1>4, <2>5, <3>2, ListFacts
        <4>2. b \notin Range(block_lists[g][e])
          BY <1>2, <1>4, <3>2, ListFacts
        <4> QED BY <4>1, <4>2
      <3> QED BY <3>1, <3>2
    <2>7. Delisted(b)
      BY <2>5, <2>6, Zenon DEF Delisted
    <2>8. Addrs(live, op, b) = {}
      BY <1>2, <1>8, EmptyIs
    <2>9. \A x : Addrs(live', op', x) = Addrs(live, op, x)
      BY <1>5, <1>6, AddrsSame, Zenon
    <2>10. \A u \in Threads : u # t /\ op[u].pc \in WalkLabels \cup {"reuse"} => op[u].at # b
      BY <1>1, AtBlockAlone DEF b
    <2>11. Emptied(t, b)
      BY <1>7, <1>8, <2>8, <2>9, <2>10, Zenon DEF Emptied
    <2>12. op'[t].pc \in WalkLabels /\ op'[t].at # None =>
             op'[t].at \in Range(block_lists'[op'[t].heap][op'[t].class])
      <3>1. d # b
        BY <1>2, <2>2, NoneIsNoBlock, FollowingOther DEF d, h, c, b
      <3> QED BY <1>3, <1>6, <2>3, <2>5, <3>1
    <2> QED BY <1>2, <1>5, <1>6, <2>1, <2>7, <2>11, <2>12, RemoveStep
  <1>9. CASE ~Empty(b)
    <2>1. UNCHANGED <<meta, slots, bump, reuse, block_lists>>
      BY <1>9 DEF GcBlock
    <2>2. UNCHANGED placing /\ slots' = slots /\ bump' = bump
      BY <2>1 DEF placing, reuse
    <2> HIDE DEF h, c, b
    <2>3. c # Big
      BY <1>2, Sizes
    <2>4. BlockOK(meta[b], slots[b], chunks[b], bump[b], Addrs(live, op, b)) /\ OfBlocks(slots) /\ OfBlocks(bump)
      BY <1>2, Zenon DEF HeapInv, Contents
    <2>5. BlockMatch(c, slots[b], chunks[b], bump[b], Addrs(live, op, b))
      BY <1>2, <2>3, <2>4, Zenon DEF BlockOK
    <2>6. BlockMatch(c, slots[b], Coalesced(chunks[b]), bump[b], Addrs(live, op, b))
      BY <2>5, CoalescedMatch
    <2>7. BumpBase(c) <= bump[b].at
      BY <1>2, Zenon DEF HeapInv, BumpsBased
    <2>8. CountsAt(b, Addrs(live, op, b))
      BY <1>2, <1>7, <1>9, <2>2, <2>4, <2>6, <2>7, Zenon DEF CountsAt
    <2>9. Placed(op'[t], meta, block_lists, reuse_list)
      BY <1>3, <1>6, Zenon DEF Placed
    <2>10. KeepsLocks(t)
      BY <1>5, KeptLocks
    <2>11. meta[b].class # Big
      BY <1>2, <2>3
    <2> QED BY <1>2, <1>5, <1>6, <2>2, <2>8, <2>9, <2>10, <2>11, RecountStep
  <1> QED BY <1>8, <1>9

\* A big block is freed.
LEMMA FreeBigInv ==
  ASSUME HeapInv, NEW t \in Threads, FreeBig(t)
  PROVE  HeapInv'
  <1> DEFINE h == op[t].heap  b == op[t].at
  <1>1. /\ op[t].pc = "free" /\ op[t].class = Big /\ RemoveBlock(h, b) /\ op' = Set(op, t, Idle)
        /\ UNCHANGED <<lock, reuse_lock, live, chunks, block_lists>>
    BY DEF FreeBig, RemoveBlock
  <1>2. Holder(op[t]) /\ op[t].pc \in FreeLabels
    BY <1>1 DEF Holder, FreeLabels
  <1>3. b \in Blocks /\ meta[b].class = Big /\ op[t].mem \in Addrs(live, op, b)
    BY <1>1, FreeCounts, Zenon
  <1>4. Used(meta, block_lists, reuse_list, b) /\ meta[b].heap = h /\ h \in Heaps
    BY <1>2, WalkClass, Zenon DEF HeapInv, AllPlaced, Placed
  <1>5. meta[b] # None /\ meta[b] \in MetaType
    BY <1>3, <1>4, UsedIs
  <1>6. ~Retired(reuse_list, b)
    BY <1>4, Zenon DEF Used
  <1>i. /\ Lists(meta, block_lists, reuse_list) /\ AllPlaced(live, op, meta, block_lists, reuse_list)
        /\ HeldOnce(live, op) /\ Contents(meta, slots, chunks, bump, live, op)
    BY Zenon DEF HeapInv
  <1>7. \A g \in Heaps, c \in Classes : b \notin Range(block_lists[g][c])
    <2>1. ASSUME NEW g \in Heaps, NEW c \in Classes, b \in Range(block_lists[g][c]) PROVE FALSE
      <3>1. meta[b].class = c /\ c # Big
        BY <1>i, <2>1, ListFacts, Sizes
      <3> QED BY <1>3, <3>1
    <2> QED BY <2>1
  <1>8. Delisted(b)
    <2>1. block_lists \in [Heaps -> [Classes -> Seq(Blocks)]]
      BY <1>i, Zenon DEF Lists
    <2>2. ASSUME NEW g \in Heaps, NEW c \in Classes
          PROVE  /\ IsInjective(block_lists[g][c])
                 /\ Range(block_lists[g][c]) = Range(block_lists[g][c]) \ {b}
      BY <1>i, <1>7, ListFacts
    <2> QED BY <1>1, <2>1, <2>2, Zenon DEF Delisted
  <1>9. Idle \in OpType /\ Idle.pc = "idle"
    BY DEF OpType, Idle
  <1>10. op' \in [Threads -> OpType] /\ Others(op, op', t) /\ op'[t] = Idle
    BY <1>1, <1>9, OpOf, OpSet DEF Set
  <1>11. /\ ~Holder(Idle) /\ Idle.pc \notin CallLabels /\ Idle.pc \notin WalkLabels /\ Idle.pc \notin LockedLabels
         /\ Idle.pc # "reuse" /\ Idle.pc # "lock" /\ Idle.pc # "sweeplock"
    BY <1>9 DEF Holder, CallLabels, WalkLabels, LockedLabels
  <1>12. /\ OldAlone(op', t) /\ Shape(op'[t]) /\ Locked(op'[t], t, lock', reuse_lock')
         /\ ~Holder(op'[t]) /\ op'[t].pc # "reuse" /\ op'[t].pc \notin WalkLabels
    BY <1>10, <1>11, Zenon DEF OldAlone, Shape, Locked, HasLock
  <1>13. /\ Addrs(live, op', b) = Addrs(live, op, b) \ {op[t].mem}
         /\ \A x : x # b => Addrs(live, op', x) = Addrs(live, op, x)
    BY <1>i, <1>2, <1>10, <1>12, AddrsGive
  <1>14. Addrs(live', op', b) = {}
    <2>1. BlockOK(meta[b], slots[b], chunks[b], bump[b], Addrs(live, op, b))
      BY <1>i, <1>3, Zenon DEF Contents
    <2>2. \A u, v \in Addrs(live, op, b) : u = v
      BY <1>3, <1>5, <2>1, Zenon DEF BlockOK
    <2> QED BY <1>1, <1>3, <1>13, <2>2
  <1>15. ASSUME NEW u \in Threads, u # t, op[u].pc \in WalkLabels \cup {"reuse"} PROVE op[u].at # b
    <2>1. CASE op[u].pc = "reuse"
      BY <1>i, <1>3, <2>1 DEF AllPlaced
    <2>2. CASE op[u].pc \in WalkLabels
      <3>1. op[u].at # None => op[u].at \in Range(block_lists[op[u].heap][op[u].class])
                                 /\ op[u].heap \in Heaps /\ op[u].class \in Classes
        BY <2>2, AtBlock, Zenon
      <3> QED BY <1>3, <1>7, <3>1, NoneIsNoBlock
    <2> QED BY <1>15, <2>1, <2>2
  <1> HIDE DEF b, h
  <1>16. Emptied(t, b)
    <2>1. OfBlocks(chunks)
      BY AllOfBlocks
    <2> QED BY <1>1, <1>3, <1>13, <1>14, <1>15, <2>1, Zenon DEF Emptied
  <1> QED BY <1>1, <1>3, <1>4, <1>5, <1>6, <1>8, <1>10, <1>12, <1>16, RemoveStep

\* The best fit is one of those that fit.
LEMMA BestFitIs ==
  ASSUME HeapInv, NEW h \in Heaps, NEW is \in SUBSET (1 .. Len(reuse_list[h])), is # {}
  PROVE  BestFit(h, is) \in is
  <1> DEFINE f(i) == SizeAt(h, i)
             S == {i \in is : \A j \in is : f(i) <= f(j)}
  <1>0. reuse_list[h] \in Seq(Blocks) /\ \A x \in Range(reuse_list[h]) : meta[x].size \in Nat
    BY RetiredSizes
  <1>1. \A i \in is : f(i) \in Nat
    <2>1. ASSUME NEW i \in is PROVE reuse_list[h][i] \in Range(reuse_list[h])
      BY <1>0, OfRange
    <2> QED BY <1>0, <2>1 DEF SizeAt
  <1>2. Len(reuse_list[h]) \in Nat
    BY <1>0
  <1>3. BestFit(h, is) = Min(S)
    BY DEF BestFit
  <1>4. S # {}
    <2> DEFINE B == {f(i) : i \in is}
    <2>1. B \in SUBSET Nat /\ B # {}
      BY <1>1
    <2>2. PICK n \in B : \A m \in B : n <= m
      <3> HIDE DEF B
      <3> QED BY <2>1, SmallestNat
    <2> QED BY <2>2
  <1>5. S \in SUBSET Nat
    <2>1. S \subseteq is
      <3> HIDE DEF f
      <3> QED OBVIOUS
    <2>2. is \subseteq Nat
      BY <1>2
    <2> HIDE DEF S
    <2> QED BY <2>1, <2>2
  <1>6. Min(S) \in S
    <2> HIDE DEF S
    <2> QED BY <1>4, <1>5, MinIsLeast
  <1> QED BY <1>3, <1>6

\* Nothing is held of a block that is kept for reuse.
LEMMA NoneHeld ==
  ASSUME HeapInv, NEW b, ~Used(meta, block_lists, reuse_list, b)
  PROVE  Addrs(live, op, b) = {}
  <1>1. /\ \A p \in live : Used(meta, block_lists, reuse_list, p.block)
        /\ \A t \in Threads : Holder(op[t]) => Used(meta, block_lists, reuse_list, op[t].at)
    BY Zenon DEF HeapInv, AllPlaced, Placed
  <1>2. ASSUME NEW x, x \in Addrs(live, op, b) PROVE FALSE
    <2>1. \/ \E p \in live : p.block = b /\ p.at = x
          \/ \E t \in Threads : Holder(op[t]) /\ op[t].at = b /\ op[t].mem = x
      BY <1>2, InAddrs
    <2> QED BY <1>1, <2>1, Zenon
  <1> QED BY <1>2

\* A block is unlinked from the retired ones.
LEMMA UnlinkReuseInv ==
  ASSUME HeapInv, NEW t \in Threads, UnlinkReuse(t)
  PROVE  HeapInv'
  <1> DEFINE h == op[t].heap  s == reuse_list[h]  i == BestFit(h, Enough(t))  b == s[i]
  <1>i. /\ OpsOK(op) /\ LocksOK(op, lock, reuse_lock) /\ OldsOK(live, op) /\ HeldOnce(live, op)
        /\ Lists(meta, block_lists, reuse_list)
        /\ reuse_size \in [Heaps -> Int] /\ reuse_bytes \in Int
        /\ AllPlaced(live, op, meta, block_lists, reuse_list)
        /\ Contents(meta, slots, chunks, bump, live, op) /\ BumpsBased(block_lists, bump)
    BY Zenon DEF HeapInv
  <1>1. /\ op[t].pc = "get" /\ reuse_lock[h] = None /\ Enough(t) # {}
        /\ reuse_lock' = Set(reuse_lock, h, t)
        /\ reuse_list' = [reuse_list EXCEPT ![h] = RemoveAt(s, i)]
        /\ reuse_size' = [reuse_size EXCEPT ![h] = @ - SizeAt(h, i)]
        /\ op' = [op EXCEPT ![t].pc = "reuse", ![t].at = b]
    BY DEF UnlinkReuse
  <1>u. /\ meta' = meta /\ slots' = slots /\ chunks' = chunks /\ bump' = bump
        /\ block_lists' = block_lists /\ lock' = lock /\ reuse_bytes' = reuse_bytes /\ live' = live
    BY DEF UnlinkReuse, inside
  <1>2. op[t].pc \in CallLabels /\ op[t].pc \in CallLabels \cup FreeLabels
    BY <1>1 DEF CallLabels
  <1>3. h \in Heaps /\ op[t].class \in 0 .. NrClasses
    BY <1>2, WalkClass
  <1>4. /\ s \in Seq(Blocks) /\ IsInjective(s)
        /\ \A x \in Range(s) : x \in Blocks /\ meta[x] # None /\ meta[x].heap = h /\ meta[x].size \in Nat
    BY <1>3, RetiredSizes
  <1>5. i \in 1 .. Len(s)
    <2>1. Enough(t) \in SUBSET (1 .. Len(s))
      BY <1>4 DEF Enough
    <2>2. i \in Enough(t)
      BY <1>1, <1>3, <2>1, BestFitIs
    <2> QED BY <2>1, <2>2
  <1> HIDE DEF i
  <1>6. b \in Range(s)
    BY <1>4, <1>5, OfRange
  <1>7. /\ RemoveAt(s, i) \in Seq(Blocks) /\ IsInjective(RemoveAt(s, i))
        /\ Range(RemoveAt(s, i)) = Range(s) \ {b}
    BY <1>4, <1>5, RemoveAtFacts
  <1>b. b \in Blocks /\ meta[b] # None /\ meta[b].heap = h /\ SizeAt(h, i) \in Nat
    BY <1>4, <1>6 DEF SizeAt
  <1>8. op \in [Threads -> OpType] /\ op[t] \in CallType
    BY <1>2, OpOf
  <1>9. CallStep(op, op', t) /\ op'[t].pc = "reuse" /\ op'[t].at = b
    <2>1. "reuse" \in CallLabels
      BY DEF CallLabels
    <2> HIDE DEF b
    <2> QED BY <1>b, <1>1, <1>8, <2>1 DEF CallType, OpType, CallStep, SameCall, Others
  <1> HIDE DEF b
  <1>10. /\ op' \in [Threads -> OpType] /\ Others(op, op', t) /\ op'[t].heap = h
         /\ op'[t].class = op[t].class /\ op'[t].n = op[t].n /\ op'[t].old = op[t].old
    BY <1>9, Zenon DEF CallStep, SameCall
  <1> HIDE DEF h
  <1>11. /\ op'[t].pc \notin WalkLabels /\ ~Holder(op'[t]) /\ ~Holder(op[t])
         /\ op'[t].pc \notin WalkLabels \cup {"lock", "sweeplock"}
    BY <1>1, <1>9 DEF WalkLabels, Holder
  <1>l. reuse_lock' \in ReuseLockType /\ reuse_lock'[h] = t
        /\ \A g \in Heaps : g # h => reuse_lock'[g] = reuse_lock[g]
    BY <1>i, <1>1, <1>3 DEF Set, LocksOK, ReuseLockType
  <1>12. Shape(op'[t])
    <2>1. op[t].class # Big => op[t].n <= SizeOf(op[t].class)
      BY <1>2, OpOf, Zenon DEF Shape
    <2> QED BY <1>b, <1>9, <1>10, <1>11, <2>1, Zenon DEF Shape
  <1>13. OpsOK(op')
    BY <1>i, <1>10, <1>12, OpsStep, Zenon
  <1>14. LocksOK(op', lock', reuse_lock')
    <2>1. HasLock(op[t]) <=> op[t].class # Big
      BY <1>1 DEF HasLock, LockedLabels
    <2>2. HasLock(op[t]) => lock[op[t].heap][op[t].class] = t
      BY WalkClass, Zenon
    <2>3. Locked(op'[t], t, lock', reuse_lock')
      BY <1>u, <1>9, <1>10, <1>l, <2>1, <2>2, Zenon DEF Locked, HasLock, h
    <2>4. \A g \in Heaps : /\ reuse_lock[g] \in Threads \ {t} => reuse_lock'[g] = reuse_lock[g]
                           /\ \A c \in Classes : lock[g][c] \in Threads \ {t} => lock'[g][c] = lock[g][c]
      BY <1>1, <1>u, <1>l, NoneIsNoBlock DEF h
    <2>5. lock' \in LockType
      BY <1>i, <1>u, Zenon DEF LocksOK
    <2> QED BY <1>i, <1>10, <1>l, <2>3, <2>4, <2>5, LocksStep
  <1>15. OldsOK(live', op')
    <2>1. OldAlone(op', t)
      BY <1>2, <1>10, OldKept
    <2> QED BY <1>i, <1>u, <1>10, <2>1, OldsStep, Zenon DEF OldAlone
  <1>16. HeldOnce(live', op')
    BY <1>i, <1>u, <1>10, <1>11, HeldLess, Zenon
  <1>17. \A x : Addrs(live', op', x) = Addrs(live, op, x)
    BY <1>u, <1>10, <1>11, AddrsSame, Zenon
  <1>18. /\ reuse_list' \in [Heaps -> Seq(Blocks)] /\ reuse_list'[h] = RemoveAt(s, i)
         /\ \A g \in Heaps : g # h => reuse_list'[g] = reuse_list[g]
    <2>1. reuse_list \in [Heaps -> Seq(Blocks)]
      BY <1>i, Zenon DEF Lists
    <2> DEFINE r == RemoveAt(s, i)
    <2>2. reuse_list' = [reuse_list EXCEPT ![h] = r] /\ r \in Seq(Blocks)
      BY <1>1, <1>7 DEF h
    <2> HIDE DEF r
    <2>3. /\ reuse_list' \in [Heaps -> Seq(Blocks)] /\ reuse_list'[h] = r
          /\ \A g \in Heaps : g # h => reuse_list'[g] = reuse_list[g]
      BY <1>3, <2>1, <2>2
    <2> QED BY <2>3 DEF r
  <1>19. \A g \in Heaps : /\ IsInjective(reuse_list'[g]) /\ Range(reuse_list'[g]) \subseteq Range(reuse_list[g])
                          /\ b \notin Range(reuse_list'[g])
    <2>1. ASSUME NEW g \in Heaps
          PROVE  /\ IsInjective(reuse_list'[g]) /\ Range(reuse_list'[g]) \subseteq Range(reuse_list[g])
                 /\ b \notin Range(reuse_list'[g])
      <3>1. CASE g = h
        BY <1>7, <1>18, <3>1
      <3>2. CASE g # h
        BY <1>b, <1>18, <3>2, RetiredSizes
      <3> QED BY <3>1, <3>2
    <2> QED BY <2>1
  <1>20. \A x : Retired(reuse_list', x) => Retired(reuse_list, x) /\ x # b
    BY <1>19, Zenon DEF Retired
  <1>21. Lists(meta', block_lists', reuse_list')
    <2>1. \A g \in Heaps : \A x \in Range(reuse_list'[g]) : meta[x] # None /\ meta[x].heap = g
      BY <1>19, RetiredSizes
    <2>2. ASSUME NEW g \in Heaps, NEW c \in Classes, NEW x \in Range(block_lists[g][c])
          PROVE  /\ meta[x] # None /\ meta[x].heap = g /\ meta[x].class = c /\ ~Retired(reuse_list', x)
      BY <1>i, <1>20, ListFacts
    <2>3. \A g \in Heaps, c \in Classes : IsInjective(block_lists[g][c])
      BY <1>i, ListFacts
    <2>4. meta \in [Blocks -> MetaType \cup {None}] /\ block_lists \in [Heaps -> [Classes -> Seq(Blocks)]]
      BY <1>i, Zenon DEF Lists
    <2>5. \A g \in Heaps : IsInjective(reuse_list'[g])
      BY <1>19
    <2>6. Lists(meta, block_lists, reuse_list')
      BY <1>18, <2>1, <2>2, <2>3, <2>4, <2>5, Zenon DEF Lists
    <2> QED BY <1>u, <2>6, Zenon
  <1>22. Retired(reuse_list, b)
    BY <1>3, <1>6, Zenon DEF Retired, h
  <1>23. Between(meta, block_lists, reuse_list', b)
    <2>1. ~Retired(reuse_list', b)
      BY <1>20, Zenon
    <2>2. ~Listed(block_lists, b)
      <3>1. ASSUME NEW g \in Heaps, NEW c \in Classes, b \in Range(block_lists[g][c]) PROVE FALSE
        BY <1>i, <1>22, <3>1, ListFacts
      <3> QED BY <3>1, Zenon DEF Listed
    <2> QED BY <1>b, <2>1, <2>2, Zenon DEF Between
  <1>24. AllPlaced(live', op', meta', block_lists', reuse_list')
    <2>1. \A p \in live : Used(meta, block_lists, reuse_list', p.block)
      BY <1>i, <1>20, Zenon DEF AllPlaced, Used
    <2>2. ASSUME NEW u \in Threads PROVE Placed(op'[u], meta, block_lists, reuse_list')
      <3>1. CASE u = t
        BY <1>b, <1>9, <1>10, <1>11, <1>23, <3>1, Zenon DEF Placed
      <3>2. CASE u # t
        <4>1. op'[u] = op[u]
          BY <1>10, <3>2, Zenon DEF Others
        <4>2. Placed(op[u], meta, block_lists, reuse_list)
          BY <1>i, Zenon DEF AllPlaced
        <4> QED BY <1>20, <4>1, <4>2, Zenon DEF Placed, Used, Between
      <3> QED BY <3>1, <3>2
    <2>3. ASSUME NEW u \in Threads, op'[u].pc = "reuse" PROVE Addrs(live', op', op'[u].at) = {}
      <3>1. CASE u = t
        <4>1. ~Used(meta, block_lists, reuse_list, b)
          BY <1>22, Zenon DEF Used
        <4>2. Addrs(live, op, b) = {}
          BY <4>1, NoneHeld
        <4> QED BY <1>9, <1>17, <3>1, <4>2
      <3>2. CASE u # t
        <4>1. op'[u] = op[u]
          BY <1>10, <3>2, Zenon DEF Others
        <4> QED BY <1>i, <1>17, <2>3, <4>1 DEF AllPlaced
      <3> QED BY <3>1, <3>2
    <2> QED BY <1>u, <2>1, <2>2, <2>3, Zenon DEF AllPlaced
  <1>25. Contents(meta', slots', chunks', bump', live', op')
    BY <1>i, <1>u, <1>17, Zenon DEF Contents
  <1>26. reuse_size' \in [Heaps -> Int]
    <2> DEFINE z == SizeAt(h, i)
    <2>1. reuse_size' = [reuse_size EXCEPT ![h] = @ - z] /\ z \in Nat
      BY <1>1, <1>b DEF h
    <2> HIDE DEF z
    <2>2. reuse_size \in [Heaps -> Int]
      BY <1>i
    <2> QED BY <1>3, <2>1, <2>2
  <1> QED BY <1>i, <1>u, <1>13, <1>14, <1>15, <1>16, <1>21, <1>24, <1>25, <1>26, Zenon DEF HeapInv

\* A block is got, and the other lists for reuse may lose some of theirs.
Gained(t, b) ==
  /\ reuse_list' \in [Heaps -> Seq(Blocks)]
  /\ \A g \in Heaps : IsInjective(reuse_list'[g]) /\ Range(reuse_list'[g]) \subseteq Range(reuse_list[g])
  /\ \A g \in Heaps : \A x \in Range(reuse_list'[g]) : meta'[x] # None /\ meta'[x].heap = g
  /\ meta' \in [Blocks -> MetaType \cup {None}]
  /\ \A x \in Blocks : x # b /\ ~Retired(reuse_list, x) => meta'[x] = meta[x]
  /\ \A x \in Blocks : x # b /\ meta'[x] # None => meta[x] # None /\ meta'[x].class = meta[x].class
  /\ meta'[b] # None /\ meta'[b].heap = op[t].heap /\ meta'[b].class = op[t].class
  /\ ~Retired(reuse_list, b) /\ ~Listed(block_lists, b) /\ Addrs(live, op, b) = {}
  /\ \A u \in Threads : u # t /\ op[u].pc = "reuse" => op[u].at # b
  /\ reuse_size' \in [Heaps -> Int] /\ reuse_bytes' \in Int

GainLocks(t) ==
  /\ lock' = lock /\ reuse_lock' \in ReuseLockType
  /\ \A g \in Heaps : reuse_lock[g] \in Threads \ {t} => reuse_lock'[g] = reuse_lock[g]

\* What is not about the way the block is added.
LEMMA GainedFacts ==
  ASSUME HeapInv, NEW t \in Threads, NEW b \in Blocks, Gained(t, b)
  PROVE  /\ \A x : Retired(reuse_list', x) => Retired(reuse_list, x)
         /\ \A x \in Blocks : Used(meta, block_lists, reuse_list, x) /\ x # b =>
              meta'[x] = meta[x] /\ ~Retired(reuse_list', x) /\ meta'[x] # None
         /\ \A x \in Blocks : Between(meta, block_lists, reuse_list, x) /\ x # b =>
              meta'[x] = meta[x] /\ ~Retired(reuse_list', x) /\ meta'[x] # None
         /\ \A g \in Heaps, c \in Classes : \A x \in Range(block_lists[g][c]) :
              /\ x # b /\ x \in Blocks /\ meta'[x] # None /\ meta'[x].heap = g /\ meta'[x].class = c
              /\ ~Retired(reuse_list', x)
  <1>i. Lists(meta, block_lists, reuse_list)
    BY Zenon DEF HeapInv
  <1>1. /\ \A g \in Heaps : Range(reuse_list'[g]) \subseteq Range(reuse_list[g])
        /\ \A x \in Blocks : x # b /\ ~Retired(reuse_list, x) => meta'[x] = meta[x]
        /\ meta'[b] # None /\ ~Retired(reuse_list, b) /\ ~Listed(block_lists, b)
        /\ Addrs(live, op, b) = {}
    BY Zenon DEF Gained
  <1>2. \A x : Retired(reuse_list', x) => Retired(reuse_list, x)
    BY <1>1 DEF Retired
  <1>3. ASSUME NEW x \in Blocks, Used(meta, block_lists, reuse_list, x), x # b
        PROVE  meta'[x] = meta[x] /\ ~Retired(reuse_list', x) /\ meta'[x] # None
    BY <1>1, <1>2, <1>3 DEF Used
  <1>4. \A x \in Blocks : Between(meta, block_lists, reuse_list, x) /\ x # b =>
          meta'[x] = meta[x] /\ ~Retired(reuse_list', x) /\ meta'[x] # None
    BY <1>1, <1>2 DEF Between
  <1>5. ASSUME NEW g \in Heaps, NEW c \in Classes, NEW x \in Range(block_lists[g][c])
        PROVE  /\ x # b /\ x \in Blocks /\ meta'[x] # None /\ meta'[x].heap = g /\ meta'[x].class = c
               /\ ~Retired(reuse_list', x)
    <2>1. /\ x \in Blocks /\ meta[x] # None /\ meta[x].heap = g /\ meta[x].class = c
          /\ ~Retired(reuse_list, x) /\ Listed(block_lists, x)
      BY <1>i, <1>5, ListFacts
    <2>2. x # b
      BY <1>1, <2>1
    <2> QED BY <1>1, <1>2, <2>1, <2>2
  <1> QED BY <1>2, <1>3, <1>4, <1>5

\* The block joins its list, or holds the one object.
Joined(t, b) ==
  IF op[t].class = Big THEN block_lists' = block_lists
  ELSE /\ block_lists' \in [Heaps -> [Classes -> Seq(Blocks)]]
       /\ \A g \in Heaps, c \in Classes :
            /\ IsInjective(block_lists'[g][c])
            /\ Range(block_lists'[g][c]) =
                 IF g = op[t].heap /\ c = op[t].class THEN {b} \cup Range(block_lists[g][c])
                 ELSE Range(block_lists[g][c])

\* AddBlock in terms of the lists.
LEMMA JoinedIs ==
  ASSUME HeapInv, NEW t \in Threads, op[t].heap \in Heaps, op[t].class \in 0 .. NrClasses,
         NEW b \in Blocks, ~Listed(block_lists, b), AddBlock(t, b)
  PROVE  Joined(t, b)
  <1> DEFINE h == op[t].heap  c == op[t].class
  <1>1. CASE c = Big
    BY <1>1 DEF AddBlock, Joined
  <1>2. CASE c # Big
    <2>1. c \in Classes
      BY <1>2, Geometry DEF Big, Classes
    <2>i. Lists(meta, block_lists, reuse_list)
      BY Zenon DEF HeapInv
    <2> DEFINE s == block_lists[h][c]  r == <<b>> \o s
    <2>2. s \in Seq(Blocks) /\ IsInjective(s) /\ b \notin Range(s)
      BY <2>1, <2>i, ListFacts DEF Listed
    <2>3. block_lists' = [block_lists EXCEPT ![h][c] = r]
      BY <1>2 DEF AddBlock
    <2> HIDE DEF s
    <2>4. r \in Seq(Blocks) /\ IsInjective(r) /\ Range(r) = {b} \cup Range(s)
      BY <2>2, ConsFacts, Zenon
    <2> HIDE DEF r
    <2>5. block_lists \in [Heaps -> [Classes -> Seq(Blocks)]]
      BY <2>i, Zenon DEF Lists
    <2> HIDE DEF h, c
    <2>6. /\ block_lists' \in [Heaps -> [Classes -> Seq(Blocks)]] /\ block_lists'[h][c] = r
          /\ \A g \in Heaps, e \in Classes : g # h \/ e # c => block_lists'[g][e] = block_lists[g][e]
      BY <2>1, <2>3, <2>4, <2>5 DEF h
    <2>7. ASSUME NEW g \in Heaps, NEW e \in Classes
          PROVE  /\ IsInjective(block_lists'[g][e])
                 /\ Range(block_lists'[g][e]) =
                      IF g = h /\ e = c THEN {b} \cup Range(block_lists[g][e])
                      ELSE Range(block_lists[g][e])
      <3>1. CASE g = h /\ e = c
        BY <2>4, <2>6, <3>1 DEF s
      <3>2. CASE g # h \/ e # c
        BY <2>6, <2>i, <3>2, ListFacts
      <3> QED BY <3>1, <3>2
    <2> QED BY <1>2, <2>6, <2>7, Zenon DEF Joined, h, c
  <1> QED BY <1>1, <1>2

\* The lists once a block was added.
LEMMA JoinedRanges ==
  ASSUME HeapInv, NEW t \in Threads, NEW b \in Blocks, Joined(t, b),
         NEW g \in Heaps, NEW c \in Classes
  PROVE  /\ IsInjective(block_lists'[g][c])
         /\ Range(block_lists[g][c]) \subseteq Range(block_lists'[g][c])
         /\ \A x \in Range(block_lists'[g][c]) :
              \/ x \in Range(block_lists[g][c])
              \/ x = b /\ op[t].class # Big /\ g = op[t].heap /\ c = op[t].class
  <1>1. Lists(meta, block_lists, reuse_list)
    BY Zenon DEF HeapInv
  <1>2. CASE op[t].class = Big
    BY <1>1, <1>2, ListFacts DEF Joined
  <1>3. CASE op[t].class # Big
    <2>1. /\ IsInjective(block_lists'[g][c])
          /\ Range(block_lists'[g][c]) =
               IF g = op[t].heap /\ c = op[t].class THEN {b} \cup Range(block_lists[g][c])
               ELSE Range(block_lists[g][c])
      BY <1>3, Zenon DEF Joined
    <2> QED BY <1>3, <2>1
  <1> QED BY <1>2, <1>3

\* The lists after the step.
LEMMA GainedLists ==
  ASSUME HeapInv, NEW t \in Threads, NEW b \in Blocks, Gained(t, b), Joined(t, b)
  PROVE  /\ Lists(meta', block_lists', reuse_list')
         /\ \A x \in Blocks : Used(meta, block_lists, reuse_list, x) /\ x # b =>
              Used(meta', block_lists', reuse_list', x) /\ meta'[x] = meta[x]
         /\ \A x \in Blocks : Between(meta, block_lists, reuse_list, x) /\ x # b =>
              Between(meta', block_lists', reuse_list', x) /\ meta'[x] = meta[x]
         /\ \A g \in Heaps, c \in Classes :
              Range(block_lists[g][c]) \subseteq Range(block_lists'[g][c])
  <1>1. /\ \A x \in Blocks : Used(meta, block_lists, reuse_list, x) /\ x # b =>
             meta'[x] = meta[x] /\ ~Retired(reuse_list', x) /\ meta'[x] # None
        /\ \A x \in Blocks : Between(meta, block_lists, reuse_list, x) /\ x # b =>
             meta'[x] = meta[x] /\ ~Retired(reuse_list', x) /\ meta'[x] # None
        /\ \A x : Retired(reuse_list', x) => Retired(reuse_list, x)
    BY GainedFacts
  <1>2. \A g \in Heaps, c \in Classes : \A x \in Range(block_lists[g][c]) :
          /\ x # b /\ x \in Blocks /\ meta'[x] # None /\ meta'[x].heap = g /\ meta'[x].class = c
          /\ ~Retired(reuse_list', x)
    BY GainedFacts
  <1>3. /\ reuse_list' \in [Heaps -> Seq(Blocks)]
        /\ \A g \in Heaps : IsInjective(reuse_list'[g])
        /\ \A g \in Heaps : \A x \in Range(reuse_list'[g]) : meta'[x] # None /\ meta'[x].heap = g
        /\ meta' \in [Blocks -> MetaType \cup {None}]
        /\ meta'[b] # None /\ meta'[b].heap = op[t].heap /\ meta'[b].class = op[t].class
        /\ ~Retired(reuse_list, b)
    BY Zenon DEF Gained
  <1>4. ASSUME NEW g \in Heaps, NEW c \in Classes
        PROVE  /\ IsInjective(block_lists'[g][c])
               /\ Range(block_lists[g][c]) \subseteq Range(block_lists'[g][c])
               /\ \A x \in Range(block_lists'[g][c]) :
                    /\ meta'[x] # None /\ meta'[x].heap = g /\ meta'[x].class = c
                    /\ ~Retired(reuse_list', x) /\ (x \in Range(block_lists[g][c]) \/ x = b)
    <2>1. /\ IsInjective(block_lists'[g][c])
          /\ Range(block_lists[g][c]) \subseteq Range(block_lists'[g][c])
          /\ \A x \in Range(block_lists'[g][c]) :
               \/ x \in Range(block_lists[g][c])
               \/ x = b /\ op[t].class # Big /\ g = op[t].heap /\ c = op[t].class
      BY JoinedRanges
    <2>2. ASSUME NEW x \in Range(block_lists'[g][c])
          PROVE  /\ meta'[x] # None /\ meta'[x].heap = g /\ meta'[x].class = c
                 /\ ~Retired(reuse_list', x) /\ (x \in Range(block_lists[g][c]) \/ x = b)
      <3>1. CASE x \in Range(block_lists[g][c])
        BY <1>2, <3>1
      <3>2. CASE x = b /\ op[t].class # Big /\ g = op[t].heap /\ c = op[t].class
        BY <1>1, <1>3, <3>2, Zenon
      <3> QED BY <2>1, <3>1, <3>2
    <2> QED BY <2>1, <2>2
  <1>5. block_lists' \in [Heaps -> [Classes -> Seq(Blocks)]]
    <2>1. block_lists \in [Heaps -> [Classes -> Seq(Blocks)]]
      BY Zenon DEF HeapInv, Lists
    <2> QED BY <2>1, Zenon DEF Joined
  <1>6. Lists(meta', block_lists', reuse_list')
    <2>1. \A g \in Heaps : IsInjective(reuse_list'[g]) /\ \A c \in Classes : IsInjective(block_lists'[g][c])
      BY <1>3, <1>4
    <2>2. \A g \in Heaps, c \in Classes : \A x \in Range(block_lists'[g][c]) :
            meta'[x] # None /\ meta'[x].heap = g /\ meta'[x].class = c /\ ~Retired(reuse_list', x)
      BY <1>4
    <2> QED BY <1>3, <1>5, <2>1, <2>2, Zenon DEF Lists
  <1>7. ASSUME NEW x, x # b PROVE Listed(block_lists', x) <=> Listed(block_lists, x)
    <2>1. ASSUME NEW g \in Heaps, NEW c \in Classes
          PROVE  x \in Range(block_lists'[g][c]) <=> x \in Range(block_lists[g][c])
      BY <1>4, <1>7
    <2> QED BY <2>1, Zenon DEF Listed
  <1>8. \A x \in Blocks : Used(meta, block_lists, reuse_list, x) /\ x # b =>
          Used(meta', block_lists', reuse_list', x) /\ meta'[x] = meta[x]
    BY <1>1, <1>7, Zenon DEF Used
  <1>9. \A x \in Blocks : Between(meta, block_lists, reuse_list, x) /\ x # b =>
          Between(meta', block_lists', reuse_list', x) /\ meta'[x] = meta[x]
    BY <1>1, <1>7, Zenon DEF Between
  <1> QED BY <1>4, <1>6, <1>8, <1>9

\* What the call does with the block.
LEMMA AddOp ==
  ASSUME HeapInv, NEW t \in Threads, op[t].pc \in {"get", "reuse"}, NEW b \in Blocks, AddBlock(t, b),
         GainLocks(t)
  PROVE  /\ op' \in [Threads -> OpType] /\ Others(op, op', t) /\ op'[t].at = b
         /\ op'[t].heap = op[t].heap /\ op'[t].class = op[t].class
         /\ op'[t].pc = (IF op[t].class = Big THEN "done" ELSE "walk")
         /\ op[t].class = Big => op'[t].mem \in Nat
         /\ OpsOK(op') /\ LocksOK(op', lock', reuse_lock') /\ OldAlone(op', t)
         /\ ~Holder(op[t]) /\ op'[t].pc # "reuse" /\ op[t].heap \in Heaps
         /\ op[t].class \in 0 .. NrClasses
  <1>i. OpsOK(op) /\ LocksOK(op, lock, reuse_lock)
    BY Zenon DEF HeapInv
  <1>1. op[t].pc \in CallLabels /\ op[t].pc \in CallLabels \cup FreeLabels /\ ~Holder(op[t])
    BY DEF CallLabels, Holder
  <1>2. op \in [Threads -> OpType] /\ op[t] \in CallType /\ Shape(op[t])
    BY <1>1, OpOf
  <1>3. op[t].heap \in Heaps /\ op[t].class \in 0 .. NrClasses
    BY <1>1, WalkClass
  <1>4. op[t].class # Big => op[t].class \in Classes
    BY <1>3, Geometry DEF Big, Classes
  <1> DEFINE v == BigStart(op[t].al)
  <1>5. v \in Nat
    <2>1. op[t].al \in Nat \ {0}
      BY <1>2 DEF CallType
    <2> QED BY <2>1, AlignedUp DEF BigStart
  <1>6. /\ CallStep(op, op', t) /\ op'[t].at = b
        /\ op'[t].pc = (IF op[t].class = Big THEN "done" ELSE "walk")
        /\ op[t].class = Big => op'[t].mem \in Nat
    <2>0. "done" \in CallLabels /\ "walk" \in CallLabels
      BY DEF CallLabels
    <2>1. CASE op[t].class = Big
      <3>1. op' = [op EXCEPT ![t].pc = "done", ![t].at = b, ![t].mem = v]
        BY <2>1 DEF AddBlock
      <3> HIDE DEF v
      <3> QED BY <1>2, <1>5, <2>0, <2>1, <3>1 DEF CallType, OpType, CallStep, SameCall, Others
    <2>2. CASE op[t].class # Big
      <3>1. op' = [op EXCEPT ![t].pc = "walk", ![t].at = b]
        BY <2>2 DEF AddBlock
      <3> HIDE DEF v
      <3> QED BY <1>2, <2>0, <2>2, <3>1 DEF CallType, OpType, CallStep, SameCall, Others
    <2> QED BY <2>1, <2>2
  <1>7. /\ op' \in [Threads -> OpType] /\ Others(op, op', t) /\ op'[t].heap = op[t].heap
        /\ op'[t].class = op[t].class /\ op'[t].n = op[t].n /\ op'[t].old = op[t].old
    BY <1>6, Zenon DEF CallStep, SameCall
  <1>8. Shape(op'[t])
    <2>1. op'[t].pc \in WalkLabels \cup {"lock", "sweeplock"} => op[t].class # Big
      BY <1>6 DEF WalkLabels
    <2> QED BY <1>1, <1>2, <1>4, <1>6, <1>7, <2>1, Zenon DEF Shape
  <1>9. OpsOK(op')
    BY <1>i, <1>7, <1>8, OpsStep, Zenon
  <1>10. op'[t].pc # "reuse"
    BY <1>6
  <1>11. LocksOK(op', lock', reuse_lock')
    <2>1. HasLock(op[t]) <=> op[t].class # Big
      BY DEF HasLock, LockedLabels
    <2>2. HasLock(op[t]) => lock[op[t].heap][op[t].class] = t
      BY WalkClass, Zenon
    <2>3. Locked(op'[t], t, lock', reuse_lock')
      BY <1>7, <1>10, <2>1, <2>2, Zenon DEF Locked, HasLock, GainLocks
    <2>4. lock' \in LockType
      BY <1>i, Zenon DEF LocksOK, GainLocks
    <2>5. \A g \in Heaps : /\ reuse_lock[g] \in Threads \ {t} => reuse_lock'[g] = reuse_lock[g]
                           /\ \A c \in Classes : lock[g][c] \in Threads \ {t} => lock'[g][c] = lock[g][c]
      BY Zenon DEF GainLocks
    <2>6. reuse_lock' \in ReuseLockType
      BY Zenon DEF GainLocks
    <2> QED BY <1>i, <1>7, <2>3, <2>4, <2>5, <2>6, LocksStep
  <1>12. OldAlone(op', t)
    BY <1>1, <1>7, OldKept
  <1> QED BY <1>1, <1>3, <1>6, <1>7, <1>9, <1>10, <1>11, <1>12

\* Adding a block that nobody has anything of keeps the invariant.
LEMMA AddStep ==
  ASSUME HeapInv, NEW t \in Threads, op[t].pc \in {"get", "reuse"}, live' = live,
         NEW b \in Blocks, AddBlock(t, b), Gained(t, b), GainLocks(t)
  PROVE  HeapInv'
  <1> DEFINE h == op[t].heap  c == op[t].class
  <1>i. /\ OldsOK(live, op) /\ HeldOnce(live, op)
        /\ Lists(meta, block_lists, reuse_list)
        /\ AllPlaced(live, op, meta, block_lists, reuse_list)
        /\ Contents(meta, slots, chunks, bump, live, op) /\ BumpsBased(block_lists, bump)
        /\ OpsOK(op)
    BY Zenon DEF HeapInv
  <1>1. /\ op' \in [Threads -> OpType] /\ Others(op, op', t) /\ op'[t].at = b
        /\ op'[t].heap = h /\ op'[t].class = c
        /\ op'[t].pc = (IF c = Big THEN "done" ELSE "walk")
        /\ c = Big => op'[t].mem \in Nat
        /\ OpsOK(op') /\ LocksOK(op', lock', reuse_lock') /\ OldAlone(op', t)
        /\ ~Holder(op[t]) /\ op'[t].pc # "reuse" /\ h \in Heaps /\ c \in 0 .. NrClasses
    BY AddOp
  <1>2. c # Big => c \in Classes
    BY <1>1, Geometry DEF Big, Classes
  <1>3. /\ meta'[b] # None /\ meta'[b].heap = h /\ meta'[b].class = c
        /\ ~Retired(reuse_list, b) /\ ~Listed(block_lists, b) /\ Addrs(live, op, b) = {}
        /\ \A u \in Threads : u # t /\ op[u].pc = "reuse" => op[u].at # b
        /\ \A x \in Blocks : x # b /\ meta'[x] # None => meta[x] # None /\ meta'[x].class = meta[x].class
        /\ reuse_size' \in [Heaps -> Int] /\ reuse_bytes' \in Int
    BY Zenon DEF Gained
  <1>4. Joined(t, b)
    BY <1>1, <1>3, JoinedIs
  <1>5. /\ Lists(meta', block_lists', reuse_list')
        /\ \A x \in Blocks : Used(meta, block_lists, reuse_list, x) /\ x # b =>
             Used(meta', block_lists', reuse_list', x) /\ meta'[x] = meta[x]
        /\ \A x \in Blocks : Between(meta, block_lists, reuse_list, x) /\ x # b =>
             Between(meta', block_lists', reuse_list', x) /\ meta'[x] = meta[x]
        /\ \A g \in Heaps, e \in Classes :
             Range(block_lists[g][e]) \subseteq Range(block_lists'[g][e])
    BY <1>4, GainedLists
  <1>r. \A x : Retired(reuse_list', x) => Retired(reuse_list, x)
    BY GainedFacts
  <1>6. OldsOK(live', op')
    BY <1>i, <1>1, OldsStep, Zenon DEF OldAlone
  \* Only a big block has something in it then.
  <1> DEFINE N == IF c = Big THEN {op'[t].mem} ELSE {}
  <1>7. Addrs(live', op', b) = N /\ \A x : x # b => Addrs(live', op', x) = Addrs(live, op, x)
    <2>1. ASSUME NEW x, x # b PROVE Addrs(live, op', x) = Addrs(live, op, x)
      BY <1>1, <2>1, AddrsOther
    <2>2. CASE c = Big
      <3>1. Holder(op'[t])
        BY <1>1, <2>2 DEF Holder
      <3>2. Addrs(live, op', op'[t].at) = Addrs(live, op, op'[t].at) \cup {op'[t].mem}
        BY <1>1, <3>1, AddrsTaken
      <3> QED BY <1>1, <1>3, <2>1, <2>2, <3>2
    <2>3. CASE c # Big
      <3>1. ~Holder(op'[t])
        BY <1>1, <2>3 DEF Holder
      <3>2. Addrs(live, op', b) = Addrs(live, op, b)
        BY <1>1, <3>1, AddrsSame
      <3> QED BY <1>3, <2>1, <2>3, <3>2
    <2> QED BY <2>2, <2>3
  <1>8. HeldOnce(live', op')
    <2>1. CASE c = Big
      <3>1. Holder(op'[t]) /\ op'[t].mem \notin Addrs(live, op, op'[t].at)
        BY <1>1, <1>3, <2>1 DEF Holder
      <3> QED BY <1>i, <1>1, <3>1, HeldMore
    <2>2. CASE c # Big
      <3>1. ~Holder(op'[t])
        BY <1>1, <2>2 DEF Holder
      <3> QED BY <1>i, <1>1, <3>1, HeldLess
    <2> QED BY <2>1, <2>2
  <1> HIDE DEF h, c, N
  <1>9. AllPlaced(live', op', meta', block_lists', reuse_list')
    <2>1. ASSUME NEW p \in live PROVE Used(meta', block_lists', reuse_list', p.block)
      <3>1. p.at \in Addrs(live, op, p.block)
        BY InAddrs, Zenon
      <3>2. p.block # b
        BY <1>3, <3>1
      <3>3. Used(meta, block_lists, reuse_list, p.block) /\ p.block \in Blocks
        BY <1>i, <2>1, Zenon DEF AllPlaced, OldsOK, ObjectType
      <3> QED BY <1>5, <3>2, <3>3
    <2>2. ASSUME NEW u \in Threads, u # t PROVE Placed(op'[u], meta', block_lists', reuse_list')
      <3> DEFINE x == op[u]
      <3>1. op'[u] = x
        BY <1>1, <2>2, Zenon DEF Others
      <3>2. Placed(x, meta, block_lists, reuse_list) /\ Shape(x)
        BY <1>i, Zenon DEF AllPlaced, OpsOK
      <3>3. Holder(x) => x.at # b
        <4>1. Holder(x) => x.mem \in Addrs(live, op, x.at)
          BY InAddrs, Zenon
        <4> QED BY <1>3, <4>1
      <3>4. x.pc \in WalkLabels => x.heap \in Heaps /\ x.class \in Classes
        <4>1. x.pc \in WalkLabels => x.pc \in CallLabels \cup FreeLabels
          BY DEF WalkLabels, CallLabels, FreeLabels
        <4> QED BY <4>1, WalkClass, Zenon
      <3>5. Holder(x) \/ x.pc = "reuse" => x.at \in Blocks
        BY <3>2, Zenon DEF Shape
      <3>6. x.pc = "reuse" => x.at # b
        BY <1>3, <2>2
      <3> HIDE DEF x
      <3>7. x.pc \in WalkLabels /\ x.at # None => x.at \in Range(block_lists'[x.heap][x.class])
        <4>1. x.pc \in WalkLabels /\ x.at # None => x.at \in Range(block_lists[x.heap][x.class])
          BY <3>2, Zenon DEF Placed
        <4> QED BY <1>5, <3>4, <4>1
      <3>8. Holder(x) => /\ Used(meta', block_lists', reuse_list', x.at)
                         /\ meta'[x.at].heap = x.heap /\ meta'[x.at].class = x.class
        BY <1>5, <3>2, <3>3, <3>5, Zenon DEF Placed
      <3>9. x.pc = "reuse" => Between(meta', block_lists', reuse_list', x.at) /\ meta'[x.at].heap = x.heap
        BY <1>5, <3>2, <3>5, <3>6 DEF Placed
      <3> QED BY <3>1, <3>7, <3>8, <3>9, Zenon DEF Placed
    <2>3. Placed(op'[t], meta', block_lists', reuse_list')
      <3>1. CASE c = Big
        <4>1. op'[t].pc \notin WalkLabels
          BY <1>1, <3>1 DEF WalkLabels
        <4>2. Used(meta', block_lists', reuse_list', b)
          BY <1>3, <1>r, <3>1, Zenon DEF Used
        <4> QED BY <1>1, <1>3, <3>1, <4>1, <4>2, Zenon DEF Placed
      <3>2. CASE c # Big
        <4>1. ~Holder(op'[t])
          BY <1>1, <3>2 DEF Holder
        <4>2. b \in Range(block_lists'[h][c])
          <5>1. Range(block_lists'[h][c]) = {b} \cup Range(block_lists[h][c])
            BY <1>1, <1>2, <1>4, <3>2, Zenon DEF Joined, h, c
          <5> QED BY <5>1
        <4> QED BY <1>1, <3>2, <4>1, <4>2, Zenon DEF Placed
      <3> QED BY <3>1, <3>2
    <2>4. ASSUME NEW u \in Threads, op'[u].pc = "reuse" PROVE Addrs(live', op', op'[u].at) = {}
      <3>1. u # t /\ op'[u] = op[u]
        BY <1>1, <2>4, Zenon DEF Others
      <3>2. Addrs(live, op, op[u].at) = {} /\ op[u].at # b
        BY <1>i, <1>3, <2>4, <3>1 DEF AllPlaced
      <3> QED BY <1>7, <3>1, <3>2
    <2>5. \A u \in Threads : Placed(op'[u], meta', block_lists', reuse_list')
      BY <2>2, <2>3
    <2> QED BY <2>1, <2>4, <2>5, Zenon DEF AllPlaced
  <1>10. \E zero \in BOOLEAN :
           /\ slots' = Set(slots, b, NoSlots) /\ chunks' = Set(chunks, b, FreshChunks(zero))
           /\ bump' = Set(bump, b, FreshBump(c))
    <2> DEFINE z == IF meta[b] = None THEN TRUE ELSE meta[b].zero
    <2>1. z \in BOOLEAN
      <3>1. meta \in [Blocks -> MetaType \cup {None}]
        BY <1>i, Zenon DEF Lists
      <3> QED BY <3>1 DEF MetaType
    <2>2. ResetBlock(b, c, z)
      BY DEF AddBlock, c
    <2> QED BY <2>1, <2>2 DEF ResetBlock
  <1>11. PICK zero \in BOOLEAN :
           /\ slots' = Set(slots, b, NoSlots) /\ chunks' = Set(chunks, b, FreshChunks(zero))
           /\ bump' = Set(bump, b, FreshBump(c))
    BY <1>10
  <1>12. /\ OfBlocks(slots') /\ OfBlocks(chunks') /\ OfBlocks(bump')
         /\ slots'[b] = NoSlots /\ chunks'[b] = FreshChunks(zero) /\ bump'[b] = FreshBump(c)
         /\ \A x \in Blocks : x # b => slots'[x] = slots[x] /\ chunks'[x] = chunks[x] /\ bump'[x] = bump[x]
    <2>1. OfBlocks(slots) /\ OfBlocks(chunks) /\ OfBlocks(bump)
      BY AllOfBlocks
    <2> DEFINE f == FreshChunks(zero)  g == FreshBump(c)
    <2>2. slots' = Set(slots, b, NoSlots) /\ chunks' = Set(chunks, b, f) /\ bump' = Set(bump, b, g)
      BY <1>11
    <2> HIDE DEF f, g
    <2>3. /\ OfBlocks(slots') /\ OfBlocks(chunks') /\ OfBlocks(bump')
          /\ slots'[b] = NoSlots /\ chunks'[b] = f /\ bump'[b] = g
          /\ \A x \in Blocks : x # b => slots'[x] = slots[x] /\ chunks'[x] = chunks[x] /\ bump'[x] = bump[x]
      BY <2>1, <2>2 DEF OfBlocks, Set
    <2> QED BY <2>3 DEF f, g
  <1>13. Contents(meta', slots', chunks', bump', live', op')
    <2>1. BlockOK(meta'[b], slots'[b], chunks'[b], bump'[b], Addrs(live', op', b))
      <3>1. IsFiniteSet(N) /\ N \in SUBSET Nat
        BY <1>1, FS_EmptySet, FS_Singleton DEF N
      <3>2. CASE c = Big
        <4>1. \A u, v \in N : u = v
          BY <3>2 DEF N
        <4> QED BY <1>3, <1>7, <3>1, <3>2, <4>1, Zenon DEF BlockOK
      <3>3. CASE c # Big
        <4>1. BlockMatch(c, NoSlots, FreshChunks(zero), FreshBump(c), {})
          BY <1>2, <3>3, FreshMatch
        <4>2. N = {}
          BY <3>3 DEF N
        <4> QED BY <1>3, <1>7, <1>12, <3>1, <3>3, <4>1, <4>2, Zenon DEF BlockOK
      <3> QED BY <3>2, <3>3
    <2>2. ASSUME NEW x \in Blocks, x # b
          PROVE  BlockOK(meta'[x], slots'[x], chunks'[x], bump'[x], Addrs(live', op', x))
      <3>1. BlockOK(meta[x], slots[x], chunks[x], bump[x], Addrs(live, op, x))
        BY <1>i, Zenon DEF Contents
      <3> QED BY <1>3, <1>7, <1>12, <2>2, <3>1, Zenon DEF BlockOK
    <2> QED BY <1>12, <2>1, <2>2, Zenon DEF Contents
  <1>14. BumpsBased(block_lists', bump')
    <2>1. ASSUME NEW g \in Heaps, NEW e \in Classes, NEW x \in Range(block_lists'[g][e])
          PROVE  BumpBase(e) <= bump'[x].at
      <3>1. \/ x \in Range(block_lists[g][e])
            \/ x = b /\ c # Big /\ e = c
        <4>1. (op[t].class # Big /\ e = op[t].class) \/ x \in Range(block_lists[g][e])
          BY <1>4, JoinedRanges
        <4>2. x \in Range(block_lists[g][e]) \/ x = b
          BY <1>4, JoinedRanges
        <4> QED BY <4>1, <4>2 DEF c
      <3>2. CASE x \in Range(block_lists[g][e])
        <4>1. x \in Blocks /\ x # b
          <5>1. x \in Blocks /\ Listed(block_lists, x)
            BY <1>i, <3>2, ListFacts
          <5> QED BY <1>3, <5>1
        <4>2. BumpBase(e) <= bump[x].at
          BY <1>i, <3>2, Zenon DEF BumpsBased
        <4> QED BY <1>12, <4>1, <4>2, Zenon
      <3>3. CASE x = b /\ c # Big /\ e = c
        <4>1. BumpBase(c) <= FreshBump(c).at
          BY <1>2, <3>3, FreshMatch
        <4> QED BY <1>12, <3>3, <4>1, Zenon
      <3> QED BY <3>1, <3>2, <3>3
    <2> QED BY <2>1, Zenon DEF BumpsBased
  <1> QED BY <1>1, <1>3, <1>5, <1>6, <1>8, <1>9, <1>13, <1>14, Zenon DEF HeapInv

\* None is no record of a block.
LEMMA NoneIsNoMeta == None \notin MetaType
  <1>1. MetaType \subseteq [heap : Heaps, class : Nat, size : Nat, zero : BOOLEAN, calloc : BOOLEAN,
                            passes : Nat]
    BY Geometry DEF MetaType
  <1>2. None \notin [heap : Heaps, class : Nat, size : Nat, zero : BOOLEAN, calloc : BOOLEAN,
                     passes : Nat]
    BY MallocAssumption
  <1> QED BY <1>1, <1>2

\* A block that is passed over keeps what it is, or is released.
LEMMA PassedOverIs ==
  ASSUME NEW x, meta[x] \in MetaType
  PROVE  \/ PassedOver(x) = None
         \/ /\ PassedOver(x) \in MetaType /\ PassedOver(x) # None
            /\ PassedOver(x).heap = meta[x].heap /\ PassedOver(x).class = meta[x].class
            /\ PassedOver(x).size = meta[x].size
  <1> DEFINE m == meta[x]  n == m.passes + 1
  <1>1. m \in MetaType /\ n \in Nat /\ m # None
    BY NoneIsNoMeta DEF MetaType
  <1>2. PassedOver(x) = None \/ PassedOver(x) = m \/ PassedOver(x) = [m EXCEPT !.passes = n]
          \/ PassedOver(x) = [m EXCEPT !.passes = n, !.zero = TRUE]
    BY DEF PassedOver
  <1> HIDE DEF m, n
  <1>3. ASSUME NEW y, y = [m EXCEPT !.passes = n] \/ y = [m EXCEPT !.passes = n, !.zero = TRUE]
        PROVE  y \in MetaType /\ y.heap = m.heap /\ y.class = m.class /\ y.size = m.size
    BY <1>1, <1>3 DEF MetaType
  <1>4. PassedOver(x) = None \/ PassedOver(x) = m \/
          (/\ PassedOver(x) \in MetaType
           /\ PassedOver(x).heap = m.heap /\ PassedOver(x).class = m.class
           /\ PassedOver(x).size = m.size)
    BY <1>2, <1>3, Zenon
  <1> QED BY <1>1, <1>4, NoneIsNoMeta DEF m

\* bk_get_block found a block for reuse: what becomes of the lists.
Passed(t) ==
  LET h == op[t].heap  b == op[t].at
      left == Range(reuse_list[h])
      gone == {x \in left : PassedOver(x) = None}
  IN  /\ reuse_list' = [reuse_list EXCEPT ![h] = Without(@, gone)]
      /\ reuse_size' = [reuse_size EXCEPT ![h] = @ - SumOver(meta, gone)]
      /\ reuse_bytes' = reuse_bytes - meta[b].size - SumOver(meta, gone)
      /\ meta' = [x \in Blocks |->
           IF x \in left THEN PassedOver(x)
           ELSE IF x = b THEN Fresh(h, op[t].class, meta[b].size, meta[b].zero, BigCalloc(t))
           ELSE meta[x]]

\* A call that prepares a retired block has it to itself.
LEMMA ReuseIs ==
  ASSUME HeapInv, NEW t \in Threads, op[t].pc = "reuse"
  PROVE  LET b == op[t].at IN
         /\ op[t].heap \in Heaps /\ op[t].class \in 0 .. NrClasses /\ op[t] \in CallType
         /\ b \in Blocks /\ meta[b] \in MetaType /\ meta[b] # None /\ meta[b].heap = op[t].heap
         /\ ~Retired(reuse_list, b) /\ ~Listed(block_lists, b) /\ Addrs(live, op, b) = {}
         /\ reuse_lock[op[t].heap] = t
         /\ \A u \in Threads : u # t /\ op[u].pc = "reuse" => op[u].at # b
  <1> DEFINE b == op[t].at
  <1>1. op[t].pc \in CallLabels /\ op[t].pc \in CallLabels \cup FreeLabels
    BY DEF CallLabels
  <1>2. op[t].heap \in Heaps /\ op[t].class \in 0 .. NrClasses /\ op[t] \in CallType
    BY <1>1, WalkClass, OpOf
  <1>3. b \in Blocks
    BY OpOf, Zenon DEF Shape
  <1>4. Between(meta, block_lists, reuse_list, b) /\ meta[b].heap = op[t].heap
        /\ Addrs(live, op, b) = {}
    BY Zenon DEF HeapInv, AllPlaced, Placed
  <1>5. meta \in [Blocks -> MetaType \cup {None}]
    BY Zenon DEF HeapInv, Lists
  <1>6. reuse_lock[op[t].heap] = t
    BY Zenon DEF HeapInv, LocksOK, Locked
  <1>7. ASSUME NEW u \in Threads, u # t, op[u].pc = "reuse", op[u].at = b PROVE FALSE
    <2>1. reuse_lock[op[u].heap] = u /\ meta[op[u].at].heap = op[u].heap
      BY <1>7, Zenon DEF HeapInv, LocksOK, Locked, AllPlaced, Placed
    <2> QED BY <1>4, <1>6, <1>7, <2>1
  <1> QED BY <1>2, <1>3, <1>4, <1>5, <1>6, <1>7 DEF Between

\* It gains the block, whatever is done to the retired ones it passed over.
LEMMA PassedGains ==
  ASSUME HeapInv, NEW t \in Threads, op[t].pc = "reuse", Passed(t)
  PROVE  Gained(t, op[t].at)
  <1> DEFINE h == op[t].heap  b == op[t].at
             left == Range(reuse_list[h])
             gone == {x \in left : PassedOver(x) = None}
             s == Without(reuse_list[h], gone)
             f == Fresh(h, op[t].class, meta[b].size, meta[b].zero, BigCalloc(t))
  <1>1. /\ h \in Heaps /\ op[t].class \in 0 .. NrClasses /\ op[t] \in CallType
        /\ b \in Blocks /\ meta[b] \in MetaType /\ meta[b] # None /\ meta[b].heap = h
        /\ ~Retired(reuse_list, b) /\ ~Listed(block_lists, b) /\ Addrs(live, op, b) = {}
        /\ \A u \in Threads : u # t /\ op[u].pc = "reuse" => op[u].at # b
    BY ReuseIs, Zenon
  <1>2. /\ reuse_list' = [reuse_list EXCEPT ![h] = s]
        /\ reuse_size' = [reuse_size EXCEPT ![h] = @ - SumOver(meta, gone)]
        /\ reuse_bytes' = reuse_bytes - meta[b].size - SumOver(meta, gone)
        /\ meta' = [x \in Blocks |-> IF x \in left THEN PassedOver(x) ELSE IF x = b THEN f ELSE meta[x]]
    BY DEF Passed
  <1>3. /\ reuse_list[h] \in Seq(Blocks) /\ IsInjective(reuse_list[h])
        /\ IsFiniteSet(left) /\ left \subseteq Blocks /\ b \notin left
        /\ \A x \in left : meta[x] \in MetaType /\ meta[x].heap = h /\ meta[x].size \in Nat
    BY <1>1, RetiredSizes DEF Retired
  <1>4. s \in Seq(Blocks) /\ IsInjective(s) /\ Range(s) = left \ gone
    BY <1>3, WithoutFacts
  <1>5. \A x \in left : \/ PassedOver(x) = None
                        \/ /\ PassedOver(x) \in MetaType /\ PassedOver(x) # None
                           /\ PassedOver(x).heap = h /\ PassedOver(x).class = meta[x].class
    BY <1>3, PassedOverIs
  <1>6. f \in MetaType /\ f.heap = h /\ f.class = op[t].class /\ f # None
    <2>1. op[t].zero \in BOOLEAN
      BY <1>1 DEF CallType
    <2>2. meta[b].size \in Nat /\ meta[b].zero \in BOOLEAN
      BY <1>1 DEF MetaType
    <2>3. f \in MetaType /\ f.heap = h /\ f.class = op[t].class
      BY <1>1, <2>1, <2>2 DEF Fresh, MetaType, BigCalloc
    <2> HIDE DEF f
    <2> QED BY <2>3, NoneIsNoMeta
  <1>7. SumOver(meta, gone) \in Nat
    <2>1. IsFiniteSet(gone) /\ \A x \in gone : meta[x].size \in Nat
      BY <1>3, FS_Subset
    <2> HIDE DEF gone
    <2> QED BY <2>1, SumType
  <1>8. meta[b].size \in Nat
    BY <1>1 DEF MetaType
  <1>9. reuse_list \in [Heaps -> Seq(Blocks)] /\ reuse_size \in [Heaps -> Int] /\ reuse_bytes \in Int
        /\ meta \in [Blocks -> MetaType \cup {None}]
    BY Zenon DEF HeapInv, Lists
  <1>10. \A x \in left : x \in gone <=> PassedOver(x) = None
    OBVIOUS
  <1> HIDE DEF h, b, left, gone, s, f
  <1>11. /\ \A x \in left : meta'[x] = PassedOver(x)
         /\ meta'[b] = f
         /\ \A x \in Blocks : x # b /\ x \notin left => meta'[x] = meta[x]
    BY <1>1, <1>2, <1>3
  <1>12. /\ reuse_list' \in [Heaps -> Seq(Blocks)] /\ reuse_list'[h] = s
         /\ \A g \in Heaps : g # h => reuse_list'[g] = reuse_list[g]
    BY <1>1, <1>2, <1>4, <1>9
  <1>13. \A x : ~Retired(reuse_list, x) => x \notin left
    BY <1>1, Zenon DEF Retired, left
  <1>14. reuse_size' \in [Heaps -> Int] /\ reuse_bytes' \in Int
    BY <1>1, <1>2, <1>7, <1>8, <1>9
  <1>15. ASSUME NEW g \in Heaps
         PROVE  /\ IsInjective(reuse_list'[g]) /\ Range(reuse_list'[g]) \subseteq Range(reuse_list[g])
                /\ \A x \in Range(reuse_list'[g]) : meta'[x] # None /\ meta'[x].heap = g
    <2>1. CASE g = h
      <3>1. reuse_list'[g] = s
        BY <1>12, <2>1
      <3>2. Range(s) \subseteq Range(reuse_list[g])
        BY <1>4, <2>1 DEF left
      <3>3. \A x \in Range(s) : x \in left /\ PassedOver(x) # None
        BY <1>4, <1>10
      <3> QED BY <1>4, <1>5, <1>11, <2>1, <3>1, <3>2, <3>3
    <2>2. CASE g # h
      <3>1. reuse_list'[g] = reuse_list[g] /\ IsInjective(reuse_list[g])
            /\ \A x \in Range(reuse_list[g]) : x \in Blocks /\ meta[x] # None /\ meta[x].heap = g
        BY <1>12, <2>2, RetiredSizes
      <3>2. \A x \in Range(reuse_list[g]) : x # b
        BY <1>1, Zenon DEF Retired
      <3>3. \A x \in Range(reuse_list[g]) : x \notin left
        BY <1>3, <2>2, <3>1
      <3> QED BY <1>11, <3>1, <3>2, <3>3
    <2> QED BY <2>1, <2>2
  <1>16. meta' \in [Blocks -> MetaType \cup {None}]
    <2>1. \A x \in Blocks : meta'[x] \in MetaType \cup {None}
      BY <1>5, <1>6, <1>9, <1>11
    <2> QED BY <1>2, <2>1
  <1>17. \A x \in Blocks : x # b /\ meta'[x] # None => meta[x] # None /\ meta'[x].class = meta[x].class
    BY <1>3, <1>5, <1>11, NoneIsNoMeta
  <1>18. \A x \in Blocks : x # b /\ ~Retired(reuse_list, x) => meta'[x] = meta[x]
    BY <1>11, <1>13
  <1> QED BY <1>1, <1>6, <1>11, <1>12, <1>14, <1>15, <1>16, <1>17, <1>18, Zenon DEF Gained, h, b

\* A thread has got a block, and adds it.
GetsBlock(t, b) ==
  op[t].pc \in {"get", "reuse"} /\ live' = live /\ AddBlock(t, b) /\ Gained(t, b) /\ GainLocks(t)

\* A call that puts a retired block to use gets it, ...
LEMMA ReuseGets ==
  ASSUME HeapInv, NEW t \in Threads, ReuseBlock(t)
  PROVE  op[t].at \in Blocks /\ GetsBlock(t, op[t].at)
  <1>1. op[t].pc = "reuse" /\ live' = live /\ AddBlock(t, op[t].at)
    BY DEF ReuseBlock
  <1>2. Passed(t)
    BY SizeSumIs DEF ReuseBlock, Passed
  <1>3. op[t].at \in Blocks /\ op[t].heap \in Heaps /\ reuse_lock[op[t].heap] = t
    BY <1>1, ReuseIs, Zenon
  <1>4. Gained(t, op[t].at)
    BY <1>1, <1>2, PassedGains
  <1>5. GainLocks(t)
    <2>1. reuse_lock' = Set(reuse_lock, op[t].heap, None) /\ lock' = lock
      BY DEF ReuseBlock
    <2>2. reuse_lock \in ReuseLockType
      BY Zenon DEF HeapInv, LocksOK
    <2> QED BY <1>3, <2>1, <2>2 DEF GainLocks, Set, ReuseLockType
  <1> QED BY <1>1, <1>3, <1>4, <1>5, Zenon DEF GetsBlock

\* ... and one that makes a block gets that.
LEMMA MakeGets ==
  ASSUME HeapInv, NEW t \in Threads, MakeBlock(t)
  PROVE  \E b \in Blocks : GetsBlock(t, b)
  <1> DEFINE h == op[t].heap
             f == Fresh(h, op[t].class, PageUp(WantedSize(t)), TRUE, BigCalloc(t))
  <1>1. /\ op[t].pc = "get" /\ live' = live /\ lock' = lock /\ reuse_lock' = reuse_lock
        /\ reuse_list' = reuse_list /\ reuse_size' = reuse_size /\ reuse_bytes' = reuse_bytes
    BY DEF MakeBlock, reuse
  <1>2. PICK b \in Blocks \ Mapped : meta' = Set(meta, b, f) /\ AddBlock(t, b)
    BY DEF MakeBlock
  <1>3. b \in Blocks /\ meta[b] = None
    BY <1>2 DEF Mapped
  <1>4. op[t].pc \in CallLabels /\ op[t].pc \in CallLabels \cup FreeLabels
    BY <1>1 DEF CallLabels
  <1>5. h \in Heaps /\ op[t].class \in 0 .. NrClasses /\ op[t] \in CallType
    BY <1>4, WalkClass, OpOf
  <1>6. f \in MetaType /\ f.heap = h /\ f.class = op[t].class
    <2>1. op[t].zero \in BOOLEAN /\ op[t].n \in Nat /\ op[t].al \in Nat \ {0}
      BY <1>5, MallocAssumption DEF CallType
    <2>2. PageUnits \in Nat \ {0} /\ BlockUnits \in Nat
      BY Geometry
    <2> DEFINE w == WantedSize(t)  z == AlignUp(op[t].n, PageUnits)
    <2>3. w \in Nat
      <3>1. z \in Nat
        BY <2>1, <2>2, AlignedUp
      <3>2. w = IF op[t].class = Big
                THEN IF PageUnits + (z + PageUnits) + op[t].al > BlockUnits
                     THEN PageUnits + (z + PageUnits) + op[t].al ELSE BlockUnits
                ELSE BlockUnits
        BY DEF WantedSize, BigRequest
      <3> HIDE DEF w, z
      <3> QED BY <2>1, <2>2, <3>1, <3>2
    <2> HIDE DEF w
    <2> DEFINE v == PageUp(w)
    <2>4. v \in Nat
      BY <2>2, <2>3, AlignedUp DEF PageUp
    <2>5. f = Fresh(h, op[t].class, v, TRUE, BigCalloc(t))
      BY DEF w
    <2> HIDE DEF f, v
    <2> QED BY <1>5, <2>1, <2>4, <2>5 DEF Fresh, MetaType, BigCalloc
  <1> HIDE DEF f, h
  <1>7. f # None
    BY <1>6, NoneIsNoMeta
  <1>8. meta \in [Blocks -> MetaType \cup {None}] /\ reuse_list \in [Heaps -> Seq(Blocks)]
        /\ reuse_size \in [Heaps -> Int] /\ reuse_bytes \in Int
        /\ Lists(meta, block_lists, reuse_list)
    BY Zenon DEF HeapInv, Lists
  <1>9. /\ meta' \in [Blocks -> MetaType \cup {None}] /\ meta'[b] = f
        /\ \A x \in Blocks : x # b => meta'[x] = meta[x]
    BY <1>2, <1>3, <1>6, <1>8 DEF Set
  <1>10. ~Retired(reuse_list, b) /\ ~Listed(block_lists, b)
    BY <1>3, <1>8, ListFacts DEF Retired, Listed
  <1>11. Addrs(live, op, b) = {}
    <2>1. ~Used(meta, block_lists, reuse_list, b)
      BY <1>3, Zenon DEF Used
    <2> QED BY <2>1, NoneHeld
  <1>12. \A u \in Threads : u # t /\ op[u].pc = "reuse" => op[u].at # b
    BY <1>3, ReuseIs
  <1>13. ASSUME NEW g \in Heaps
         PROVE  /\ IsInjective(reuse_list[g]) /\ Range(reuse_list[g]) \subseteq Range(reuse_list[g])
                /\ \A x \in Range(reuse_list[g]) : meta'[x] # None /\ meta'[x].heap = g
    <2>1. /\ IsInjective(reuse_list[g])
          /\ \A x \in Range(reuse_list[g]) : x \in Blocks /\ meta[x] # None /\ meta[x].heap = g
      BY RetiredSizes
    <2> QED BY <1>3, <1>9, <2>1
  <1>14. Gained(t, b)
    BY <1>1, <1>6, <1>7, <1>8, <1>9, <1>10, <1>11, <1>12, <1>13, Zenon DEF Gained, h
  <1>15. GainLocks(t)
    BY <1>1, Zenon DEF GainLocks, HeapInv, LocksOK
  <1> QED BY <1>1, <1>2, <1>3, <1>14, <1>15, Zenon DEF GetsBlock

\* Getting a block keeps the invariant.
LEMMA GetBlockInv ==
  ASSUME HeapInv, NEW t \in Threads, ReuseBlock(t) \/ MakeBlock(t)
  PROVE  HeapInv'
  <1>1. PICK b \in Blocks : GetsBlock(t, b)
    BY ReuseGets, MakeGets
  <1> QED BY <1>1, AddStep DEF GetsBlock

\* A heap nobody uses goes.
LEMMA DestroyHeapInv ==
  ASSUME HeapInv, NEW h \in Heaps, DestroyHeap(h)
  PROVE  HeapInv'
  <1> DEFINE B == BlocksOf(h)  e == [c \in Classes |-> <<>>]  z == <<>>
  <1>i. /\ OpsOK(op) /\ LocksOK(op, lock, reuse_lock) /\ OldsOK(live, op) /\ HeldOnce(live, op)
        /\ Lists(meta, block_lists, reuse_list)
        /\ reuse_size \in [Heaps -> Int] /\ reuse_bytes \in Int
        /\ AllPlaced(live, op, meta, block_lists, reuse_list)
        /\ Contents(meta, slots, chunks, bump, live, op) /\ BumpsBased(block_lists, bump)
    BY Zenon DEF HeapInv
  <1>1. /\ meta' = [b \in Blocks |-> IF b \in B THEN None ELSE meta[b]]
        /\ block_lists' = Set(block_lists, h, e) /\ reuse_list' = Set(reuse_list, h, z)
        /\ reuse_size' = Set(reuse_size, h, 0)
        /\ chunks' = [b \in Blocks |-> IF b \in B THEN FreshChunks(TRUE) ELSE chunks[b]]
        /\ slots' = [x \in Blocks |-> IF x \in B THEN NoSlots ELSE slots[x]]
        /\ bump' = [x \in Blocks |-> IF x \in B THEN FreshBump(0) ELSE bump[x]]
        /\ lock' = lock /\ reuse_lock' = reuse_lock /\ reuse_bytes' = reuse_bytes
        /\ op' = op /\ live' = live
    BY DEF DestroyHeap, Forget
  <1>2. /\ \A p \in live : meta[p.block].heap # h
        /\ \A t \in Threads : op[t].pc # "idle" => op[t].heap # h
    BY DEF DestroyHeap, InUse, Calls
  <1>3. \A b \in B : b \in Blocks /\ meta[b] # None /\ meta[b].heap = h
    BY DEF BlocksOf, Mapped
  <1>b. \A b \in Blocks : meta[b] # None /\ meta[b].heap = h => b \in B
    BY DEF BlocksOf, Mapped
  <1>4. /\ meta \in [Blocks -> MetaType \cup {None}]
        /\ block_lists \in [Heaps -> [Classes -> Seq(Blocks)]] /\ reuse_list \in [Heaps -> Seq(Blocks)]
    BY <1>i, Zenon DEF Lists
  <1>5. z \in Seq(Blocks) /\ IsInjective(z) /\ Range(z) = {}
    BY EmptySeqFacts
  <1>6. e \in [Classes -> Seq(Blocks)] /\ \A c \in Classes : e[c] = z
    BY <1>5
  <1> HIDE DEF B, e, z
  <1>7. /\ meta' \in [Blocks -> MetaType \cup {None}]
        /\ \A b \in Blocks : (b \in B => meta'[b] = None) /\ (b \notin B => meta'[b] = meta[b])
    BY <1>1, <1>4
  <1>8. /\ block_lists' \in [Heaps -> [Classes -> Seq(Blocks)]] /\ reuse_list' \in [Heaps -> Seq(Blocks)]
        /\ reuse_size' \in [Heaps -> Int]
        /\ block_lists'[h] = e /\ reuse_list'[h] = z
        /\ \A g \in Heaps : g # h => block_lists'[g] = block_lists[g] /\ reuse_list'[g] = reuse_list[g]
    BY <1>i, <1>1, <1>4, <1>5, <1>6 DEF Set
  <1>9. ASSUME NEW g \in Heaps
        PROVE  /\ IsInjective(reuse_list'[g])
               /\ \A x \in Range(reuse_list'[g]) :
                    g # h /\ x \in Range(reuse_list[g]) /\ meta'[x] = meta[x] /\ meta[x] # None /\ meta[x].heap = g
    <2>1. CASE g = h
      BY <1>5, <1>8, <2>1
    <2>2. CASE g # h
      <3>1. reuse_list'[g] = reuse_list[g] /\ IsInjective(reuse_list[g])
            /\ \A x \in Range(reuse_list[g]) : x \in Blocks /\ meta[x] # None /\ meta[x].heap = g
        BY <1>i, <1>8, <2>2, ListFacts
      <3> QED BY <1>3, <1>7, <2>2, <3>1
    <2> QED BY <2>1, <2>2
  <1>10. \A x : Retired(reuse_list', x) => Retired(reuse_list, x)
    BY <1>9, Zenon DEF Retired
  <1>11. ASSUME NEW g \in Heaps, NEW c \in Classes
         PROVE  /\ IsInjective(block_lists'[g][c])
                /\ \A x \in Range(block_lists'[g][c]) :
                     /\ g # h /\ x \in Blocks /\ x \notin B /\ x \in Range(block_lists[g][c])
                     /\ meta'[x] # None /\ meta'[x].heap = g /\ meta'[x].class = c
                     /\ ~Retired(reuse_list', x)
    <2>1. CASE g = h
      BY <1>5, <1>6, <1>8, <2>1
    <2>2. CASE g # h
      <3>1. block_lists'[g][c] = block_lists[g][c] /\ IsInjective(block_lists[g][c])
            /\ \A x \in Range(block_lists[g][c]) :
                 /\ x \in Blocks /\ meta[x] # None /\ meta[x].heap = g /\ meta[x].class = c
                 /\ ~Retired(reuse_list, x)
        BY <1>i, <1>8, <2>2, ListFacts
      <3>2. \A x \in Range(block_lists[g][c]) : x \notin B /\ meta'[x] = meta[x]
        BY <1>3, <1>7, <2>2, <3>1
      <3> QED BY <1>10, <2>2, <3>1, <3>2
    <2> QED BY <2>1, <2>2
  <1>12. Lists(meta', block_lists', reuse_list')
    <2>1. \A g \in Heaps : IsInjective(reuse_list'[g]) /\ \A c \in Classes : IsInjective(block_lists'[g][c])
      BY <1>9, <1>11
    <2>2. \A g \in Heaps, c \in Classes : \A x \in Range(block_lists'[g][c]) :
            meta'[x] # None /\ meta'[x].heap = g /\ meta'[x].class = c /\ ~Retired(reuse_list', x)
      BY <1>11
    <2>3. \A g \in Heaps : \A x \in Range(reuse_list'[g]) : meta'[x] # None /\ meta'[x].heap = g
      BY <1>9
    <2> QED BY <1>7, <1>8, <2>1, <2>2, <2>3, Zenon DEF Lists
  \* Nothing of another heap changes.
  <1>13. ASSUME NEW x \in Blocks, x \notin B, Used(meta, block_lists, reuse_list, x)
         PROVE  Used(meta', block_lists', reuse_list', x) /\ meta'[x] = meta[x]
    <2>1. meta'[x] = meta[x] /\ ~Retired(reuse_list', x) /\ meta[x] # None
      BY <1>7, <1>10, <1>13, Zenon DEF Used
    <2>2. ASSUME meta[x].class # Big PROVE Listed(block_lists', x)
      <3>1. PICK g \in Heaps, c \in Classes : x \in Range(block_lists[g][c])
        BY <1>13, <2>2, Zenon DEF Used, Listed
      <3>2. meta[x].heap = g
        BY <1>i, <3>1, ListFacts
      <3>3. g # h
        BY <1>b, <1>13, <2>1, <3>2
      <3>4. x \in Range(block_lists'[g][c])
        BY <1>8, <3>1, <3>3
      <3> QED BY <3>4, Zenon DEF Listed
    <2> QED BY <2>1, <2>2, Zenon DEF Used
  <1>14. \A x : Listed(block_lists', x) => Listed(block_lists, x)
    BY <1>11, Zenon DEF Listed
  <1>15. ASSUME NEW x \in Blocks, x \notin B, Between(meta, block_lists, reuse_list, x)
         PROVE  Between(meta', block_lists', reuse_list', x) /\ meta'[x] = meta[x]
    BY <1>7, <1>10, <1>14, <1>15 DEF Between
  <1>16. AllPlaced(live', op', meta', block_lists', reuse_list')
    <2>1. ASSUME NEW p \in live PROVE Used(meta', block_lists', reuse_list', p.block)
      <3>1. Used(meta, block_lists, reuse_list, p.block) /\ p.block \in Blocks
        BY <1>i DEF AllPlaced, OldsOK, ObjectType
      <3>2. p.block \notin B
        BY <1>2, <1>3
      <3> QED BY <1>13, <3>1, <3>2
    <2>2. ASSUME NEW t \in Threads PROVE Placed(op[t], meta', block_lists', reuse_list')
      <3> DEFINE x == op[t]
      <3>1. /\ Placed(x, meta, block_lists, reuse_list) /\ Shape(x)
            /\ x.pc # "idle" => x.heap # h
        BY <1>i, <1>2, Zenon DEF AllPlaced, OpsOK
      <3>2. /\ x.pc \in WalkLabels => x.heap \in Heaps /\ x.class \in Classes
        <4>1. x.pc \in WalkLabels => x.pc \in CallLabels \cup FreeLabels
          BY DEF WalkLabels, CallLabels, FreeLabels
        <4> QED BY <4>1, WalkClass, Zenon
      <3>3. Holder(x) \/ x.pc \in WalkLabels \/ x.pc = "reuse" => x.heap # h
        BY <3>1 DEF Holder, WalkLabels
      <3>4. Holder(x) \/ x.pc = "reuse" => x.at \in Blocks
        BY <3>1, Zenon DEF Shape
      <3> HIDE DEF x
      <3>5. Holder(x) \/ x.pc = "reuse" => x.at \notin B
        BY <1>3, <3>1, <3>3, Zenon DEF Placed
      <3>6. Holder(x) => /\ Used(meta', block_lists', reuse_list', x.at)
                         /\ meta'[x.at].heap = x.heap /\ meta'[x.at].class = x.class
        BY <1>13, <3>1, <3>4, <3>5, Zenon DEF Placed
      <3>7. x.pc \in WalkLabels /\ x.at # None => x.at \in Range(block_lists'[x.heap][x.class])
        <4>1. x.pc \in WalkLabels => block_lists'[x.heap] = block_lists[x.heap]
          BY <1>8, <3>2, <3>3
        <4> QED BY <3>1, <4>1, Zenon DEF Placed
      <3>8. x.pc = "reuse" => Between(meta', block_lists', reuse_list', x.at) /\ meta'[x.at].heap = x.heap
        BY <1>15, <3>1, <3>4, <3>5, Zenon DEF Placed
      <3> QED BY <3>6, <3>7, <3>8, Zenon DEF Placed, x
    <2>3. \A t \in Threads : op[t].pc = "reuse" => Addrs(live, op, op[t].at) = {}
      BY <1>i, Zenon DEF AllPlaced
    <2> QED BY <1>1, <2>1, <2>2, <2>3, Zenon DEF AllPlaced
  <1>17. Contents(meta', slots', chunks', bump', live', op')
    <2>1. OfBlocks(slots') /\ OfBlocks(chunks') /\ OfBlocks(bump')
      BY <1>1 DEF OfBlocks
    <2>2. ASSUME NEW x \in Blocks
          PROVE  BlockOK(meta'[x], slots'[x], chunks'[x], bump'[x], Addrs(live, op, x))
      <3>1. BlockOK(meta[x], slots[x], chunks[x], bump[x], Addrs(live, op, x))
        BY <1>i, Zenon DEF Contents
      <3>2. CASE x \in B
        BY <1>7, <3>1, <3>2, Zenon DEF BlockOK
      <3>3. CASE x \notin B
        <4>1. meta'[x] = meta[x] /\ slots'[x] = slots[x] /\ chunks'[x] = chunks[x] /\ bump'[x] = bump[x]
          BY <1>1, <3>3
        <4> QED BY <3>1, <4>1, Zenon
      <3> QED BY <3>2, <3>3
    <2> QED BY <1>1, <2>1, <2>2, Zenon DEF Contents
  <1>18. BumpsBased(block_lists', bump')
    <2>1. ASSUME NEW g \in Heaps, NEW c \in Classes, NEW x \in Range(block_lists'[g][c])
          PROVE  BumpBase(c) <= bump'[x].at
      <3>1. x \in Blocks /\ x \notin B /\ x \in Range(block_lists[g][c])
        BY <1>11
      <3>2. bump'[x] = bump[x]
        BY <1>1, <3>1
      <3>3. BumpBase(c) <= bump[x].at
        BY <1>i, <3>1, Zenon DEF BumpsBased
      <3> QED BY <3>2, <3>3, Zenon
    <2> QED BY <2>1, Zenon DEF BumpsBased
  <1> QED BY <1>i, <1>1, <1>8, <1>12, <1>16, <1>17, <1>18, Zenon DEF HeapInv

\* The invariant holds of the empty heaps.
LEMMA InitHeap == Init => HeapInv
  <1> SUFFICES ASSUME Init PROVE HeapInv
    OBVIOUS
  <1> DEFINE z == <<>>
  <1>z. z \in Seq(Blocks) /\ IsInjective(z) /\ Range(z) = {}
    BY EmptySeqFacts
  <1>1. /\ meta = [b \in Blocks |-> None]
        /\ slots = [b \in Blocks |-> NoSlots] /\ chunks = [b \in Blocks |-> FreshChunks(TRUE)]
        /\ bump = [b \in Blocks |-> FreshBump(0)]
        /\ block_lists = [h \in Heaps |-> [c \in Classes |-> z]]
        /\ lock = [h \in Heaps |-> [c \in Classes |-> None]]
        /\ reuse_list = [h \in Heaps |-> z] /\ reuse_size = [h \in Heaps |-> 0]
        /\ reuse_lock = [h \in Heaps |-> None] /\ reuse_bytes = 0
        /\ op = [t \in Threads |-> Idle] /\ live = {}
    BY DEF Init
  <1> HIDE DEF z
  <1>2. /\ Idle \in OpType /\ Idle.pc = "idle" /\ ~Holder(Idle) /\ Idle.pc \notin CallLabels
        /\ Idle.pc \notin WalkLabels /\ Idle.pc \notin LockedLabels /\ Idle.pc # "reuse"
        /\ Idle.pc # "lock" /\ Idle.pc # "sweeplock"
    BY DEF OpType, Idle, Holder, CallLabels, WalkLabels, LockedLabels
  <1>3. op \in [Threads -> OpType] /\ \A t \in Threads : op[t] = Idle
    BY <1>1, <1>2
  <1>4. OpsOK(op)
    BY <1>2, <1>3, Zenon DEF OpsOK, Shape
  <1>5. LocksOK(op, lock, reuse_lock)
    <2>1. lock \in LockType /\ reuse_lock \in ReuseLockType
      BY <1>1 DEF LockType, ReuseLockType
    <2> QED BY <1>2, <1>3, <2>1, Zenon DEF LocksOK, Locked, HasLock
  <1>6. OldsOK(live, op) /\ HeldOnce(live, op)
    BY <1>1, <1>2, <1>3, Zenon DEF OldsOK, HeldOnce
  <1>7. Lists(meta, block_lists, reuse_list)
    <2>1. /\ meta \in [Blocks -> MetaType \cup {None}]
          /\ block_lists \in [Heaps -> [Classes -> Seq(Blocks)]] /\ reuse_list \in [Heaps -> Seq(Blocks)]
          /\ \A h \in Heaps : reuse_list[h] = z /\ \A c \in Classes : block_lists[h][c] = z
      BY <1>1, <1>z
    <2>2. \A h \in Heaps : IsInjective(reuse_list[h]) /\ \A c \in Classes : IsInjective(block_lists[h][c])
      BY <1>z, <2>1
    <2>3. \A h \in Heaps, c \in Classes : Range(block_lists[h][c]) = {}
      BY <1>z, <2>1
    <2>4. \A h \in Heaps : Range(reuse_list[h]) = {}
      BY <1>z, <2>1
    <2> QED BY <2>1, <2>2, <2>3, <2>4 DEF Lists
  <1>8. reuse_size \in [Heaps -> Int] /\ reuse_bytes \in Int
    BY <1>1
  <1>9. AllPlaced(live, op, meta, block_lists, reuse_list)
    BY <1>1, <1>2, <1>3, Zenon DEF AllPlaced, Placed
  <1>10. \A b : Addrs(live, op, b) = {}
    <2>1. ASSUME NEW b, NEW x, x \in Addrs(live, op, b) PROVE FALSE
      BY <1>1, <1>2, <1>3, <2>1, InAddrs
    <2> QED BY <2>1
  <1>11. Contents(meta, slots, chunks, bump, live, op)
    <2>1. OfBlocks(slots) /\ OfBlocks(chunks) /\ OfBlocks(bump)
      BY <1>1 DEF OfBlocks
    <2>2. \A b \in Blocks : meta[b] = None
      BY <1>1
    <2> QED BY <1>10, <2>1, <2>2, FS_EmptySet DEF Contents, BlockOK
  <1>12. BumpsBased(block_lists, bump)
    <2>1. \A h \in Heaps, c \in Classes : Range(block_lists[h][c]) = {}
      BY <1>1, <1>z
    <2> QED BY <2>1 DEF BumpsBased
  <1> QED BY <1>4, <1>5, <1>6, <1>7, <1>8, <1>9, <1>11, <1>12, Zenon DEF HeapInv

\* It holds when nothing changes.
LEMMA StutterHeap == HeapInv /\ UNCHANGED vars => HeapInv'
  <1> SUFFICES ASSUME HeapInv, UNCHANGED vars PROVE HeapInv'
    OBVIOUS
  <1>1. /\ meta' = meta /\ slots' = slots /\ chunks' = chunks /\ bump' = bump
        /\ block_lists' = block_lists /\ lock' = lock /\ reuse_list' = reuse_list
        /\ reuse_size' = reuse_size /\ reuse_lock' = reuse_lock /\ reuse_bytes' = reuse_bytes
        /\ op' = op /\ live' = live
    BY DEF vars, inside, reuse
  <1> QED BY <1>1, Zenon DEF HeapInv

\* The inductive invariant of the allocator: the calls' records are well
\* formed, locks are held where the code holds them, every address is one
\* holder's alone, a block is on one list or on none, and what a block counts
\* is what is held of it.
THEOREM HeapInvariant == Spec => []HeapInv
  <1>1. HeapInv /\ [Next]_vars => HeapInv'
    <2> SUFFICES ASSUME HeapInv, [Next]_vars PROVE HeapInv'
      OBVIOUS
    <2>1. ASSUME NEW t \in Threads, Malloc(t) PROVE HeapInv'
      BY <2>1, MallocInv
    <2>2. ASSUME NEW t \in Threads, Realloc(t) PROVE HeapInv'
      BY <2>2, ReallocInv
    <2>3. ASSUME NEW t \in Threads, LockList(t) PROVE HeapInv'
      BY <2>3, LockListInv
    <2>4. ASSUME NEW t \in Threads, AllocSlot(t) PROVE HeapInv'
      BY <2>4, AllocSlotInv
    <2>5. ASSUME NEW t \in Threads, AllocChunk(t) PROVE HeapInv'
      BY <2>5, AllocChunkInv
    <2>6. ASSUME NEW t \in Threads, NoChunk(t) PROVE HeapInv'
      BY <2>6, NoChunkInv
    <2>7. ASSUME NEW t \in Threads, MarkFull(t) PROVE HeapInv'
      BY <2>7, MarkFullInv
    <2>8. ASSUME NEW t \in Threads, AllocBump(t) PROVE HeapInv'
      BY <2>8, AllocBumpInv
    <2>9. ASSUME NEW t \in Threads, NextBlock(t) PROVE HeapInv'
      BY <2>9, NextBlockInv
    <2>10. ASSUME NEW t \in Threads, ListEnds(t) PROVE HeapInv'
      BY <2>10, ListEndsInv
    <2>11. ASSUME NEW t \in Threads, GcBlock(t) PROVE HeapInv'
      BY <2>11, GcBlockInv
    <2>12. ASSUME NEW t \in Threads, GcEnds(t) PROVE HeapInv'
      BY <2>12, GcEndsInv
    <2>13. ASSUME NEW t \in Threads, UnlinkReuse(t) PROVE HeapInv'
      BY <2>13, UnlinkReuseInv
    <2>14. ASSUME NEW t \in Threads, ReuseBlock(t) PROVE HeapInv'
      BY <2>14, GetBlockInv
    <2>15. ASSUME NEW t \in Threads, MakeBlock(t) PROVE HeapInv'
      BY <2>15, GetBlockInv
    <2>16. ASSUME NEW t \in Threads, Return(t) PROVE HeapInv'
      BY <2>16, ReturnInv
    <2>17. ASSUME NEW t \in Threads, Free(t) PROVE HeapInv'
      BY <2>17, FreeInv
    <2>18. ASSUME NEW t \in Threads, FreeBig(t) PROVE HeapInv'
      BY <2>18, FreeBigInv
    <2>19. ASSUME NEW t \in Threads, FreeBump(t) PROVE HeapInv'
      BY <2>19, FreeBumpInv
    <2>20. ASSUME NEW t \in Threads, FreeSlot(t) PROVE HeapInv'
      BY <2>20, FreeSlotInv
    <2>21. ASSUME NEW t \in Threads, FreeChunk(t) PROVE HeapInv'
      BY <2>21, FreeChunkInv
    <2>22. ASSUME NEW t \in Threads, ClearFull(t) PROVE HeapInv'
      BY <2>22, ClearFullInv
    <2>23. ASSUME NEW t \in Threads, Count(t) PROVE HeapInv'
      BY <2>23, CountInv
    <2>24. ASSUME NEW t \in Threads, SweepLock(t) PROVE HeapInv'
      BY <2>24, SweepLockInv
    <2>25. ASSUME NEW t \in Threads, SweepNext(t) PROVE HeapInv'
      BY <2>25, SweepNextInv
    <2>26. ASSUME NEW h \in UserHeaps, DestroyHeap(h) PROVE HeapInv'
      <3>1. h \in Heaps
        BY MallocAssumption
      <3> QED BY <2>26, <3>1, DestroyHeapInv
    <2>27. CASE UNCHANGED vars
      BY <2>27, StutterHeap
    <2> QED
      BY <2>1, <2>2, <2>3, <2>4, <2>5, <2>6, <2>7, <2>8, <2>9, <2>10, <2>11, <2>12, <2>13,
         <2>14, <2>15, <2>16, <2>17, <2>18, <2>19, <2>20, <2>21, <2>22, <2>23, <2>24, <2>25,
         <2>26, <2>27, Zenon DEF Next
  <1> QED BY <1>1, InitHeap, PTL DEF Spec

\* What is held of a block is its addresses, each once.
LEMMA HoldingIs ==
  ASSUME NEW b, NEW u
  PROVE  [block |-> b, at |-> u] \in Holdings <=> u \in Addrs(live, op, b)
  <1> DEFINE r == [block |-> b, at |-> u]
  <1>1. r \in Holdings <=>
          \/ \E p \in live : r = [block |-> p.block, at |-> p.at]
          \/ \E t \in Threads : Holder(op[t]) /\ r = [block |-> op[t].at, at |-> op[t].mem]
    BY DEF Holdings, OfCall, Calls, Holder
  <1>2. \A c, v : r = [block |-> c, at |-> v] <=> c = b /\ v = u
    OBVIOUS
  <1> HIDE DEF r
  <1>3. u \in Addrs(live, op, b) <=>
          \/ \E p \in live : p.block = b /\ p.at = u
          \/ \E t \in Threads : Holder(op[t]) /\ op[t].at = b /\ op[t].mem = u
    BY InAddrs
  <1>4. r \in Holdings <=> u \in Addrs(live, op, b)
    <2>1. \A p : r = [block |-> p.block, at |-> p.at] <=> p.block = b /\ p.at = u
      BY <1>2
    <2>2. \A t : r = [block |-> op[t].at, at |-> op[t].mem] <=> op[t].at = b /\ op[t].mem = u
      BY <1>2
    <2> QED BY <1>1, <1>3, <2>1, <2>2, Zenon
  <1> QED BY <1>4 DEF r

\* A holding is a block and an address.
LEMMA HoldingShape == \A o \in Holdings : o = [block |-> o.block, at |-> o.at]
  BY DEF Holdings, OfCall

\* The holdings of a block, by kind, from the addresses held of it.
LEMMA InBlockIs ==
  ASSUME NEW b
  PROVE  /\ {o.at : o \in InBlock(b, IsSlot)} = HeldSlots(meta[b].class, Addrs(live, op, b))
         /\ {o.at : o \in InBlock(b, IsChunk)} = HeldChunks(meta[b].class, Addrs(live, op, b))
         /\ {SlotAt(meta[b].class, o.at) : o \in InBlock(b, IsSlot)}
              = {SlotAt(meta[b].class, u) : u \in HeldSlots(meta[b].class, Addrs(live, op, b))}
         /\ InBlock(b, IsBump)
              = {[block |-> b, at |-> u] : u \in HeldBumps(meta[b].class, Addrs(live, op, b))}
  <1> DEFINE A == Addrs(live, op, b)  c == meta[b].class  H == Holdings
             r(u) == [block |-> b, at |-> u]
  <1>1. \A u : r(u) \in H <=> u \in A
    BY HoldingIs, Zenon
  <1>2. \A o \in H : o.block = b => o = r(o.at)
    BY HoldingShape, Zenon
  <1>3. \A u : r(u).block = b /\ r(u).at = u
    OBVIOUS
  <1>4. /\ InBlock(b, IsSlot) = {o \in H : o.block = b /\ IsSlot(c, o.at)}
        /\ InBlock(b, IsChunk) = {o \in H : o.block = b /\ IsChunk(c, o.at)}
        /\ InBlock(b, IsBump) = {o \in H : o.block = b /\ IsBump(c, o.at)}
    BY Zenon DEF InBlock
  <1> HIDE DEF A, H, c, r
  <1>5. {o \in H : o.block = b /\ IsSlot(c, o.at)} = {r(u) : u \in HeldSlots(c, A)}
    BY <1>1, <1>2, <1>3, Zenon DEF HeldSlots
  <1>6. {o \in H : o.block = b /\ IsChunk(c, o.at)} = {r(u) : u \in HeldChunks(c, A)}
    BY <1>1, <1>2, <1>3, Zenon DEF HeldChunks
  <1>7. {o \in H : o.block = b /\ IsBump(c, o.at)} = {r(u) : u \in HeldBumps(c, A)}
    BY <1>1, <1>2, <1>3, Zenon DEF HeldBumps
  <1>8. \A U : {o.at : o \in {r(u) : u \in U}} = U
    BY <1>3, Zenon
  <1>9. \A U : {SlotAt(c, o.at) : o \in {r(u) : u \in U}} = {SlotAt(c, u) : u \in U}
    BY <1>3, Zenon
  <1>10. {o.at : o \in InBlock(b, IsSlot)} = HeldSlots(c, A)
    BY <1>4, <1>5, <1>8
  <1>11. {o.at : o \in InBlock(b, IsChunk)} = HeldChunks(c, A)
    BY <1>4, <1>6, <1>8
  <1>12. {SlotAt(c, o.at) : o \in InBlock(b, IsSlot)} = {SlotAt(c, u) : u \in HeldSlots(c, A)}
    BY <1>4, <1>5, <1>9
  <1>13. InBlock(b, IsBump) = {r(u) : u \in HeldBumps(c, A)}
    BY <1>4, <1>7
  <1> QED BY <1>10, <1>11, <1>12, <1>13, Zenon DEF A, c, r

\* As many holdings as addresses.
LEMMA PlacedCardinality ==
  ASSUME NEW b, NEW U, IsFiniteSet(U)
  PROVE  Cardinality({[block |-> b, at |-> u] : u \in U}) = Cardinality(U)
  <1> DEFINE R == {[block |-> b, at |-> u] : u \in U}
             f == [u \in U |-> [block |-> b, at |-> u]]
  <1>1. f \in Bijection(U, R)
    BY DEF Bijection, Injection, Surjection, IsInjective
  <1>2. ExistsBijection(U, R)
    BY <1>1, Zenon DEF ExistsBijection
  <1> QED BY <1>2, FS_Bijection, Zenon

\* A region with every slot taken.
LEMMA RegionFull ==
  ASSUME NEW taken \in SUBSET Nat, NEW r \in Nat
  PROVE  Cardinality(InRegion(taken, r)) = RegionSlots <=> InRegion(taken, r) = 0 .. RegionSlots - 1
  <1> DEFINE S == 0 .. RegionSlots - 1  T == InRegion(taken, r)
  <1>1. RegionSlots \in Nat \ {0} /\ T \subseteq S
    BY Geometry, InRegionIs
  <1>2. IsFiniteSet(S) /\ Cardinality(S) = RegionSlots
    <2>1. 0 \in Int /\ RegionSlots - 1 \in Int
      BY <1>1
    <2>2. IsFiniteSet(S) /\ Cardinality(S) = IF 0 > RegionSlots - 1 THEN 0 ELSE (RegionSlots - 1) - 0 + 1
      BY <2>1, FS_Interval
    <2> QED BY <1>1, <2>2
  <1> HIDE DEF S, T
  <1>3. Cardinality(T) = Cardinality(S) => T = S
    BY <1>1, <1>2, FS_Subset
  <1>4. Cardinality(T) = RegionSlots <=> T = S
    BY <1>2, <1>3
  <1> QED BY <1>4 DEF S, T

\* The counts are part of the invariant.
LEMMA HeapCounts == HeapInv => CountsExact
  <1> SUFFICES ASSUME HeapInv, NEW b \in Mapped, meta[b].class # Big
        PROVE  LET class == meta[b].class IN
               /\ slots[b].taken = {SlotAt(class, o.at) : o \in InBlock(b, IsSlot)}
               /\ slots[b].n = Cardinality(slots[b].taken)
               /\ \A r \in 0 .. (MaxSlots \div RegionSlots) - 1 :
                    r \in slots[b].full <=> Cardinality(InRegion(slots[b].taken, r)) = RegionSlots
               /\ {u \in DOMAIN chunks[b] : ~chunks[b][u].free} = {o.at : o \in InBlock(b, IsChunk)}
               /\ bump[b].n - bump[b].freed = Cardinality(InBlock(b, IsBump))
    BY DEF CountsExact
  <1> DEFINE A == Addrs(live, op, b)  c == meta[b].class
  <1>1. b \in Blocks /\ meta[b] # None
    BY DEF Mapped
  <1>2. BlockOK(meta[b], slots[b], chunks[b], bump[b], A)
    BY <1>1, Zenon DEF HeapInv, Contents
  <1>3. IsFiniteSet(A) /\ BlockMatch(c, slots[b], chunks[b], bump[b], A)
    BY <1>1, <1>2, Zenon DEF BlockOK
  <1>4. SlotsMatch(c, slots[b], A) /\ ChunksMatch(c, chunks[b], A) /\ BumpMatch(c, bump[b], A)
    BY <1>3, Zenon DEF BlockMatch
  <1>5. /\ {SlotAt(c, o.at) : o \in InBlock(b, IsSlot)} = {SlotAt(c, u) : u \in HeldSlots(c, A)}
        /\ {o.at : o \in InBlock(b, IsChunk)} = HeldChunks(c, A)
        /\ InBlock(b, IsBump) = {[block |-> b, at |-> u] : u \in HeldBumps(c, A)}
    BY InBlockIs, Zenon
  <1> HIDE DEF A, c
  <1>6. slots[b].taken = {SlotAt(c, o.at) : o \in InBlock(b, IsSlot)}
    BY <1>4, <1>5, Zenon DEF SlotsMatch
  <1>7. slots[b].n = Cardinality(slots[b].taken)
    BY <1>4, Zenon DEF SlotsMatch
  <1>8. ASSUME NEW r \in 0 .. (MaxSlots \div RegionSlots) - 1
        PROVE  r \in slots[b].full <=> Cardinality(InRegion(slots[b].taken, r)) = RegionSlots
    <2>1. slots[b].taken \in SUBSET Nat
      BY <1>4 DEF SlotsMatch, SlotType
    <2>2. r \in Regions /\ r \in Nat
      BY DEF Regions
    <2>3. r \in slots[b].full <=> InRegion(slots[b].taken, r) = 0 .. RegionSlots - 1
      BY <1>4, <2>2, Zenon DEF SlotsMatch, RegionsMatch
    <2> QED BY <2>1, <2>2, <2>3, RegionFull, Zenon
  <1>9. {u \in DOMAIN chunks[b] : ~chunks[b][u].free} = {o.at : o \in InBlock(b, IsChunk)}
    BY <1>4, <1>5, Zenon DEF ChunksMatch
  <1>10. bump[b].n - bump[b].freed = Cardinality(InBlock(b, IsBump))
    <2>1. HeldBumps(c, A) \subseteq A
      BY DEF HeldBumps
    <2>2. IsFiniteSet(HeldBumps(c, A))
      BY <1>3, <2>1, FS_Subset
    <2>3. Cardinality(InBlock(b, IsBump)) = Cardinality(HeldBumps(c, A))
      BY <1>5, <2>2, PlacedCardinality
    <2> QED BY <1>4, <2>3, Zenon DEF BumpMatch
  <1> QED BY <1>6, <1>7, <1>8, <1>9, <1>10 DEF c

\* Where the blocks are is part of it.
LEMMA HeapPlaces == HeapInv => BlocksPlaced
  <1> SUFFICES ASSUME HeapInv PROVE BlocksPlaced
    OBVIOUS
  <1>1. Lists(meta, block_lists, reuse_list) /\ AllPlaced(live, op, meta, block_lists, reuse_list)
        /\ live \subseteq ObjectType
    BY Zenon DEF HeapInv, OldsOK
  <1>2. \A h \in Heaps : IsInjective(reuse_list[h]) /\ \A c \in Classes : IsInjective(block_lists[h][c])
    BY <1>1, Zenon DEF Lists
  <1>3. \A b : b \in Kept4Reuse <=> Retired(reuse_list, b)
    BY Zenon DEF Kept4Reuse, Retired
  <1>4. \A b, h, c : <<h, c>> \in Places(b) <=>
                       h \in Heaps /\ c \in Classes /\ b \in Range(block_lists[h][c])
    BY DEF Places
  <1>5. \A b : Places(b) \subseteq Heaps \X Classes
    BY DEF Places
  <1>6. ASSUME NEW b \in Blocks, Places(b) # {}
        PROVE  b \in Mapped \ Kept4Reuse /\ Places(b) = {<<meta[b].heap, meta[b].class>>}
    <2>1. ASSUME NEW h \in Heaps, NEW c \in Classes, <<h, c>> \in Places(b)
          PROVE  meta[b] # None /\ h = meta[b].heap /\ c = meta[b].class /\ ~Retired(reuse_list, b)
      BY <1>1, <1>4, <2>1, ListFacts
    <2>2. PICK h \in Heaps, c \in Classes : <<h, c>> \in Places(b)
      BY <1>5, <1>6
    <2>3. b \in Mapped \ Kept4Reuse
      BY <1>3, <2>1, <2>2 DEF Mapped
    <2>4. <<meta[b].heap, meta[b].class>> \in Places(b)
      BY <2>1, <2>2
    <2>5. \A p \in Places(b) : p = <<meta[b].heap, meta[b].class>>
      BY <1>5, <2>1
    <2> QED BY <2>3, <2>4, <2>5
  <1>7. \A h \in Heaps : \A b \in Range(reuse_list[h]) : b \in Mapped /\ meta[b].heap = h
    BY <1>1, ListFacts DEF Mapped
  <1>8. ASSUME NEW o \in Holdings
        PROVE  o.block \in Mapped \ Kept4Reuse /\ (meta[o.block].class # Big => Places(o.block) # {})
    <2>1. \/ \E p \in live : o.block = p.block
          \/ \E t \in Threads : Holder(op[t]) /\ o.block = op[t].at
      BY DEF Holdings, OfCall, Calls, Holder
    <2>2. Used(meta, block_lists, reuse_list, o.block) /\ o.block \in Blocks
      <3>1. CASE \E p \in live : o.block = p.block
        BY <1>1, <3>1 DEF AllPlaced, ObjectType
      <3>2. CASE \E t \in Threads : Holder(op[t]) /\ o.block = op[t].at
        <4>1. PICK t \in Threads : Holder(op[t]) /\ o.block = op[t].at
          BY <3>2
        <4>2. op[t].at \in Blocks
          BY <4>1, OpOf, Zenon DEF Shape
        <4> QED BY <1>1, <4>1, <4>2, Zenon DEF AllPlaced, Placed
      <3> QED BY <2>1, <3>1, <3>2
    <2>3. meta[o.block] # None /\ ~Retired(reuse_list, o.block)
      BY <2>2, Zenon DEF Used
    <2>4. o.block \in Mapped \ Kept4Reuse
      BY <1>3, <2>2, <2>3 DEF Mapped
    <2>5. meta[o.block].class # Big => Places(o.block) # {}
      <3>1. meta[o.block].class # Big => Listed(block_lists, o.block)
        BY <2>2, Zenon DEF Used
      <3> QED BY <1>4, <3>1, Zenon DEF Listed
    <2> QED BY <2>4, <2>5
  <1> QED BY <1>2, <1>6, <1>7, <1>8, Zenon DEF BlocksPlaced

\* CountsExact, for every number of threads, heaps, classes and blocks: the
\* slots taken, the full regions, the chunks in use and the bump count of a
\* block are those that the program or a call under way holds
\* (bkmalloc.h:2449-2883).
THEOREM CountsAreExact == Spec => []CountsExact
  BY HeapInvariant, HeapCounts, PTL

\* BlocksPlaced, for every instance: a block that holds memory is on one list
\* of its own heap and class and no retired block holds any
\* (bkmalloc.h:2883-3231).
THEOREM BlocksArePlaced == Spec => []BlocksPlaced
  BY HeapInvariant, HeapPlaces, PTL

---------------------------------------------------------------------------
(* What the reuse lists are counted to hold                                *)

\* The blocks the sum of all lists counts: listed, or just unlinked.
Pool(rl, o) == {x \in Blocks : Retired(rl, x) \/ \E u \in Threads : o[u].pc = "reuse" /\ o[u].at = x}
Sums(m, rl, rs, rb, pool) ==
  /\ \A h \in Heaps : rs[h] = SumOver(m, Range(rl[h]))
  /\ SumOver(m, pool) <= rb /\ rb <= MaxReuse
HeapSums == Sums(meta, reuse_list, reuse_size, reuse_bytes, Pool(reuse_list, op))

SameReusers(o, q) ==
  \A u \in Threads : /\ q[u].pc = "reuse" <=> o[u].pc = "reuse"
                     /\ o[u].pc = "reuse" => q[u].at = o[u].at

\* The pool: blocks that are retired and those that a call took from there.
LEMMA PoolFacts ==
  ASSUME HeapInv
  PROVE  /\ IsFiniteSet(Pool(reuse_list, op)) /\ Pool(reuse_list, op) \subseteq Blocks
         /\ \A x \in Pool(reuse_list, op) : meta[x] \in MetaType /\ meta[x] # None /\ meta[x].size \in Nat
         /\ \A h \in Heaps : Range(reuse_list[h]) \subseteq Pool(reuse_list, op)
  <1>1. Pool(reuse_list, op) \subseteq Blocks /\ IsFiniteSet(Blocks)
    BY MallocAssumption DEF Pool
  <1>2. IsFiniteSet(Pool(reuse_list, op))
    BY <1>1, FS_Subset
  <1>3. ASSUME NEW x \in Pool(reuse_list, op) PROVE meta[x] \in MetaType /\ meta[x] # None
    <2>1. CASE Retired(reuse_list, x)
      BY <2>1, RetiredSizes DEF Retired
    <2>2. CASE \E u \in Threads : op[u].pc = "reuse" /\ op[u].at = x
      BY <2>2, ReuseIs
    <2> QED BY <1>3, <2>1, <2>2 DEF Pool
  <1>4. \A m \in MetaType : m.size \in Nat
    BY DEF MetaType
  <1>5. ASSUME NEW h \in Heaps, NEW x \in Range(reuse_list[h]) PROVE x \in Pool(reuse_list, op)
    <2>1. x \in Blocks
      BY RetiredSizes
    <2> QED BY <2>1 DEF Pool, Retired
  <1> QED BY <1>1, <1>2, <1>3, <1>4, <1>5

\* The pool when no call begins or ends to prepare a block.
LEMMA SamePool ==
  ASSUME NEW rl, NEW o, NEW q, SameReusers(o, q)
  PROVE  Pool(rl, q) = Pool(rl, o)
  BY DEF SameReusers, Pool

\* A step that touches neither the lists nor a call that takes from them.
LEMMA SumsQuiet ==
  ASSUME HeapSums, UNCHANGED <<meta, reuse_list, reuse_size, reuse_bytes>>, SameReusers(op, op')
  PROVE  HeapSums'
  <1>1. Pool(reuse_list, op') = Pool(reuse_list, op)
    BY SamePool, Zenon
  <1>2. /\ meta' = meta /\ reuse_list' = reuse_list /\ reuse_size' = reuse_size
        /\ reuse_bytes' = reuse_bytes
    OBVIOUS
  <1> QED BY <1>1, <1>2, Zenon DEF HeapSums

\* Blocks leave the pool, those that stay keep their size.
LEMMA SumSmaller ==
  ASSUME NEW m, NEW k, NEW P, IsFiniteSet(P), \A x \in P : m[x].size \in Nat, NEW Q \in SUBSET P,
         \A x \in Q : k[x].size = m[x].size
  PROVE  /\ SumOver(m, P) = SumOver(k, Q) + SumOver(m, P \ Q)
         /\ SumOver(k, Q) \in Nat /\ SumOver(m, P \ Q) \in Nat
  <1>1. IsFiniteSet(Q) /\ IsFiniteSet(P \ Q)
    BY FS_Subset
  <1>2. SumOver(k, Q) = SumOver(m, Q)
    BY <1>1, SumSame
  <1>3. SumOver(m, Q) \in Nat
    BY <1>1, SumType
  <1>4. SumOver(m, P \ Q) \in Nat
    BY <1>1, SumType
  <1>5. SumOver(m, P) = SumOver(m, Q) + SumOver(m, P \ Q)
    BY SumUnion
  <1> QED BY <1>2, <1>3, <1>4, <1>5

\* The lists of the other heaps keep their sums.
LEMMA OtherSums ==
  ASSUME HeapInv, HeapSums, NEW g \in Heaps, reuse_list'[g] = reuse_list[g],
         reuse_size'[g] = reuse_size[g],
         \A x \in Range(reuse_list[g]) : meta'[x].size = meta[x].size
  PROVE  reuse_size'[g] = SumOver(meta', Range(reuse_list'[g]))
  <1>1. IsFiniteSet(Range(reuse_list[g]))
    BY RetiredSizes
  <1> DEFINE k == meta'  R == Range(reuse_list[g])
  <1>2. SumOver(meta, R) = SumOver(k, R)
    <2> HIDE DEF k, R
    <2>1. IsFiniteSet(R) /\ \A x \in R : meta[x].size = k[x].size
      BY <1>1 DEF k, R
    <2> QED BY <2>1, SumSame
  <1>3. reuse_size[g] = SumOver(meta, R)
    BY Zenon DEF HeapSums, Sums
  <1> QED BY <1>2, <1>3

\* Retiring a block adds its size to the sums, dropping others takes theirs
\* off.
LEMMA RemovedSums ==
  ASSUME HeapInv, HeapSums, NEW h \in Heaps, NEW b \in Blocks, meta[b] \in MetaType,
         ~Retired(reuse_list, b), b \notin Pool(reuse_list, op),
         NEW kept, NEW delta, Removed(h, b, kept, delta), SameReusers(op, op')
  PROVE  HeapSums'
  <1> DEFINE R == Range(reuse_list[h])  K == Range(kept)  k == meta'
             P == Pool(reuse_list, op)  Q == Pool(reuse_list', op')
  <1>1. /\ reuse_list' = Set(reuse_list, h, kept) /\ kept \in Seq(Blocks) /\ delta \in Int
        /\ reuse_size' = [reuse_size EXCEPT ![h] = @ + delta] /\ reuse_bytes' = reuse_bytes + delta
        /\ k = [x \in Blocks |->
             IF x \in ({b} \cup R) \ K THEN None ELSE IF x = b THEN RetiredMeta(b) ELSE meta[x]]
        /\ \/ K = R /\ delta = 0
           \/ /\ b \in K /\ K \subseteq {b} \cup R
              /\ delta = meta[b].size - SumOver(meta, R \ K)
              /\ reuse_bytes - reuse_size[h] + SumOver(meta, K \ {b}) + meta[b].size <= MaxReuse
    BY Zenon DEF Removed
  <1>2. /\ IsFiniteSet(R) /\ b \notin R /\ R \subseteq P /\ R \subseteq Blocks
        /\ \A x \in R : meta[x].size \in Nat
        /\ reuse_size[h] \in Int /\ reuse_bytes \in Int /\ MaxReuse \in Nat
    BY RetiredSizes, PoolFacts DEF Retired
  <1>3. IsFiniteSet(P) /\ P \subseteq Blocks /\ b \notin P /\ \A x \in P : meta[x].size \in Nat
    BY PoolFacts
  <1>4. meta[b].size \in Nat /\ RetiredMeta(b).size = meta[b].size
    BY DEF MetaType, RetiredMeta
  <1>5. reuse_size[h] = SumOver(meta, R) /\ SumOver(meta, P) <= reuse_bytes /\ reuse_bytes <= MaxReuse
    BY Zenon DEF HeapSums, Sums
  <1>l. reuse_list \in [Heaps -> Seq(Blocks)] /\ reuse_size \in [Heaps -> Int]
        /\ Lists(meta, block_lists, reuse_list)
    BY Zenon DEF HeapInv, Lists
  <1>6. Pool(reuse_list', op') = Pool(reuse_list', op)
    BY SamePool, Zenon
  <1>7. /\ reuse_list'[h] = kept /\ \A g \in Heaps : g # h => reuse_list'[g] = reuse_list[g]
        /\ reuse_size'[h] = reuse_size[h] + delta
        /\ \A g \in Heaps : g # h => reuse_size'[g] = reuse_size[g]
    BY <1>1, <1>l DEF Set
  \* No other list, and no call, has a block that goes.
  <1>8. \A g \in Heaps : g # h => \A x \in Range(reuse_list[g]) : x \in Blocks /\ x \notin R /\ x # b
    <2>1. ASSUME NEW g \in Heaps, g # h, NEW x \in Range(reuse_list[g]) PROVE x \in Blocks /\ x \notin R /\ x # b
      <3>1. x \in Blocks /\ meta[x].heap = g /\ Retired(reuse_list, x)
        BY <1>l, ListFacts
      <3>2. x \notin R
        <4>1. \A y \in R : meta[y].heap = h
          BY <1>l, ListFacts
        <4> HIDE DEF R
        <4> QED BY <2>1, <3>1, <4>1
      <3>3. x # b
        BY <3>1
      <3> QED BY <3>1, <3>2, <3>3
    <2> QED BY <2>1
  <1>9. \A u \in Threads : op[u].pc = "reuse" => op[u].at \notin R /\ op[u].at # b /\ op[u].at \in P
    <2>1. ASSUME NEW u \in Threads, op[u].pc = "reuse" PROVE op[u].at \notin R /\ op[u].at \in P
      BY <2>1, ReuseIs DEF Retired, Pool
    <2> QED BY <1>3, <2>1
  <1>r. K \subseteq {b} \cup R
    BY <1>1
  <1>10. Q = (P \ (R \ K)) \cup K
    <2>1. ASSUME NEW x \in Blocks
          PROVE  x \in Q <=> (x \in P /\ ~(x \in R /\ x \notin K)) \/ x \in K
      <3>1. x \in Q <=> \/ \E g \in Heaps : x \in Range(reuse_list'[g])
                        \/ \E u \in Threads : op[u].pc = "reuse" /\ op[u].at = x
        BY <1>6 DEF Pool, Retired
      <3>2. x \in P <=> \/ \E g \in Heaps : x \in Range(reuse_list[g])
                        \/ \E u \in Threads : op[u].pc = "reuse" /\ op[u].at = x
        BY DEF Pool, Retired
      <3> HIDE DEF P, Q
      <3>3. (\E g \in Heaps : x \in Range(reuse_list'[g]))
              <=> x \in K \/ \E g \in Heaps : g # h /\ x \in Range(reuse_list[g])
        BY <1>7
      <3>4. (\E g \in Heaps : x \in Range(reuse_list[g]))
              <=> x \in R \/ \E g \in Heaps : g # h /\ x \in Range(reuse_list[g])
        OBVIOUS
      <3> HIDE DEF R, K
      <3>5. (\E g \in Heaps : g # h /\ x \in Range(reuse_list[g])) => x \notin R
        BY <1>8, Zenon
      <3>6. (\E u \in Threads : op[u].pc = "reuse" /\ op[u].at = x) => x \notin R
        BY <1>9, Zenon
      <3> QED BY <3>1, <3>2, <3>3, <3>4, <3>5, <3>6, Zenon
    <2>2. K \subseteq Blocks /\ Q \subseteq Blocks
      BY <1>1, <1>2, <1>r DEF Pool
    <2> HIDE DEF P, Q, K, R
    <2> QED BY <1>3, <2>1, <2>2
  <1>11. \A x \in Blocks : x \notin ({b} \cup R) \ K => k[x].size = meta[x].size
    BY <1>1, <1>4
  <1> HIDE DEF P, Q, R, K, k
  \* The list of this heap, and all of them.
  <1>12. reuse_size'[h] = SumOver(k, K) /\ SumOver(k, Q) <= reuse_bytes' /\ reuse_bytes' <= MaxReuse
    <2>1. CASE K = R /\ delta = 0
      <3>1. Q = P
        BY <1>2, <1>10, <2>1
      <3>2. \A x \in P : k[x].size = meta[x].size
        BY <1>3, <1>11, <2>1
      <3>3. SumOver(meta, P) = SumOver(k, P)
        BY <1>3, <3>2, SumSame
      <3>4. SumOver(meta, R) = SumOver(k, R)
        BY <1>2, <3>2, SumSame
      <3> QED BY <1>1, <1>2, <1>5, <1>7, <2>1, <3>1, <3>3, <3>4
    <2>2. CASE /\ b \in K /\ K \subseteq {b} \cup R
               /\ delta = meta[b].size - SumOver(meta, R \ K)
               /\ reuse_bytes - reuse_size[h] + SumOver(meta, K \ {b}) + meta[b].size <= MaxReuse
      <3> DEFINE L == K \ {b}  D == R \ K
      <3>1. L \subseteq R /\ R \ L = D /\ D \subseteq P /\ L \subseteq P
        BY <1>2, <2>2
      <3>2. \A x \in L : k[x].size = meta[x].size
        BY <1>2, <1>11, <3>1
      <3>3. SumOver(meta, R) = SumOver(meta, L) + SumOver(meta, D) /\ SumOver(meta, D) \in Nat
            /\ SumOver(meta, L) \in Nat
        <4>1. IsFiniteSet(D) /\ IsFiniteSet(L)
          BY <1>2, <3>1, FS_Subset
        <4> HIDE DEF D, L
        <4>2. SumOver(meta, D) \in Nat /\ SumOver(meta, L) \in Nat
          <5>1. \A x \in D : meta[x].size \in Nat
            BY <1>3, <3>1
          <5>2. \A x \in L : meta[x].size \in Nat
            BY <1>3, <3>1
          <5> QED BY <4>1, <5>1, <5>2, SumType
        <4>3. SumOver(meta, R) = SumOver(meta, L) + SumOver(meta, R \ L)
          BY <1>2, <3>1, SumUnion
        <4> QED BY <3>1, <4>2, <4>3
      <3>4. SumOver(k, K) = meta[b].size + SumOver(meta, L)
        <4>1. IsFiniteSet(K)
          <5>1. K = {b} \cup L
            BY <2>2
          <5>2. IsFiniteSet(L)
            BY <1>2, <3>1, FS_Subset
          <5> QED BY <5>1, <5>2, FS_AddElement
        <4>2. k[b].size = meta[b].size
          BY <1>11, <2>2
        <4>3. \A x \in K : k[x].size \in Nat
          BY <1>2, <1>4, <2>2, <3>1, <3>2, <4>2
        <4>4. SumOver(k, K) = k[b].size + SumOver(k, L)
          BY <2>2, <4>1, <4>3, SumLess
        <4>5. SumOver(k, L) = SumOver(meta, L)
          <5>1. IsFiniteSet(L)
            BY <4>1, FS_Subset
          <5> HIDE DEF L
          <5> QED BY <3>2, <5>1, SumSame
        <4> QED BY <4>2, <4>4, <4>5
      <3>5. SumOver(k, Q) = meta[b].size + SumOver(meta, P \ D)
        <4> DEFINE N == P \ D
        <4>1. Q = N \cup {b} /\ b \notin N /\ N = Q \ {b}
          BY <1>2, <1>3, <1>10, <2>2, <3>1
        <4>2. IsFiniteSet(N)
          BY <1>3, FS_Subset
        <4>3. \A x \in N : x \in P /\ k[x].size = meta[x].size
          <5>1. \A x \in N : x \in Blocks /\ x \notin ({b} \cup R) \ K /\ x \in P
            BY <1>3
          <5> QED BY <1>11, <5>1
        <4> HIDE DEF N
        <4>4. k[b].size = meta[b].size
          BY <1>11, <2>2
        <4>5. IsFiniteSet(Q)
          BY <4>1, <4>2, FS_AddElement
        <4>6. b \in Q /\ \A x \in Q : k[x].size \in Nat
          BY <1>3, <1>4, <4>1, <4>3, <4>4
        <4>7. SumOver(k, Q) = k[b].size + SumOver(k, N)
          BY <4>1, <4>5, <4>6, SumLess
        <4>8. SumOver(k, N) = SumOver(meta, N)
          BY <4>2, <4>3, SumSame
        <4> QED BY <4>4, <4>7, <4>8 DEF N
      <3>6. SumOver(meta, P) = SumOver(meta, D) + SumOver(meta, P \ D)
        BY <1>3, <3>1, SumUnion
      <3>7. SumOver(meta, P \ D) \in Nat
        <4>1. IsFiniteSet(P \ D)
          BY <1>3, FS_Subset
        <4> QED BY <1>3, <4>1, SumType
      <3> HIDE DEF L, D
      <3>8. /\ delta = meta[b].size - SumOver(meta, D)
            /\ reuse_bytes - reuse_size[h] + SumOver(meta, L) + meta[b].size <= MaxReuse
        BY <2>2 DEF L, D
      <3> DEFINE z == meta[b].size  l == SumOver(meta, L)  d == SumOver(meta, D)
                 p == SumOver(meta, P)  n == SumOver(meta, P \ D)
      <3>9. /\ z \in Nat /\ l \in Nat /\ d \in Nat /\ n \in Nat /\ p = d + n
            /\ delta = z - d /\ reuse_size[h] = l + d /\ p <= reuse_bytes
            /\ reuse_bytes - reuse_size[h] + l + z <= MaxReuse
            /\ reuse_bytes \in Int /\ MaxReuse \in Nat
        BY <1>2, <1>4, <1>5, <3>3, <3>6, <3>7, <3>8
      <3>10. reuse_size'[h] = reuse_size[h] + delta /\ reuse_bytes' = reuse_bytes + delta
        BY <1>1, <1>7
      <3>11. SumOver(k, K) = z + l /\ SumOver(k, Q) = z + n
        BY <3>4, <3>5
      <3> HIDE DEF z, l, d, p, n
      <3> QED BY <3>9, <3>10, <3>11
    <2> QED BY <1>1, <2>1, <2>2
  <1>13. ASSUME NEW g \in Heaps, g # h PROVE reuse_size'[g] = SumOver(meta', Range(reuse_list'[g]))
    <2>1. \A x \in Range(reuse_list[g]) : meta'[x].size = meta[x].size
      BY <1>8, <1>11, <1>13 DEF k
    <2> QED BY <1>7, <1>13, <2>1, OtherSums
  <1> QED BY <1>7, <1>12, <1>13, Zenon DEF HeapSums, Sums, K, Q, k

\* Unlinking a retired block leaves the total and takes the heap's part.
LEMMA UnlinkSums ==
  ASSUME HeapInv, HeapSums, NEW t \in Threads, UnlinkReuse(t)
  PROVE  HeapSums'
  <1> DEFINE h == op[t].heap  s == reuse_list[h]  i == BestFit(h, Enough(t))  b == s[i]
  <1>1. /\ op[t].pc = "get" /\ Enough(t) # {}
        /\ reuse_list' = [reuse_list EXCEPT ![h] = RemoveAt(s, i)]
        /\ reuse_size' = [reuse_size EXCEPT ![h] = @ - SizeAt(h, i)]
        /\ op' = [op EXCEPT ![t].pc = "reuse", ![t].at = b]
        /\ meta' = meta /\ reuse_bytes' = reuse_bytes
    BY DEF UnlinkReuse, inside
  <1>2. op[t].pc \in CallLabels /\ op[t].pc \in CallLabels \cup FreeLabels
    BY <1>1 DEF CallLabels
  <1>3. h \in Heaps /\ op[t] \in CallType /\ op \in [Threads -> OpType]
    BY <1>2, WalkClass, OpOf
  <1>4. /\ s \in Seq(Blocks) /\ IsInjective(s) /\ IsFiniteSet(Range(s)) /\ Range(s) \subseteq Blocks
        /\ \A x \in Range(s) : meta[x].heap = h /\ meta[x].size \in Nat
        /\ reuse_size[h] \in Int
    BY <1>3, RetiredSizes
  <1>5. i \in 1 .. Len(s)
    <2>1. Enough(t) \in SUBSET (1 .. Len(s))
      BY <1>4 DEF Enough
    <2>2. i \in Enough(t)
      BY <1>1, <1>3, <2>1, BestFitIs
    <2> QED BY <2>1, <2>2
  <1> HIDE DEF i
  <1>6. b \in Range(s)
    BY <1>4, <1>5, OfRange
  <1>7. Range(RemoveAt(s, i)) = Range(s) \ {b}
    BY <1>4, <1>5, RemoveAtFacts
  <1>8. SizeAt(h, i) = meta[b].size
    BY DEF SizeAt
  <1>9. /\ reuse_list \in [Heaps -> Seq(Blocks)] /\ reuse_size \in [Heaps -> Int]
    BY Zenon DEF HeapInv, Lists
  <1>10. /\ \A u \in Threads : u # t => op'[u] = op[u]
         /\ op'[t].pc = "reuse" /\ op'[t].at = b
    BY <1>1, <1>3 DEF CallType
  <1> DEFINE r == RemoveAt(s, i)
  <1>11. /\ reuse_list' = [reuse_list EXCEPT ![h] = r]
         /\ reuse_size' = [reuse_size EXCEPT ![h] = @ - meta[b].size]
    BY <1>1, <1>8
  <1> HIDE DEF b, s, h, r
  <1>12. /\ reuse_list'[h] = r /\ \A g \in Heaps : g # h => reuse_list'[g] = reuse_list[g]
         /\ reuse_size'[h] = reuse_size[h] - meta[b].size
         /\ \A g \in Heaps : g # h => reuse_size'[g] = reuse_size[g]
    BY <1>3, <1>9, <1>11
  <1>13. Range(r) = Range(s) \ {b} /\ s = reuse_list[h]
    BY <1>7 DEF r, s
  <1>14. Pool(reuse_list', op') = Pool(reuse_list, op)
    <2>1. ASSUME NEW x PROVE Retired(reuse_list', x) \/ x = b <=> Retired(reuse_list, x)
      <3>1. Retired(reuse_list, x) <=> x \in Range(s) \/ \E g \in Heaps : g # h /\ x \in Range(reuse_list[g])
        BY <1>3, <1>13, Zenon DEF Retired
      <3>2. Retired(reuse_list', x) <=> x \in Range(r) \/ \E g \in Heaps : g # h /\ x \in Range(reuse_list[g])
        BY <1>3, <1>12, Zenon DEF Retired
      <3>3. x \in Range(r) <=> x \in Range(s) /\ x # b
        BY <1>13
      <3>4. x = b => x \in Range(s)
        BY <1>6
      <3> QED BY <3>1, <3>2, <3>3, <3>4
    <2>2. ASSUME NEW x
          PROVE  (\E u \in Threads : op'[u].pc = "reuse" /\ op'[u].at = x)
                   <=> x = b \/ \E u \in Threads : op[u].pc = "reuse" /\ op[u].at = x
      BY <1>1, <1>10
    <2> QED BY <2>1, <2>2, Zenon DEF Pool
  <1>15. reuse_size'[h] = SumOver(meta', Range(reuse_list'[h]))
    <2>1. reuse_size[h] = SumOver(meta, Range(s))
      BY <1>3, <1>13, Zenon DEF HeapSums, Sums
    <2>2. SumOver(meta, Range(s)) = meta[b].size + SumOver(meta, Range(s) \ {b})
      BY <1>4, <1>6, SumLess
    <2>3. IsFiniteSet(Range(s) \ {b})
      BY <1>4, FS_Subset
    <2>4. SumOver(meta, Range(s) \ {b}) \in Nat /\ meta[b].size \in Nat
      BY <1>4, <1>6, <2>3, SumType
    <2>5. reuse_size'[h] = SumOver(meta, Range(s) \ {b})
      BY <1>12, <2>1, <2>2, <2>4
    <2> QED BY <1>1, <1>12, <1>13, <2>5
  <1>16. ASSUME NEW g \in Heaps, g # h PROVE reuse_size'[g] = SumOver(meta', Range(reuse_list'[g]))
    BY <1>1, <1>12, <1>16, OtherSums
  <1>17. SumOver(meta, Pool(reuse_list, op)) <= reuse_bytes /\ reuse_bytes <= MaxReuse
    BY Zenon DEF HeapSums, Sums
  <1>18. \A g \in Heaps : reuse_size'[g] = SumOver(meta', Range(reuse_list'[g]))
    BY <1>15, <1>16
  <1>19. SumOver(meta', Pool(reuse_list', op')) <= reuse_bytes' /\ reuse_bytes' <= MaxReuse
    BY <1>1, <1>14, <1>17
  <1> QED BY <1>18, <1>19, Zenon DEF HeapSums, Sums

\* A step after which the pool is a part of what it was.
LEMMA PoolShrinks ==
  ASSUME HeapInv, NEW k, NEW Q \in SUBSET Pool(reuse_list, op),
         \A x \in Q : k[x].size = meta[x].size
  PROVE  /\ SumOver(meta, Pool(reuse_list, op))
              = SumOver(k, Q) + SumOver(meta, Pool(reuse_list, op) \ Q)
         /\ SumOver(k, Q) \in Nat /\ SumOver(meta, Pool(reuse_list, op) \ Q) \in Nat
  <1> DEFINE P == Pool(reuse_list, op)
  <1>1. IsFiniteSet(P) /\ \A x \in P : meta[x].size \in Nat
    BY PoolFacts
  <1>2. Q \in SUBSET P
    OBVIOUS
  <1> HIDE DEF P
  <1>3. /\ SumOver(meta, P) = SumOver(k, Q) + SumOver(meta, P \ Q)
        /\ SumOver(k, Q) \in Nat /\ SumOver(meta, P \ Q) \in Nat
    BY <1>1, <1>2, SumSmaller
  <1> QED BY <1>3 DEF P

\* The blocks passed over are dropped with their sizes.
LEMMA PassedSums ==
  ASSUME HeapInv, HeapSums, NEW t \in Threads, op[t].pc = "reuse", Passed(t),
         Others(op, op', t), op'[t].pc # "reuse"
  PROVE  HeapSums'
  <1> DEFINE h == op[t].heap  b == op[t].at
             left == Range(reuse_list[h])
             gone == {x \in left : PassedOver(x) = None}
             f == Fresh(h, op[t].class, meta[b].size, meta[b].zero, BigCalloc(t))
             P == Pool(reuse_list, op)  Q == P \ ({b} \cup gone)  k == meta'
             s == Without(reuse_list[h], gone)
  <1>1. /\ h \in Heaps /\ b \in Blocks /\ meta[b] \in MetaType
        /\ ~Retired(reuse_list, b)
        /\ \A u \in Threads : u # t /\ op[u].pc = "reuse" => op[u].at # b
    BY ReuseIs, Zenon
  <1>2. /\ reuse_list' = [reuse_list EXCEPT ![h] = s]
        /\ reuse_size' = [reuse_size EXCEPT ![h] = @ - SumOver(meta, gone)]
        /\ reuse_bytes' = reuse_bytes - meta[b].size - SumOver(meta, gone)
        /\ k = [x \in Blocks |-> IF x \in left THEN PassedOver(x) ELSE IF x = b THEN f ELSE meta[x]]
    BY DEF Passed
  <1>3. /\ reuse_list[h] \in Seq(Blocks) /\ IsInjective(reuse_list[h])
        /\ IsFiniteSet(left) /\ left \subseteq Blocks /\ b \notin left
        /\ \A x \in left : meta[x] \in MetaType /\ meta[x].heap = h /\ meta[x].size \in Nat
        /\ reuse_size[h] \in Int /\ reuse_bytes \in Int /\ MaxReuse \in Nat
    BY <1>1, RetiredSizes DEF Retired
  <1>4. Range(s) = left \ gone
    BY <1>3, WithoutFacts
  <1>5. \A x \in left : x \in gone <=> PassedOver(x) = None
    OBVIOUS
  <1>6. \A x \in left : x \notin gone => PassedOver(x).size = meta[x].size
    BY <1>3, PassedOverIs
  <1>7. IsFiniteSet(P) /\ P \subseteq Blocks /\ left \subseteq P /\ \A x \in P : meta[x].size \in Nat
    BY <1>1, PoolFacts
  <1>8. b \in P
    BY <1>1 DEF Pool
  <1>9. gone \subseteq left
    OBVIOUS
  <1>10. reuse_list \in [Heaps -> Seq(Blocks)] /\ reuse_size \in [Heaps -> Int]
         /\ Lists(meta, block_lists, reuse_list)
    BY Zenon DEF HeapInv, Lists
  <1> HIDE DEF h, b, left, gone, f, k, s
  <1>11. /\ reuse_list'[h] = s /\ \A g \in Heaps : g # h => reuse_list'[g] = reuse_list[g]
         /\ reuse_size'[h] = reuse_size[h] - SumOver(meta, gone)
         /\ \A g \in Heaps : g # h => reuse_size'[g] = reuse_size[g]
    BY <1>1, <1>2, <1>10
  <1>12. \A x \in Blocks : x # b /\ x \notin gone => k[x].size = meta[x].size
    BY <1>2, <1>6
  <1>13. \A g \in Heaps : g # h => \A x \in Range(reuse_list[g]) : x \in Blocks /\ x \notin left /\ x # b
    <2>1. ASSUME NEW g \in Heaps, g # h, NEW x \in Range(reuse_list[g]) PROVE x \in Blocks /\ x \notin left /\ x # b
      <3>1. x \in Blocks /\ meta[x].heap = g /\ Retired(reuse_list, x)
        BY <1>10, ListFacts
      <3> QED BY <1>1, <1>3, <2>1, <3>1
    <2> QED BY <2>1
  <1>14. Pool(reuse_list', op') = Q
    <2>1. ASSUME NEW x \in Blocks
          PROVE  x \in Pool(reuse_list', op') <=> x \in P /\ x # b /\ x \notin gone
      <3>1. x \in Pool(reuse_list', op')
              <=> \/ x \in Range(s)
                  \/ \E g \in Heaps : g # h /\ x \in Range(reuse_list[g])
                  \/ \E u \in Threads : u # t /\ op[u].pc = "reuse" /\ op[u].at = x
        BY <1>1, <1>11, Zenon DEF Pool, Retired, Others
      <3>2. x \in P
              <=> \/ x \in left
                  \/ \E g \in Heaps : g # h /\ x \in Range(reuse_list[g])
                  \/ \E u \in Threads : u # t /\ op[u].pc = "reuse" /\ op[u].at = x
                  \/ x = b
        BY <1>1, Zenon DEF Pool, Retired, left, b
      <3>3. (\E g \in Heaps : g # h /\ x \in Range(reuse_list[g])) => x \notin left /\ x # b
        BY <1>13, Zenon
      <3>4. (\E u \in Threads : u # t /\ op[u].pc = "reuse" /\ op[u].at = x) => x \notin left /\ x # b
        <4>1. ASSUME NEW u \in Threads, u # t, op[u].pc = "reuse" PROVE op[u].at \notin left
          <5>1. ~Retired(reuse_list, op[u].at)
            BY <4>1, ReuseIs, Zenon
          <5> QED BY <1>1, <5>1, Zenon DEF Retired, left
        <4> QED BY <1>1, <4>1, Zenon
      <3>5. x \in Range(s) <=> x \in left /\ x \notin gone
        BY <1>4
      <3>6. (x \in left => x # b) /\ (x \in gone => x \in left)
        BY <1>3, <1>9
      <3> HIDE DEF P
      <3> QED BY <3>1, <3>2, <3>3, <3>4, <3>5, <3>6, Zenon
    <2>2. Pool(reuse_list', op') \subseteq Blocks
      BY DEF Pool
    <2> HIDE DEF P
    <2> QED BY <1>7, <2>1, <2>2
  <1>15. /\ reuse_size[h] = SumOver(meta, left)
         /\ SumOver(meta, P) <= reuse_bytes /\ reuse_bytes <= MaxReuse
    BY <1>1, Zenon DEF HeapSums, Sums, left
  <1>16. SumOver(meta, P) = SumOver(k, Q) + SumOver(meta, P \ Q)
    <2>1. Q \in SUBSET P /\ \A x \in Q : k[x].size = meta[x].size
      BY <1>7, <1>12
    <2> HIDE DEF Q
    <2> QED BY <2>1, PoolShrinks
  <1> HIDE DEF P
  <1>17. SumOver(meta, left) = SumOver(k, left \ gone) + SumOver(meta, gone)
         /\ SumOver(k, left \ gone) \in Nat /\ SumOver(meta, gone) \in Nat
    <2> DEFINE r == left \ gone
    <2>1. r \in SUBSET left /\ (\A x \in r : k[x].size = meta[x].size) /\ left \ r = gone
      BY <1>3, <1>9, <1>12
    <2> HIDE DEF r
    <2>2. /\ SumOver(meta, left) = SumOver(k, r) + SumOver(meta, left \ r)
          /\ SumOver(k, r) \in Nat /\ SumOver(meta, left \ r) \in Nat
      BY <1>3, <2>1, SumSmaller
    <2> QED BY <2>1, <2>2 DEF r
  <1>18. SumOver(meta, P \ Q) = meta[b].size + SumOver(meta, gone)
    <2> DEFINE r == {b} \cup gone
    <2>1. P \ Q = r /\ r \subseteq P /\ r \ {b} = gone
      BY <1>3, <1>7, <1>8, <1>9
    <2>2. IsFiniteSet(r) /\ b \in r /\ \A x \in r : meta[x].size \in Nat
      BY <1>7, <2>1, FS_Subset
    <2> HIDE DEF r, Q
    <2>3. SumOver(meta, r) = meta[b].size + SumOver(meta, r \ {b})
      BY <2>2, SumLess
    <2> QED BY <2>1, <2>3
  <1>19. reuse_size'[h] = SumOver(k, Range(reuse_list'[h]))
    <2> DEFINE a == SumOver(meta, left)  g == SumOver(meta, gone)  r == SumOver(k, left \ gone)
    <2>1. a = r + g /\ r \in Nat /\ g \in Nat /\ reuse_size'[h] = reuse_size[h] - g /\ reuse_size[h] = a
      BY <1>11, <1>15, <1>17
    <2>2. SumOver(k, Range(reuse_list'[h])) = r
      BY <1>4, <1>11
    <2> HIDE DEF a, g, r
    <2> QED BY <2>1, <2>2
  <1>20. ASSUME NEW g \in Heaps, g # h PROVE reuse_size'[g] = SumOver(k, Range(reuse_list'[g]))
    <2>1. \A x \in Range(reuse_list[g]) : meta'[x].size = meta[x].size
      BY <1>9, <1>12, <1>13, <1>20 DEF k
    <2> QED BY <1>11, <1>20, <2>1, OtherSums DEF k
  <1>21. \A g \in Heaps : reuse_size'[g] = SumOver(k, Range(reuse_list'[g]))
    BY <1>19, <1>20
  <1>22. SumOver(k, Q) <= reuse_bytes' /\ reuse_bytes' <= MaxReuse
    <2>1. meta[b].size \in Nat
      BY <1>1 DEF MetaType
    <2> DEFINE q == SumOver(k, Q)  g == SumOver(meta, gone)  z == meta[b].size  p == SumOver(meta, P)
    <2>2. p = q + (z + g) /\ p <= reuse_bytes /\ reuse_bytes <= MaxReuse
      BY <1>15, <1>16, <1>18
    <2>3. q \in Nat
      <3>1. IsFiniteSet(Q) /\ \A x \in Q : k[x].size \in Nat
        <4>1. IsFiniteSet(Q) /\ \A x \in Q : x \in Blocks /\ x # b /\ x \notin gone /\ meta[x].size \in Nat
          BY <1>7, FS_Subset
        <4> HIDE DEF Q
        <4> QED BY <1>12, <4>1
      <3> HIDE DEF Q
      <3> QED BY <3>1, SumType
    <2>4. g \in Nat /\ z \in Nat /\ reuse_bytes' = reuse_bytes - z - g
      BY <1>2, <1>17, <2>1
    <2> HIDE DEF q, g, z, p
    <2>5. q <= reuse_bytes' /\ reuse_bytes' <= MaxReuse
      BY <1>3, <2>2, <2>3, <2>4
    <2> QED BY <2>5 DEF q
  <1> QED BY <1>14, <1>21, <1>22, Zenon DEF HeapSums, Sums, k

\* Making a block retires none.
LEMMA MakeSums ==
  ASSUME HeapInv, HeapSums, NEW t \in Threads, MakeBlock(t)
  PROVE  HeapSums'
  <1>1. /\ op[t].pc = "get"
        /\ reuse_list' = reuse_list /\ reuse_size' = reuse_size /\ reuse_bytes' = reuse_bytes
    BY DEF MakeBlock, reuse
  <1>2. PICK b \in Blocks \ Mapped :
          /\ AddBlock(t, b)
          /\ \E v : meta' = Set(meta, b, v)
    BY DEF MakeBlock
  <1>3. b \in Blocks /\ meta[b] = None
    BY <1>2 DEF Mapped
  <1>4. op \in [Threads -> OpType]
    BY OpOf
  <1>5. SameReusers(op, op')
    <2>1. (\A u \in Threads : u # t => op'[u] = op[u]) /\ op'[t].pc # "reuse"
      <3>1. op[t] \in CallType
        BY <1>1, OpOf DEF CallLabels
      <3>2. CASE op[t].class = Big
        <4> DEFINE v == BigStart(op[t].al)
        <4>1. op' = [op EXCEPT ![t].pc = "done", ![t].at = b, ![t].mem = v]
          BY <1>2, <3>2 DEF AddBlock
        <4> HIDE DEF v
        <4> QED BY <1>4, <3>1, <4>1 DEF CallType
      <3>3. CASE op[t].class # Big
        <4>1. op' = [op EXCEPT ![t].pc = "walk", ![t].at = b]
          BY <1>2, <3>3 DEF AddBlock
        <4> QED BY <1>4, <3>1, <4>1 DEF CallType
      <3> QED BY <3>2, <3>3
    <2> QED BY <1>1, <2>1 DEF SameReusers
  <1>6. Pool(reuse_list', op') = Pool(reuse_list, op)
    BY <1>1, <1>5, SamePool
  <1> DEFINE P == Pool(reuse_list, op)
  <1>7. IsFiniteSet(P) /\ P \subseteq Blocks /\ b \notin P
        /\ \A g \in Heaps : Range(reuse_list[g]) \subseteq P
    BY <1>3, PoolFacts
  <1>8. \A x \in P : meta'[x].size = meta[x].size
    <2>1. meta \in [Blocks -> MetaType \cup {None}]
      BY Zenon DEF HeapInv, Lists
    <2>2. PICK v : meta' = Set(meta, b, v)
      BY <1>2
    <2> HIDE DEF P
    <2>3. \A x \in Blocks : x # b => meta'[x] = meta[x]
      BY <1>3, <2>1, <2>2 DEF Set
    <2> QED BY <1>7, <2>3
  <1> HIDE DEF P
  <1>9. SumOver(meta', P) = SumOver(meta, P)
    <2> DEFINE k == meta'
    <2> HIDE DEF k
    <2>1. \A x \in P : meta[x].size = k[x].size
      BY <1>8 DEF k
    <2>2. SumOver(meta, P) = SumOver(k, P)
      BY <1>7, <2>1, SumSame
    <2> QED BY <2>2 DEF k
  <1>10. ASSUME NEW g \in Heaps PROVE reuse_size'[g] = SumOver(meta', Range(reuse_list'[g]))
    <2>1. \A x \in Range(reuse_list[g]) : meta'[x].size = meta[x].size
      BY <1>7, <1>8
    <2> QED BY <1>1, <2>1, OtherSums
  <1>11. SumOver(meta, P) <= reuse_bytes /\ reuse_bytes <= MaxReuse
    BY Zenon DEF HeapSums, Sums, P
  <1>12. SumOver(meta', Pool(reuse_list', op')) <= reuse_bytes' /\ reuse_bytes' <= MaxReuse
    BY <1>1, <1>6, <1>9, <1>11 DEF P
  <1> QED BY <1>10, <1>12, Zenon DEF HeapSums, Sums

\* Destroying a heap drops its retired blocks and leaves the total, which is
\* then above what is retired.
LEMMA DestroySums ==
  ASSUME HeapInv, HeapSums, NEW h \in Heaps, DestroyHeap(h)
  PROVE  HeapSums'
  <1> DEFINE B == BlocksOf(h)  z == <<>>  P == Pool(reuse_list, op)  Q == Pool(reuse_list', op')
             k == meta'
  <1>1. /\ k = [b \in Blocks |-> IF b \in B THEN None ELSE meta[b]]
        /\ reuse_list' = Set(reuse_list, h, z) /\ reuse_size' = Set(reuse_size, h, 0)
        /\ reuse_bytes' = reuse_bytes /\ op' = op
    BY DEF DestroyHeap
  <1>2. \A t \in Threads : op[t].pc # "idle" => op[t].heap # h
    BY DEF DestroyHeap, InUse, Calls
  <1>3. \A b \in B : b \in Blocks /\ meta[b].heap = h
    BY DEF BlocksOf, Mapped
  <1>4. reuse_list \in [Heaps -> Seq(Blocks)] /\ reuse_size \in [Heaps -> Int] /\ reuse_bytes \in Int
    BY Zenon DEF HeapInv, Lists
  <1>5. Range(z) = {}
    BY EmptySeqFacts
  <1> HIDE DEF B, z, P, Q, k
  <1>6. /\ reuse_list'[h] = z /\ reuse_size'[h] = 0
        /\ \A g \in Heaps : g # h => reuse_list'[g] = reuse_list[g] /\ reuse_size'[g] = reuse_size[g]
    BY <1>1, <1>4 DEF Set
  <1>7. \A g \in Heaps : g # h => \A x \in Range(reuse_list[g]) : x \in Blocks /\ x \notin B
    <2>1. ASSUME NEW g \in Heaps, g # h, NEW x \in Range(reuse_list[g]) PROVE x \in Blocks /\ x \notin B
      BY <1>3, <2>1, RetiredSizes
    <2> QED BY <2>1
  <1>8. \A x \in Blocks : x \notin B => k[x].size = meta[x].size
    BY <1>1
  <1>9. Q \in SUBSET P /\ \A x \in Q : k[x].size = meta[x].size
    <2>1. ASSUME NEW x \in Q PROVE x \in P /\ x \in Blocks /\ x \notin B
      <3>1. x \in Blocks /\ (Retired(reuse_list', x) \/ \E u \in Threads : op[u].pc = "reuse" /\ op[u].at = x)
        BY <1>1 DEF Q, Pool
      <3>2. CASE Retired(reuse_list', x)
        <4>1. PICK g \in Heaps : x \in Range(reuse_list'[g])
          BY <3>2 DEF Retired
        <4>2. g # h
          BY <1>5, <1>6, <4>1
        <4> QED BY <1>6, <1>7, <4>1, <4>2 DEF P, Pool, Retired
      <3>3. CASE \E u \in Threads : op[u].pc = "reuse" /\ op[u].at = x
        <4>1. PICK u \in Threads : op[u].pc = "reuse" /\ op[u].at = x
          BY <3>3
        <4>2. meta[x].heap # h
          BY <1>2, <4>1, ReuseIs
        <4> QED BY <1>3, <3>1, <4>1, <4>2 DEF P, Pool
      <3> QED BY <3>1, <3>2, <3>3
    <2> QED BY <1>8, <2>1
  <1>10. /\ SumOver(meta, P) = SumOver(k, Q) + SumOver(meta, P \ Q)
         /\ SumOver(k, Q) \in Nat /\ SumOver(meta, P \ Q) \in Nat
    BY <1>9, PoolShrinks DEF P
  <1>11. SumOver(meta, P) <= reuse_bytes /\ reuse_bytes <= MaxReuse
    BY Zenon DEF HeapSums, Sums, P
  <1>12. SumOver(k, Q) <= reuse_bytes' /\ reuse_bytes' <= MaxReuse
    BY <1>1, <1>4, <1>10, <1>11
  <1>13. ASSUME NEW g \in Heaps PROVE reuse_size'[g] = SumOver(k, Range(reuse_list'[g]))
    <2>1. CASE g = h
      BY <1>5, <1>6, <2>1, SumEmpty
    <2>2. CASE g # h
      <3>1. \A x \in Range(reuse_list[g]) : meta'[x].size = meta[x].size
        BY <1>7, <1>8, <2>2 DEF k
      <3> QED BY <1>6, <2>2, <3>1, OtherSums DEF k
    <2> QED BY <2>1, <2>2
  <1> QED BY <1>12, <1>13, Zenon DEF HeapSums, Sums, k, Q

\* One call goes on, and neither takes from a reuse list nor has just done so.
LEMMA OneQuiet ==
  ASSUME HeapSums, UNCHANGED <<meta, reuse>>, NEW t \in Threads, Others(op, op', t),
         op[t].pc # "reuse", op'[t].pc # "reuse"
  PROVE  HeapSums'
  <1>1. SameReusers(op, op')
    BY Zenon DEF SameReusers, Others
  <1>2. UNCHANGED <<meta, reuse_list, reuse_size, reuse_bytes>>
    BY DEF reuse
  <1> QED BY <1>1, <1>2, SumsQuiet

\* A free that goes on prepares no block.
LEMMA AfterFreeGoes ==
  ASSUME HeapInv, NEW t \in Threads, op[t].pc \in FreeLabels, AfterFree(t)
  PROVE  Others(op, op', t) /\ op'[t].pc \in {"idle", "count"}
  <1>1. op \in [Threads -> OpType] /\ op[t] \in FreeType
    BY OpOf
  <1> QED BY <1>1 DEF AfterFree, Others, Set, FreeType, Idle

\* The steps that get no memory and leave the lists for reuse alone: a call
\* begins, ...
LEMMA MallocGoes ==
  ASSUME HeapInv, NEW t \in Threads, Malloc(t) \/ Realloc(t) \/ Free(t)
  PROVE  Others(op, op', t) /\ op[t].pc = "idle" /\ op'[t].pc \notin {"reuse", "done"}
  <1>1. op \in [Threads -> OpType] /\ op[t].pc = "idle"
    BY OpOf DEF Malloc, Realloc, Free
  <1>2. CASE Malloc(t) \/ Realloc(t)
    <2>1. op' = op \/ \E n, al, zero, old : Begin(t, n, al, zero, old)
      BY <1>2 DEF Malloc, Realloc
    <2>2. ASSUME NEW n, NEW al, NEW zero, NEW old, Begin(t, n, al, zero, old)
          PROVE  Others(op, op', t) /\ op'[t].pc \in {"get", "lock"}
      <3>1. PICK h \in Heaps :
              LET big == NeedsBig(n, zero, BigZero)
              IN  op' = Set(op, t, [pc |-> IF big THEN "get" ELSE "lock", heap |-> h,
                                    class |-> IF big THEN Big ELSE ClassOf(n), n |-> n, al |-> al,
                                    zero |-> zero, at |-> None, mem |-> 0, old |-> old])
        BY <2>2 DEF Begin
      <3> DEFINE big == NeedsBig(n, zero, BigZero)  p == IF big THEN "get" ELSE "lock"
                 x == [pc |-> p, heap |-> h,
                       class |-> IF big THEN Big ELSE ClassOf(n), n |-> n, al |-> al,
                       zero |-> zero, at |-> None, mem |-> 0, old |-> old]
      <3>2. op' = Set(op, t, x) /\ x.pc \in {"get", "lock"}
        BY <3>1
      <3> HIDE DEF x
      <3> QED BY <1>1, <3>2 DEF Set, Others
    <2>3. CASE op' = op
      BY <1>1, <2>3 DEF Others
    <2> QED BY <1>1, <2>1, <2>2, <2>3
  <1>3. CASE Free(t)
    <2>1. PICK o \in live : op' = Set(op, t, FreeOf(o))
      BY <1>3 DEF Free
    <2> DEFINE x == FreeOf(o)
    <2>2. op' = Set(op, t, x) /\ x.pc = "free"
      BY <2>1 DEF FreeOf
    <2> HIDE DEF x
    <2> QED BY <1>1, <2>2 DEF Set, Others
  <1> QED BY <1>2, <1>3

\* ... it walks, ...
LEMMA WalkGoes ==
  ASSUME HeapInv, NEW t \in Threads,
         LockList(t) \/ NoChunk(t) \/ MarkFull(t) \/ NextBlock(t) \/ ListEnds(t) \/ GcEnds(t)
  PROVE  Others(op, op', t) /\ op[t].pc # "reuse" /\ op'[t].pc \notin {"reuse", "done"}
  <1>1. op[t].pc \in {"lock", "walk", "full", "bump", "gc"}
    BY DEF LockList, NoChunk, MarkFull, NextBlock, ListEnds, GcEnds, AtBump, At
  <1>2. op[t].pc # "reuse" /\ op \in [Threads -> OpType] /\ op[t] \in CallType
    BY <1>1, OpOf DEF CallLabels
  <1>3. CASE LockList(t) \/ NextBlock(t)
    <2>1. PICK u : op' = [op EXCEPT ![t].pc = "walk", ![t].at = u]
      BY <1>3 DEF LockList, NextBlock
    <2> QED BY <1>2, <2>1 DEF Others, CallType, FreeType
  <1>4. CASE NoChunk(t) \/ MarkFull(t) \/ GcEnds(t)
    <2>1. PICK p \in {"full", "bump", "get"} : op' = [op EXCEPT ![t].pc = p]
      BY <1>4 DEF NoChunk, MarkFull, GcEnds, Goto
    <2> QED BY <1>2, <2>1 DEF Others, CallType, FreeType
  <1>5. CASE ListEnds(t)
    <2>1. \/ \E u : op' = [op EXCEPT ![t].pc = "gc", ![t].at = u]
          \/ op' = [op EXCEPT ![t].pc = "get"]
      BY <1>5 DEF ListEnds
    <2>2. ASSUME NEW u, op' = [op EXCEPT ![t].pc = "gc", ![t].at = u]
          PROVE  Others(op, op', t) /\ op'[t].pc = "gc"
      BY <1>2, <2>2 DEF Others, CallType
    <2>3. CASE op' = [op EXCEPT ![t].pc = "get"]
      BY <1>2, <2>3 DEF Others, CallType, FreeType
    <2> QED BY <1>2, <2>1, <2>2, <2>3
  <1> QED BY <1>3, <1>4, <1>5

\* ... returns, frees or sweeps.
LEMMA BackGoes ==
  ASSUME HeapInv, NEW t \in Threads,
         \/ Return(t) \/ FreeBump(t) \/ FreeSlot(t) \/ FreeChunk(t) \/ ClearFull(t)
         \/ Count(t) \/ SweepLock(t) \/ SweepNext(t)
  PROVE  Others(op, op', t) /\ op[t].pc # "reuse" /\ op'[t].pc \notin {"reuse", "done"}
  <1>1. op[t].pc \in {"done", "free", "unfull", "count", "sweeplock", "sweep"}
    BY DEF Return, FreeBump, FreeSlot, FreeChunk, ClearFull, Count, SweepLock, SweepNext, Freeing
  <1>2. /\ op[t].pc # "reuse" /\ op \in [Threads -> OpType]
        /\ op[t] \in CallType \/ op[t] \in FreeType
    BY <1>1, OpOf DEF CallLabels, FreeLabels
  <1>3. CASE Return(t)
    <2> DEFINE x == IF op[t].old = {} THEN Idle ELSE FreeOf(CHOOSE o \in op[t].old : TRUE)
    <2>1. op' = [op EXCEPT ![t] = x]
      BY <1>3 DEF Return, Set
    <2>2. x.pc \in {"idle", "free"}
      BY DEF Idle, FreeOf
    <2>3. op \in [Threads -> OpType]
      BY OpOf
    <2> HIDE DEF x
    <2>4. Others(op, op', t) /\ op'[t] = x
      BY <2>1, <2>3 DEF Others
    <2> QED BY <1>2, <2>2, <2>4
  <1>4. CASE FreeBump(t) \/ FreeSlot(t) \/ ClearFull(t)
    <2>1. AfterFree(t) /\ op[t].pc \in FreeLabels
      BY <1>4 DEF FreeBump, FreeSlot, ClearFull, Freeing, FreeLabels
    <2> QED BY <1>2, <2>1, AfterFreeGoes
  <1>5. CASE FreeChunk(t)
    <2>1. op' = [op EXCEPT ![t].pc = "unfull"]
      BY <1>5 DEF FreeChunk, Goto
    <2> QED BY <1>2, <2>1 DEF Others, CallType, FreeType
  <1>6. CASE Count(t) \/ SweepNext(t)
    <2>1. \/ \E u : op' = [op EXCEPT ![t].pc = "sweeplock", ![t].class = u]
          \/ op' = [op EXCEPT ![t] = Idle]
      BY <1>6 DEF Count, SweepNext, Set
    <2>2. ASSUME NEW u, op' = [op EXCEPT ![t].pc = "sweeplock", ![t].class = u]
          PROVE  Others(op, op', t) /\ op'[t].pc = "sweeplock"
      BY <1>2, <2>2 DEF Others, CallType, FreeType
    <2>3. CASE op' = [op EXCEPT ![t] = Idle]
      <3>1. Idle.pc = "idle"
        BY DEF Idle
      <3> QED BY <1>2, <2>3, <3>1 DEF Others
    <2> QED BY <1>2, <2>1, <2>2, <2>3
  <1>7. CASE SweepLock(t)
    <2>1. PICK u : op' = [op EXCEPT ![t].pc = "sweep", ![t].at = u]
      BY <1>7 DEF SweepLock
    <2> QED BY <1>2, <2>1 DEF Others, CallType, FreeType
  <1> QED BY <1>3, <1>4, <1>5, <1>6, <1>7

\* A call takes memory in the block it is at.
LEMMA GotGoes ==
  ASSUME HeapInv, NEW t \in Threads, op[t].pc \in CallLabels, NEW u, Got(t, u)
  PROVE  /\ Others(op, op', t) /\ op'[t].pc = "done" /\ op'[t].mem = u
         /\ op'[t].at = op[t].at /\ op'[t].n = op[t].n
  <1>1. op \in [Threads -> OpType] /\ op[t] \in CallType
    BY OpOf
  <1> QED BY <1>1 DEF Got, Others, CallType

\* Malloc, free, realloc and the walks over the lists leave the sums alone,
\* ...
LEMMA WalkSums ==
  ASSUME HeapInv, HeapSums, NEW t \in Threads,
         \/ Malloc(t) \/ Realloc(t) \/ Free(t)
         \/ LockList(t) \/ NoChunk(t) \/ MarkFull(t) \/ NextBlock(t) \/ ListEnds(t) \/ GcEnds(t)
  PROVE  HeapSums'
  <1>1. UNCHANGED <<meta, reuse>>
    BY DEF Malloc, Realloc, Free, LockList, NoChunk, MarkFull, NextBlock, ListEnds, GcEnds,
       OutsideBlocks, inside
  <1> QED BY <1>1, MallocGoes, WalkGoes, OneQuiet

\* ... and so do the steps that take memory, ...
LEMMA AllocSums ==
  ASSUME HeapInv, HeapSums, NEW t \in Threads, AllocSlot(t) \/ AllocChunk(t) \/ AllocBump(t)
  PROVE  HeapSums'
  <1>1. UNCHANGED <<meta, reuse>>
    BY DEF AllocSlot, AllocChunk, AllocBump, OutsideBlocks
  <1>2. op[t].pc \in CallLabels /\ op[t].pc # "reuse" /\ \E u : Got(t, u)
    BY DEF AllocSlot, AllocChunk, AllocBump, AtBump, At, CallLabels
  <1> QED BY <1>1, <1>2, GotGoes, OneQuiet

\* ... returns, and frees.
LEMMA BackSums ==
  ASSUME HeapInv, HeapSums, NEW t \in Threads,
         \/ Return(t) \/ FreeBump(t) \/ FreeSlot(t) \/ FreeChunk(t) \/ ClearFull(t)
         \/ Count(t) \/ SweepLock(t) \/ SweepNext(t)
  PROVE  HeapSums'
  <1>1. UNCHANGED <<meta, reuse>>
    BY DEF Return, FreeBump, FreeSlot, FreeChunk, ClearFull, Count, SweepLock, SweepNext,
       OutsideBlocks, inside
  <1> QED BY <1>1, BackGoes, OneQuiet

\* A big block that is freed is retired with its size.
LEMMA FreeBigSums ==
  ASSUME HeapInv, HeapSums, NEW t \in Threads, FreeBig(t)
  PROVE  HeapSums'
  <1> DEFINE h == op[t].heap  b == op[t].at
  <1>1. op[t].pc = "free" /\ op[t].class = Big /\ RemoveBlock(h, b) /\ op' = Set(op, t, Idle)
    BY DEF FreeBig
  <1>2. Holder(op[t]) /\ op[t].pc \in FreeLabels
    BY <1>1 DEF Holder, FreeLabels
  <1>3. b \in Blocks /\ op[t].mem \in Addrs(live, op, b)
    BY <1>1, FreeCounts, Zenon
  <1>4. Used(meta, block_lists, reuse_list, b) /\ meta[b].heap = h /\ h \in Heaps
    BY <1>2, WalkClass, Zenon DEF HeapInv, AllPlaced, Placed
  <1>5. meta[b] \in MetaType
    BY <1>3, <1>4, UsedIs
  <1>6. ~Retired(reuse_list, b)
    BY <1>4, Zenon DEF Used
  <1>7. b \notin Pool(reuse_list, op)
    <2>1. \A u \in Threads : op[u].pc = "reuse" => op[u].at # b
      BY <1>3, ReuseIs
    <2> QED BY <1>6, <2>1, Zenon DEF Pool
  <1>8. Others(op, op', t) /\ op'[t] = Idle /\ Idle.pc = "idle"
    BY <1>1, OpOf DEF Set, Others, Idle
  <1>9. SameReusers(op, op')
    BY <1>1, <1>8 DEF SameReusers, Others
  <1> HIDE DEF h, b
  <1>10. PICK kept, delta : Removed(h, b, kept, delta)
    BY <1>1, <1>3, <1>4, <1>5, <1>6, RemoveIs
  <1> QED BY <1>3, <1>4, <1>5, <1>6, <1>7, <1>9, <1>10, RemovedSums

\* An empty block that is collected is retired with its size.
LEMMA GcBlockSums ==
  ASSUME HeapInv, HeapSums, NEW t \in Threads, GcBlock(t)
  PROVE  HeapSums'
  <1> DEFINE h == op[t].heap  c == op[t].class  b == op[t].at  d == Following(block_lists[h][c], b)
  <1>1. op[t].pc \in {"gc", "sweep"} /\ op[t].pc \in WalkLabels /\ b # None
    BY DEF GcBlock, At, WalkLabels
  <1>2. /\ h \in Heaps /\ b \in Range(block_lists[h][c]) /\ b \in Blocks /\ c \in Classes
        /\ meta[b] \in MetaType /\ meta[b].heap = h
        /\ ~Retired(reuse_list, b)
    BY <1>1, AtBlock, Zenon
  <1>3. Others(op, op', t) /\ op'[t].pc = op[t].pc
    <2>1. op' = [op EXCEPT ![t].at = d]
      BY DEF GcBlock
    <2>2. op \in [Threads -> OpType] /\ (op[t] \in CallType \/ op[t] \in FreeType)
      BY <1>1, OpOf DEF CallLabels, FreeLabels
    <2> HIDE DEF d
    <2> QED BY <2>1, <2>2 DEF Others, CallType, FreeType
  <1>4. SameReusers(op, op')
    BY <1>1, <1>3 DEF SameReusers, Others
  <1>5. CASE Empty(b)
    <2>1. RemoveBlock(h, b)
      BY <1>5 DEF GcBlock
    <2>2. b \notin Pool(reuse_list, op)
      <3>1. Listed(block_lists, b)
        BY <1>2, Zenon DEF Listed
      <3>2. \A u \in Threads : op[u].pc = "reuse" => op[u].at # b
        BY <3>1, ReuseIs
      <3> QED BY <1>2, <3>2, Zenon DEF Pool
    <2> HIDE DEF h, b, c
    <2>3. PICK kept, delta : Removed(h, b, kept, delta)
      BY <1>2, <2>1, RemoveIs
    <2> QED BY <1>2, <1>4, <2>2, <2>3, RemovedSums
  <1>6. CASE ~Empty(b)
    <2>1. UNCHANGED <<meta, reuse_list, reuse_size, reuse_bytes>>
      BY <1>6 DEF GcBlock, reuse
    <2> QED BY <1>4, <2>1, SumsQuiet
  <1> QED BY <1>5, <1>6

\* A retired block that is put to use takes its size off the total.
LEMMA ReuseBlockSums ==
  ASSUME HeapInv, HeapSums, NEW t \in Threads, ReuseBlock(t)
  PROVE  HeapSums'
  <1>1. op[t].pc = "reuse" /\ AddBlock(t, op[t].at)
    BY DEF ReuseBlock
  <1>2. Passed(t)
    BY SizeSumIs DEF ReuseBlock, Passed
  <1>3. op \in [Threads -> OpType] /\ op[t] \in CallType
    BY <1>1, ReuseIs, OpOf
  <1>4. Others(op, op', t) /\ op'[t].pc # "reuse"
    <2> DEFINE b == op[t].at
    <2>1. CASE op[t].class = Big
      <3> DEFINE v == BigStart(op[t].al)
      <3>1. op' = [op EXCEPT ![t].pc = "done", ![t].at = b, ![t].mem = v]
        BY <1>1, <2>1 DEF AddBlock
      <3> HIDE DEF v, b
      <3> QED BY <1>3, <3>1 DEF CallType, Others
    <2>2. CASE op[t].class # Big
      <3>1. op' = [op EXCEPT ![t].pc = "walk", ![t].at = b]
        BY <1>1, <2>2 DEF AddBlock
      <3> HIDE DEF b
      <3> QED BY <1>3, <3>1 DEF CallType, Others
    <2> QED BY <2>1, <2>2
  <1> QED BY <1>1, <1>2, <1>4, PassedSums

\* Nothing is retired at first.
LEMMA InitSums == Init => HeapSums
  <1> SUFFICES ASSUME Init PROVE HeapSums
    OBVIOUS
  <1> DEFINE z == <<>>
  <1>1. /\ \A h \in Heaps : reuse_list[h] = z /\ reuse_size[h] = 0
        /\ reuse_bytes = 0 /\ \A t \in Threads : op[t].pc = "idle"
    BY DEF Init, Idle
  <1>2. Range(z) = {}
    BY EmptySeqFacts
  <1> HIDE DEF z
  <1>3. \A h \in Heaps : Range(reuse_list[h]) = {}
    BY <1>1, <1>2
  <1>4. Pool(reuse_list, op) = {}
    BY <1>1, <1>3 DEF Pool, Retired
  <1>5. SumOver(meta, {}) = 0
    BY SumEmpty
  <1>6. MaxReuse \in Nat
    BY MallocAssumption
  <1> QED BY <1>1, <1>3, <1>4, <1>5, <1>6 DEF HeapSums, Sums

\* Every step keeps the sums.
LEMMA StepSums == HeapInv /\ HeapSums /\ [Next]_vars => HeapSums'
  <1> SUFFICES ASSUME HeapInv, HeapSums, [Next]_vars PROVE HeapSums'
    OBVIOUS
  <1>1. ASSUME NEW t \in Threads,
               \/ Malloc(t) \/ Realloc(t) \/ Free(t)
               \/ LockList(t) \/ NoChunk(t) \/ MarkFull(t) \/ NextBlock(t) \/ ListEnds(t) \/ GcEnds(t)
        PROVE  HeapSums'
    BY <1>1, WalkSums
  <1>2. ASSUME NEW t \in Threads, AllocSlot(t) \/ AllocChunk(t) \/ AllocBump(t) PROVE HeapSums'
    BY <1>2, AllocSums
  <1>3. ASSUME NEW t \in Threads, GcBlock(t) PROVE HeapSums'
    BY <1>3, GcBlockSums
  <1>4. ASSUME NEW t \in Threads, UnlinkReuse(t) PROVE HeapSums'
    BY <1>4, UnlinkSums
  <1>5. ASSUME NEW t \in Threads, ReuseBlock(t) PROVE HeapSums'
    BY <1>5, ReuseBlockSums
  <1>6. ASSUME NEW t \in Threads, MakeBlock(t) PROVE HeapSums'
    BY <1>6, MakeSums
  <1>7. ASSUME NEW t \in Threads,
               \/ Return(t) \/ FreeBump(t) \/ FreeSlot(t) \/ FreeChunk(t) \/ ClearFull(t)
               \/ Count(t) \/ SweepLock(t) \/ SweepNext(t)
        PROVE  HeapSums'
    BY <1>7, BackSums
  <1>8. ASSUME NEW t \in Threads, FreeBig(t) PROVE HeapSums'
    BY <1>8, FreeBigSums
  <1>9. ASSUME NEW h \in UserHeaps, DestroyHeap(h) PROVE HeapSums'
    <2>1. h \in Heaps
      BY MallocAssumption
    <2> QED BY <1>9, <2>1, DestroySums
  <1>10. CASE UNCHANGED vars
    <2>1. UNCHANGED <<meta, reuse_list, reuse_size, reuse_bytes, op>>
      BY <1>10 DEF vars, inside, reuse
    <2>2. SameReusers(op, op')
      BY <2>1 DEF SameReusers
    <2> QED BY <2>1, <2>2, SumsQuiet
  <1> QED
    BY <1>1, <1>2, <1>3, <1>4, <1>5, <1>6, <1>7, <1>8, <1>9, <1>10, Zenon DEF Next

\* The sums are what ReuseCounted says.
LEMMA SumsCount == HeapInv /\ HeapSums => ReuseCounted
  <1> SUFFICES ASSUME HeapInv, HeapSums PROVE ReuseCounted
    OBVIOUS
  <1>1. \A h \in Heaps : reuse_size[h] = SizeSum(Range(reuse_list[h]))
    <2>1. \A h \in Heaps : SizeSum(Range(reuse_list[h])) = SumOver(meta, Range(reuse_list[h]))
      BY SizeSumIs
    <2> QED BY <2>1, Zenon DEF HeapSums, Sums
  <1>2. Kept4Reuse \cup Unlinked = Pool(reuse_list, op)
    <2>1. ASSUME NEW x
          PROVE  x \in Kept4Reuse \cup Unlinked <=> x \in Pool(reuse_list, op)
      <3>1. x \in Kept4Reuse <=> Retired(reuse_list, x)
        BY Zenon DEF Kept4Reuse, Retired
      <3>2. x \in Unlinked <=> \E u \in Threads : op[u].pc = "reuse" /\ op[u].at = x
        BY DEF Unlinked, Calls
      <3>3. Retired(reuse_list, x) => x \in Blocks
        BY RetiredSizes DEF Retired
      <3>4. (\E u \in Threads : op[u].pc = "reuse" /\ op[u].at = x) => x \in Blocks
        BY ReuseIs
      <3> QED BY <3>1, <3>2, <3>3, <3>4 DEF Pool
    <2> QED BY <2>1
  <1>3. SizeSum(Kept4Reuse \cup Unlinked) = SumOver(meta, Pool(reuse_list, op))
    BY <1>2, SizeSumIs
  <1>4. SumOver(meta, Pool(reuse_list, op)) <= reuse_bytes /\ reuse_bytes <= MaxReuse
    BY Zenon DEF HeapSums, Sums
  <1> QED BY <1>1, <1>3, <1>4 DEF ReuseCounted

\* ReuseCounted, for every instance: the bytes a heap counts as retired are
\* those of its list, and the total is never below those of all lists and of
\* the blocks being prepared, nor above the maximum, whatever is kept or
\* dropped (bkmalloc.h:2883-2924, 3094-3231).
THEOREM ReuseIsCounted == Spec => []ReuseCounted
  BY HeapInvariant, InitSums, StepSums, SumsCount, PTL DEF Spec

---------------------------------------------------------------------------
(* The memory that objects cover                                           *)

\* Memory of block b from u for n units is an object's, or a call's that is
\* about to return it.
IsClaim(os, o, b, u, n) ==
  \/ \E p \in os : p.block = b /\ p.at = u /\ p.n = n
  \/ \E t \in Threads : o[t].pc = "done" /\ o[t].at = b /\ o[t].mem = u /\ o[t].n = n

\* It stays in its slot, in its chunk, or in what the bump space has given.
Fits(class, c, bp, u, n) ==
  /\ IsSlot(class, u) => n <= SizeOf(class)
  /\ IsChunk(class, u) => u + n < NextChunk(c, u)
  /\ IsBump(class, u) => u + n <= bp.at

BlockClaims(os, o, b, class, c, bp) ==
  /\ \A u, n \in Nat : IsClaim(os, o, b, u, n) => Fits(class, c, bp, u, n)
  /\ \A u, n, v, k \in Nat :
       IsClaim(os, o, b, u, n) /\ IsClaim(os, o, b, v, k) /\ IsBump(class, u) /\ u < v => u + n <= v

ClaimsFit ==
  \A b \in Blocks : meta[b] # None /\ meta[b].class # Big =>
    BlockClaims(live, op, b, meta[b].class, chunks[b], bump[b])

\* What a claim is.
LEMMA ClaimIs ==
  ASSUME HeapInv, NEW b, NEW u, NEW n, IsClaim(live, op, b, u, n)
  PROVE  /\ b \in Blocks /\ u \in Nat /\ n \in Nat \ {0} /\ u \in Addrs(live, op, b)
         /\ Used(meta, block_lists, reuse_list, b) /\ meta[b] # None /\ meta[b] \in MetaType
  <1>i. OldsOK(live, op) /\ AllPlaced(live, op, meta, block_lists, reuse_list)
    BY Zenon DEF HeapInv
  <1>1. CASE \E p \in live : p.block = b /\ p.at = u /\ p.n = n
    <2>1. PICK p \in live : p.block = b /\ p.at = u /\ p.n = n
      BY <1>1
    <2>2. p \in ObjectType
      BY <1>i, <2>1 DEF OldsOK
    <2>3. b \in Blocks /\ u \in Nat /\ n \in Nat \ {0}
      BY <2>1, <2>2 DEF ObjectType
    <2>4. Used(meta, block_lists, reuse_list, b)
      BY <1>i, <2>1, Zenon DEF AllPlaced
    <2>5. u \in Addrs(live, op, b)
      BY <2>1, InAddrs, Zenon
    <2> QED BY <2>3, <2>4, <2>5, UsedIs, Zenon
  <1>2. CASE \E t \in Threads : op[t].pc = "done" /\ op[t].at = b /\ op[t].mem = u /\ op[t].n = n
    <2>1. PICK t \in Threads : op[t].pc = "done" /\ op[t].at = b /\ op[t].mem = u /\ op[t].n = n
      BY <1>2
    <2>2. op[t].pc \in CallLabels /\ Holder(op[t])
      BY <2>1 DEF CallLabels, Holder
    <2>3. op[t] \in CallType /\ Shape(op[t])
      BY <2>2, OpOf
    <2>4. b \in Blocks
      BY <2>1, <2>2, <2>3 DEF Shape
    <2>5. u \in Nat /\ n \in Nat \ {0}
      BY <2>1, <2>3, MallocAssumption DEF CallType
    <2>6. Used(meta, block_lists, reuse_list, b)
      BY <1>i, <2>1, <2>2, Zenon DEF AllPlaced, Placed
    <2>7. u \in Addrs(live, op, b)
      BY <2>1, <2>2, InAddrs, Zenon
    <2> QED BY <2>4, <2>5, <2>6, <2>7, UsedIs, Zenon
  <1> QED BY <1>1, <1>2, Zenon DEF IsClaim

\* A step of one thread adds at most the memory it has just been given, ...
LEMMA ClaimsMore ==
  ASSUME NEW os, NEW o, NEW q, NEW t \in Threads, Others(o, q, t), NEW b, NEW u, NEW n,
         IsClaim(os, q, b, u, n)
  PROVE  \/ IsClaim(os, o, b, u, n)
         \/ q[t].pc = "done" /\ q[t].at = b /\ q[t].mem = u /\ q[t].n = n
  BY Zenon DEF IsClaim, Others

\* ... and none when it is given none.
LEMMA ClaimsLess ==
  ASSUME NEW os, NEW ns, ns \subseteq os, NEW o, NEW q, NEW t \in Threads, Others(o, q, t),
         q[t].pc # "done", NEW b, NEW u, NEW n, IsClaim(ns, q, b, u, n)
  PROVE  IsClaim(os, o, b, u, n)
  BY Zenon DEF IsClaim, Others

\* A header that is gone leaves the chunk before it larger.
LEMMA FewerChunks ==
  ASSUME NEW c, NEW d, DOMAIN c \subseteq 1 .. ChunkEnd - 1, DOMAIN d \subseteq DOMAIN c, NEW u \in Nat
  PROVE  NextChunk(c, u) <= NextChunk(d, u) /\ NextChunk(c, u) \in Nat /\ NextChunk(d, u) \in Nat
  <1> DEFINE C == {v \in DOMAIN c : v > u} \cup {ChunkEnd}
             D == {v \in DOMAIN d : v > u} \cup {ChunkEnd}
  <1>1. C \in SUBSET Nat /\ C # {} /\ D \in SUBSET Nat /\ D # {} /\ D \subseteq C
    BY Geometry
  <1>2. NextChunk(c, u) = Min(C) /\ NextChunk(d, u) = Min(D)
    BY DEF NextChunk
  <1> HIDE DEF C, D
  <1>3. Min(C) \in C /\ (\A y \in C : Min(C) <= y) /\ Min(D) \in D
    BY <1>1, MinIsLeast
  <1> QED BY <1>1, <1>2, <1>3

\* Claims of a block fit on when there are no others than before.
LEMMA BlockKept ==
  ASSUME NEW os, NEW o, NEW os2, NEW o2, NEW b, NEW class \in Classes,
         NEW c, NEW d, NEW bp, NEW bp2, BlockClaims(os, o, b, class, c, bp),
         DOMAIN c \subseteq 1 .. ChunkEnd - 1, DOMAIN d \subseteq DOMAIN c, bp2.at = bp.at,
         \A u, n \in Nat : IsClaim(os2, o2, b, u, n) => IsClaim(os, o, b, u, n)
  PROVE  BlockClaims(os2, o2, b, class, d, bp2)
  <1>1. ASSUME NEW u \in Nat, NEW n \in Nat, IsClaim(os2, o2, b, u, n)
        PROVE  Fits(class, d, bp2, u, n)
    <2>1. Fits(class, c, bp, u, n)
      BY <1>1, Zenon DEF BlockClaims
    <2>2. NextChunk(c, u) <= NextChunk(d, u) /\ NextChunk(c, u) \in Nat /\ NextChunk(d, u) \in Nat
      BY FewerChunks
    <2>3. IsChunk(class, u) => u + n < NextChunk(d, u)
      BY <2>1, <2>2 DEF Fits
    <2> QED BY <2>1, <2>3, Zenon DEF Fits
  <1>2. ASSUME NEW u \in Nat, NEW n \in Nat, NEW v \in Nat, NEW k \in Nat,
               IsClaim(os2, o2, b, u, n), IsClaim(os2, o2, b, v, k), IsBump(class, u), u < v
        PROVE  u + n <= v
    BY <1>2, Zenon DEF BlockClaims
  <1> QED BY <1>1, <1>2, Zenon DEF BlockClaims

\* What is known of a block with a size class.
LEMMA MatchOf ==
  ASSUME HeapInv, NEW b \in Blocks, meta[b] # None, meta[b].class # Big
  PROVE  /\ meta[b].class \in Classes /\ meta[b] \in MetaType
         /\ SlotsMatch(meta[b].class, slots[b], Addrs(live, op, b))
         /\ ChunksMatch(meta[b].class, chunks[b], Addrs(live, op, b))
         /\ BumpMatch(meta[b].class, bump[b], Addrs(live, op, b))
         /\ DOMAIN chunks[b] \subseteq 1 .. ChunkEnd - 1
         /\ Addrs(live, op, b) \in SUBSET Nat /\ IsFiniteSet(Addrs(live, op, b))
  <1>1. meta[b] \in MetaType
    <2>1. meta \in [Blocks -> MetaType \cup {None}]
      BY Zenon DEF HeapInv, Lists
    <2> QED BY <2>1
  <1>2. meta[b].class \in Classes
    BY <1>1, Geometry DEF MetaType, Classes, Big
  <1>3. BlockOK(meta[b], slots[b], chunks[b], bump[b], Addrs(live, op, b))
    BY Zenon DEF HeapInv, Contents
  <1>4. /\ Addrs(live, op, b) \in SUBSET Nat /\ IsFiniteSet(Addrs(live, op, b))
        /\ BlockMatch(meta[b].class, slots[b], chunks[b], bump[b], Addrs(live, op, b))
    BY <1>3, Zenon DEF BlockOK
  <1> QED BY <1>1, <1>2, <1>4, Zenon DEF BlockMatch, ChunksMatch

\* Slots do not overlap, and end where the bump space begins.
LEMMA SlotsFollow ==
  ASSUME NEW class \in Classes, NEW x \in Nat, NEW y \in Nat, x < y
  PROVE  SlotStart(class, x) + SizeOf(class) <= SlotStart(class, y)
  <1> DEFINE z == SizeOf(class)
  <1>1. z \in Nat \ {0}
    BY Sizes
  <1>2. SlotStart(class, x) = SlotBase + x * z /\ SlotStart(class, y) = SlotBase + y * z
    BY DEF SlotStart
  <1> HIDE DEF z
  <1>3. (x + 1) * z <= y * z /\ (x + 1) * z = x * z + z
    BY <1>1
  <1>4. x * z \in Nat /\ y * z \in Nat
    BY <1>1
  <1>5. SlotStart(class, x) + z <= SlotStart(class, y)
    BY <1>1, <1>2, <1>3, <1>4, Geometry
  <1> QED BY <1>5 DEF z

\* Memory of a block that begins at different units does not overlap.
LEMMA ClaimsApart ==
  ASSUME HeapInv, ClaimsFit, NEW b, NEW u, NEW n, NEW v, NEW k,
         IsClaim(live, op, b, u, n), IsClaim(live, op, b, v, k), u < v
  PROVE  u + n <= v
  <1> DEFINE class == meta[b].class  A == Addrs(live, op, b)
  <1>1. /\ b \in Blocks /\ u \in Nat /\ n \in Nat /\ v \in Nat /\ k \in Nat /\ u \in A /\ v \in A
        /\ meta[b] # None
    BY ClaimIs
  <1>2. class # Big
    <2>1. ASSUME class = Big PROVE FALSE
      <3>1. BlockOK(meta[b], slots[b], chunks[b], bump[b], A)
        BY <1>1, Zenon DEF HeapInv, Contents
      <3>2. u = v
        BY <1>1, <2>1, <3>1, Zenon DEF BlockOK
      <3> QED BY <1>1, <3>2
    <2> QED BY <2>1
  <1>3. /\ class \in Classes /\ SlotsMatch(class, slots[b], A) /\ ChunksMatch(class, chunks[b], A)
        /\ DOMAIN chunks[b] \subseteq 1 .. ChunkEnd - 1
    BY <1>1, <1>2, MatchOf, Zenon
  <1>4. /\ Fits(class, chunks[b], bump[b], u, n)
        /\ IsBump(class, u) => u + n <= v
    BY <1>1, <1>2, Zenon DEF ClaimsFit, BlockClaims
  <1> HIDE DEF class, A
  <1>5. CASE IsChunk(class, u)
    <2>1. u \in DOMAIN chunks[b]
      BY <1>1, <1>3, <1>5 DEF ChunksMatch, HeldChunks
    <2>2. /\ NextChunk(chunks[b], u) \in Nat /\ NextChunk(chunks[b], u) <= ChunkEnd
          /\ \A x \in DOMAIN chunks[b] : x > u => NextChunk(chunks[b], u) <= x
      BY <1>3, <2>1, NextChunkIs
    <2>3. u + n < NextChunk(chunks[b], u)
      BY <1>4, <1>5, Zenon DEF Fits
    <2>4. CASE IsChunk(class, v)
      <3>1. v \in DOMAIN chunks[b]
        BY <1>1, <1>3, <2>4 DEF ChunksMatch, HeldChunks
      <3> QED BY <1>1, <2>2, <2>3, <3>1
    <2>5. CASE ~IsChunk(class, v)
      <3>1. SlotBase <= v
        BY <1>1, <1>3, <2>5, Sizes, Geometry DEF IsChunk
      <3> QED BY <1>1, <2>2, <2>3, <3>1, Geometry
    <2> QED BY <2>4, <2>5
  <1>6. CASE IsSlot(class, u)
    <2>1. n <= SizeOf(class) /\ SizeOf(class) \in Nat
      BY <1>3, <1>4, <1>6, Sizes DEF Fits
    <2>2. /\ u = SlotStart(class, SlotAt(class, u)) /\ SlotAt(class, u) \in 0 .. SlotsOf(class) - 1
          /\ SlotsOf(class) \in Nat
      BY <1>1, <1>3, <1>6, SlotCount DEF SlotsMatch, HeldSlots
    <2> DEFINE x == SlotAt(class, u)  y == SlotAt(class, v)
    <2>3. CASE IsSlot(class, v)
      <3>1. v = SlotStart(class, y) /\ y \in 0 .. SlotsOf(class) - 1
        BY <1>1, <1>3, <2>3 DEF SlotsMatch, HeldSlots
      <3>2. x \in Nat /\ y \in Nat
        BY <2>2, <3>1
      <3> HIDE DEF x, y
      <3>3. CASE x < y
        <4>1. SlotStart(class, x) + SizeOf(class) <= SlotStart(class, y)
          BY <1>3, <3>2, <3>3, SlotsFollow
        <4>2. u + SizeOf(class) <= v
          BY <2>2, <3>1, <4>1 DEF x
        <4> QED BY <1>1, <2>1, <4>2
      <3>4. CASE y < x
        <4>1. SlotStart(class, y) + SizeOf(class) <= SlotStart(class, x)
          BY <1>3, <3>2, <3>4, SlotsFollow
        <4>2. v + SizeOf(class) <= u
          BY <2>2, <3>1, <4>1 DEF x
        <4> QED BY <1>1, <2>1, <4>2
      <3>5. CASE x = y
        <4>1. u = v
          BY <2>2, <3>1, <3>5 DEF x
        <4> QED BY <1>1, <4>1
      <3> QED BY <3>2, <3>3, <3>4, <3>5
    <2>4. CASE ~IsSlot(class, v)
      <3>1. BumpBase(class) <= v
        BY <1>1, <1>3, <1>6, <2>4, Sizes, Geometry, SlotCount DEF IsSlot
      <3>2. x \in Nat /\ SlotsOf(class) \in Nat /\ x < SlotsOf(class)
        BY <2>2
      <3> HIDE DEF x
      <3>3. SlotStart(class, x) + SizeOf(class) <= SlotStart(class, SlotsOf(class))
        BY <1>3, <3>2, SlotsFollow
      <3>4. SlotStart(class, SlotsOf(class)) = BumpBase(class)
        BY <2>1, <3>2, Geometry DEF SlotStart, BumpBase
      <3>5. u + SizeOf(class) <= BumpBase(class)
        BY <2>2, <3>3, <3>4 DEF x
      <3>6. BumpBase(class) \in Nat
        BY <1>3, SlotCount
      <3> QED BY <1>1, <2>1, <3>1, <3>5, <3>6
    <2> QED BY <2>3, <2>4
  <1> QED BY <1>1, <1>3, <1>4, <1>5, <1>6, Kinds

\* Claims fit after a step that changes one block, where they fit, and leaves
\* the others that are in use what they are.
LEMMA OneBlock ==
  ASSUME HeapInv, ClaimsFit, NEW b,
         \A x, u, n : IsClaim(live', op', x, u, n) /\ x # b => IsClaim(live, op, x, u, n),
         \A x \in Blocks : x # b /\ Used(meta, block_lists, reuse_list, x) =>
           meta'[x] = meta[x] /\ chunks'[x] = chunks[x] /\ bump'[x] = bump[x],
         b \in Blocks /\ meta'[b] # None /\ meta'[b].class # Big =>
           BlockClaims(live', op', b, meta'[b].class, chunks'[b], bump'[b])
  PROVE  ClaimsFit'
  <1>1. ASSUME NEW x \in Blocks, x # b, meta'[x] # None, meta'[x].class # Big
        PROVE  BlockClaims(live', op', x, meta'[x].class, chunks'[x], bump'[x])
    <2>1. CASE \A u, n \in Nat : ~IsClaim(live', op', x, u, n)
      BY <2>1, Zenon DEF BlockClaims
    <2>2. CASE \E u, n \in Nat : IsClaim(live', op', x, u, n)
      <3>1. PICK u \in Nat, n \in Nat : IsClaim(live, op, x, u, n)
        BY <1>1, <2>2, Zenon
      <3>2. meta[x] # None /\ meta'[x] = meta[x] /\ chunks'[x] = chunks[x] /\ bump'[x] = bump[x]
        BY <1>1, <3>1, ClaimIs, Zenon
      <3>3. BlockClaims(live, op, x, meta[x].class, chunks[x], bump[x])
        BY <1>1, <3>2, Zenon DEF ClaimsFit
      <3> QED BY <1>1, <3>2, <3>3, Zenon DEF BlockClaims
    <2> QED BY <2>1, <2>2, Zenon
  <1> QED BY <1>1, Zenon DEF ClaimsFit

\* A step of one thread that gets no memory and leaves the blocks' layout.
LEMMA NoClaims ==
  ASSUME HeapInv, ClaimsFit, meta' = meta,
         \A b, u, n : IsClaim(live', op', b, u, n) => IsClaim(live, op, b, u, n),
         \A b \in Blocks : DOMAIN chunks'[b] \subseteq DOMAIN chunks[b] /\ bump'[b].at = bump[b].at
  PROVE  ClaimsFit'
  <1>1. ASSUME NEW b \in Blocks, meta[b] # None, meta[b].class # Big
        PROVE  BlockClaims(live', op', b, meta[b].class, chunks'[b], bump'[b])
    <2>1. meta[b].class \in Classes /\ DOMAIN chunks[b] \subseteq 1 .. ChunkEnd - 1
      BY <1>1, MatchOf, Zenon
    <2>2. BlockClaims(live, op, b, meta[b].class, chunks[b], bump[b])
      BY <1>1, Zenon DEF ClaimsFit
    <2> QED BY <2>1, <2>2, BlockKept, Zenon
  <1> QED BY <1>1, Zenon DEF ClaimsFit

\* What a block's claims become when it gives m units from x, and where those
\* may be: a bump allocation between the others, anything else before them.
Gains(os, o, os2, o2, b, class, d, bp2, x, m) ==
  \A u, n \in Nat : IsClaim(os2, o2, b, u, n) =>
    (IsClaim(os, o, b, u, n) /\ Fits(class, d, bp2, u, n)) \/ (u = x /\ n = m)

BetweenBumps(os, o, b, class, x, m) ==
  /\ IsBump(class, x) =>
       \A v, k \in Nat : IsClaim(os, o, b, v, k) =>
         (x < v => x + m <= v) /\ (IsBump(class, v) /\ v < x => v + k <= x)
  /\ ~IsBump(class, x) =>
       \A v, k \in Nat : IsClaim(os, o, b, v, k) /\ IsBump(class, v) => x < v

\* A block of which memory is given, or whose memory is resized.
LEMMA BlockGains ==
  ASSUME NEW os, NEW o, NEW os2, NEW o2, NEW b, NEW class, NEW c, NEW d, NEW bp, NEW bp2,
         NEW x \in Nat, NEW m \in Nat, BlockClaims(os, o, b, class, c, bp),
         Gains(os, o, os2, o2, b, class, d, bp2, x, m), Fits(class, d, bp2, x, m),
         BetweenBumps(os, o, b, class, x, m)
  PROVE  BlockClaims(os2, o2, b, class, d, bp2)
  <1>1. ASSUME NEW u \in Nat, NEW n \in Nat, IsClaim(os2, o2, b, u, n)
        PROVE  Fits(class, d, bp2, u, n)
    BY <1>1, Zenon DEF Gains
  <1>2. ASSUME NEW u \in Nat, NEW n \in Nat, NEW v \in Nat, NEW k \in Nat,
               IsClaim(os2, o2, b, u, n), IsClaim(os2, o2, b, v, k), IsBump(class, u), u < v
        PROVE  u + n <= v
    <2>1. CASE IsClaim(os, o, b, u, n) /\ IsClaim(os, o, b, v, k)
      BY <1>2, <2>1, Zenon DEF BlockClaims
    <2>2. CASE u = x /\ n = m /\ IsClaim(os, o, b, v, k)
      <3>1. IsBump(class, x) /\ x < v
        BY <1>2, <2>2
      <3>2. x + m <= v
        BY <1>2, <2>2, <3>1, Zenon DEF BetweenBumps
      <3> QED BY <2>2, <3>2
    <2>3. CASE IsClaim(os, o, b, u, n) /\ v = x /\ k = m
      <3>1. CASE IsBump(class, x)
        <4>1. u + n <= x
          BY <1>2, <2>3, <3>1, Zenon DEF BetweenBumps
        <4> QED BY <2>3, <4>1
      <3>2. CASE ~IsBump(class, x)
        <4>1. x < u
          BY <1>2, <2>3, <3>2, Zenon DEF BetweenBumps
        <4> QED BY <1>2, <2>3, <4>1
      <3> QED BY <3>1, <3>2
    <2>4. CASE u = x /\ v = x
      BY <1>2, <2>4
    <2> QED BY <1>2, <2>1, <2>2, <2>3, <2>4, Zenon DEF Gains
  <1> QED BY <1>1, <1>2, Zenon DEF BlockClaims

\* A step that gets no memory leaves the claims it leaves.
LEMMA LessClaims ==
  ASSUME NEW t \in Threads, Others(op, op', t), op'[t].pc # "done", live' \subseteq live
  PROVE  \A b, u, n : IsClaim(live', op', b, u, n) => IsClaim(live, op, b, u, n)
  BY ClaimsLess, Zenon

\* The steps that leave the layout of all blocks alone.
LEMMA QuietFit ==
  ASSUME HeapInv, ClaimsFit, NEW t \in Threads,
         \/ Malloc(t) \/ Free(t)
         \/ LockList(t) \/ NoChunk(t) \/ MarkFull(t) \/ NextBlock(t) \/ ListEnds(t) \/ GcEnds(t)
         \/ FreeSlot(t) \/ ClearFull(t) \/ Count(t) \/ SweepLock(t) \/ SweepNext(t)
  PROVE  ClaimsFit'
  <1>1. Others(op, op', t) /\ op'[t].pc # "done"
    BY MallocGoes, WalkGoes, BackGoes
  <1>2. UNCHANGED <<meta, chunks, bump>>
    BY DEF Malloc, Free, LockList, NoChunk, MarkFull, NextBlock, ListEnds, GcEnds, FreeSlot, ClearFull,
       Count, SweepLock, SweepNext, OutsideBlocks, inside
  <1>3. live' \subseteq live
    <2>1. CASE Free(t)
      BY <2>1 DEF Free
    <2>2. CASE ~Free(t)
      BY <2>2 DEF Malloc, LockList, NoChunk, MarkFull, NextBlock, ListEnds, GcEnds, FreeSlot, ClearFull,
         Count, SweepLock, SweepNext, OutsideBlocks
    <2> QED BY <2>1, <2>2
  <1>4. \A b, u, n : IsClaim(live', op', b, u, n) => IsClaim(live, op, b, u, n)
    BY <1>1, <1>3, LessClaims
  <1>5. \A b \in Blocks : DOMAIN chunks'[b] \subseteq DOMAIN chunks[b] /\ bump'[b].at = bump[b].at
    BY <1>2
  <1> QED BY <1>2, <1>4, <1>5, NoClaims

\* The steps of a free of bump memory or of a chunk.
LEMMA FreeFit ==
  ASSUME HeapInv, ClaimsFit, NEW t \in Threads, FreeBump(t) \/ FreeChunk(t)
  PROVE  ClaimsFit'
  <1> DEFINE b == op[t].at  class == op[t].class
  <1>1. Others(op, op', t) /\ op'[t].pc # "done"
    BY BackGoes
  <1>2. op[t].pc = "free" /\ class # Big /\ meta' = meta /\ live' = live
    BY DEF FreeBump, FreeChunk, Freeing, IsBump, IsChunk, OutsideBlocks
  <1>3. b \in Blocks /\ BlockMatch(class, slots[b], chunks[b], bump[b], Addrs(live, op, b))
    BY <1>2, FreeCounts, Zenon
  <1>4. OfBlocks(chunks) /\ OfBlocks(bump)
    BY AllOfBlocks
  <1>5. \A x, u, n : IsClaim(live', op', x, u, n) => IsClaim(live, op, x, u, n)
    BY <1>1, <1>2, LessClaims
  <1>6. \A x \in Blocks : DOMAIN chunks'[x] \subseteq DOMAIN chunks[x] /\ bump'[x].at = bump[x].at
    <2>1. CASE FreeBump(t)
      <3>1. bump' = [bump EXCEPT ![b].freed = @ + 1] /\ chunks' = chunks
        BY <2>1 DEF FreeBump
      <3>2. bump[b] \in BumpType
        BY <1>3, Zenon DEF BlockMatch, BumpMatch
      <3> HIDE DEF b
      <3>3. \A x \in Blocks : bump'[x].at = bump[x].at
        BY <1>3, <1>4, <3>1, <3>2 DEF OfBlocks, BumpType
      <3> QED BY <3>1, <3>3
    <2>2. CASE FreeChunk(t)
      <3>1. chunks' = [chunks EXCEPT ![b] = DropChunk(@, op[t].mem)] /\ bump' = bump
        BY <2>2 DEF FreeChunk
      <3> HIDE DEF b
      <3>2. \A x \in Blocks : DOMAIN chunks'[x] = DOMAIN chunks[x]
        BY <1>3, <1>4, <3>1 DEF OfBlocks, DropChunk
      <3> QED BY <3>1, <3>2
    <2> QED BY <2>1, <2>2
  <1> QED BY <1>2, <1>5, <1>6, NoClaims

\* Unlinking a retired block leaves every claim where it was.
LEMMA UnlinkFit ==
  ASSUME HeapInv, ClaimsFit, NEW t \in Threads, UnlinkReuse(t)
  PROVE  ClaimsFit'
  <1>1. Others(op, op', t) /\ op'[t].pc # "done"
    <2> DEFINE u == reuse_list[op[t].heap][BestFit(op[t].heap, Enough(t))]
    <2>1. op' = [op EXCEPT ![t].pc = "reuse", ![t].at = u] /\ op[t].pc = "get"
      BY DEF UnlinkReuse
    <2>2. op \in [Threads -> OpType] /\ op[t] \in CallType
      BY <2>1, OpOf DEF CallLabels
    <2> HIDE DEF u
    <2> QED BY <2>1, <2>2 DEF Others, CallType
  <1>2. UNCHANGED <<meta, chunks, bump, live>>
    BY DEF UnlinkReuse, inside
  <1>3. \A b, u, n : IsClaim(live', op', b, u, n) => IsClaim(live, op, b, u, n)
    BY <1>1, <1>2, LessClaims
  <1> QED BY <1>2, <1>3, NoClaims

\* A call returns: what it had is now the program's.
LEMMA ReturnFit ==
  ASSUME HeapInv, ClaimsFit, NEW t \in Threads, Return(t)
  PROVE  ClaimsFit'
  <1> DEFINE new == [block |-> op[t].at, at |-> op[t].mem, n |-> op[t].n, by |-> t, zero |-> op[t].zero,
                     clean |-> Cleared(t) \/ PagesOf(op[t].mem, op[t].n) \cap dirty[op[t].at] = {}]
  <1>1. Others(op, op', t) /\ op'[t].pc # "done"
    BY BackGoes
  <1>2. /\ op[t].pc = "done" /\ live' = (live \ op[t].old) \cup {new}
        /\ UNCHANGED <<meta, chunks, bump>>
    BY DEF Return
  <1>3. new.block = op[t].at /\ new.at = op[t].mem /\ new.n = op[t].n
    OBVIOUS
  <1> HIDE DEF new
  <1>4. ASSUME NEW b, NEW u, NEW n, IsClaim(live', op', b, u, n)
        PROVE  IsClaim(live, op, b, u, n)
    <2>1. CASE \E p \in live' : p.block = b /\ p.at = u /\ p.n = n
      <3>1. PICK p \in live' : p.block = b /\ p.at = u /\ p.n = n
        BY <2>1
      <3>2. p \in live \/ p = new
        BY <1>2
      <3> QED BY <1>2, <1>3, <3>1, <3>2, Zenon DEF IsClaim
    <2>2. CASE \E v \in Threads : op'[v].pc = "done" /\ op'[v].at = b /\ op'[v].mem = u /\ op'[v].n = n
      BY <1>1, <2>2, Zenon DEF Others, IsClaim
    <2> QED BY <1>4, <2>1, <2>2, Zenon DEF IsClaim
  <1> QED BY <1>2, <1>4, NoClaims

\* A call takes memory in the block it is at.
LEMMA TakeFit ==
  ASSUME HeapInv, ClaimsFit, NEW t \in Threads, op[t].pc \in WalkLabels, op[t].pc \in CallLabels,
         op[t].at # None, UNCHANGED OutsideBlocks, NEW x \in Nat, Got(t, x),
         \A b \in Blocks : b # op[t].at => chunks'[b] = chunks[b] /\ bump'[b] = bump[b],
         LET b == op[t].at  class == op[t].class IN
         /\ \A u, n \in Nat : IsClaim(live, op, b, u, n) => Fits(class, chunks'[b], bump'[b], u, n)
         /\ Fits(class, chunks'[b], bump'[b], x, op[t].n)
         /\ BetweenBumps(live, op, b, class, x, op[t].n)
  PROVE  ClaimsFit'
  <1> DEFINE b == op[t].at  class == op[t].class  m == op[t].n
  <1>1. /\ class \in Classes /\ b \in Blocks /\ meta[b].class = class /\ m \in Nat /\ meta[b] # None
    BY AtCounts, AtBlock, Zenon
  <1>2. /\ Others(op, op', t) /\ op'[t].pc = "done" /\ op'[t].mem = x /\ op'[t].at = b /\ op'[t].n = m
        /\ live' = live /\ meta' = meta
    BY GotGoes DEF OutsideBlocks
  <1> HIDE DEF b, class, m
  <1>3. \A c, u, n : IsClaim(live', op', c, u, n) =>
          IsClaim(live, op, c, u, n) \/ (c = b /\ u = x /\ n = m)
    <2>1. ASSUME NEW c, NEW u, NEW n, IsClaim(live', op', c, u, n)
          PROVE  IsClaim(live, op, c, u, n) \/ (c = b /\ u = x /\ n = m)
      <3>1. IsClaim(live, op', c, u, n)
        BY <1>2, <2>1
      <3>2. \/ IsClaim(live, op, c, u, n)
            \/ op'[t].pc = "done" /\ op'[t].at = c /\ op'[t].mem = u /\ op'[t].n = n
        BY <1>2, <3>1, ClaimsMore
      <3> QED BY <1>2, <3>2
    <2> QED BY <2>1
  <1>4. class # Big
    BY <1>1, Sizes
  <1>5. BlockClaims(live, op, b, class, chunks[b], bump[b])
    BY <1>1, <1>4, Zenon DEF ClaimsFit
  <1>6. /\ \A u, n \in Nat : IsClaim(live, op, b, u, n) => Fits(class, chunks'[b], bump'[b], u, n)
        /\ Fits(class, chunks'[b], bump'[b], x, m)
        /\ BetweenBumps(live, op, b, class, x, m)
    BY Zenon DEF b, class, m
  <1>7. Gains(live, op, live', op', b, class, chunks'[b], bump'[b], x, m)
    <2>1. \A u, n \in Nat : IsClaim(live', op', b, u, n) =>
            IsClaim(live, op, b, u, n) \/ (u = x /\ n = m)
      BY <1>3
    <2> QED BY <1>6, <2>1, Zenon DEF Gains
  <1>8. BlockClaims(live', op', b, class, chunks'[b], bump'[b])
    BY <1>1, <1>5, <1>6, <1>7, BlockGains, Zenon
  <1>9. \A c \in Blocks : c # b => meta'[c] = meta[c] /\ chunks'[c] = chunks[c] /\ bump'[c] = bump[c]
    BY <1>2, Zenon DEF b
  <1>10. \A c, u, n : IsClaim(live', op', c, u, n) /\ c # b => IsClaim(live, op, c, u, n)
    BY <1>3, Zenon
  <1> QED BY <1>1, <1>2, <1>8, <1>9, <1>10, OneBlock, Zenon

\* What is claimed of the block a call is at.
LEMMA AtClaims ==
  ASSUME HeapInv, ClaimsFit, NEW t \in Threads, op[t].pc \in WalkLabels, op[t].pc \in CallLabels,
         op[t].at # None
  PROVE  LET b == op[t].at  class == op[t].class  A == Addrs(live, op, b) IN
         /\ class \in Classes /\ b \in Blocks /\ A \in SUBSET Nat /\ IsFiniteSet(A)
         /\ BlockMatch(class, slots[b], chunks[b], bump[b], A)
         /\ DOMAIN chunks[b] \subseteq 1 .. ChunkEnd - 1
         /\ bump[b] \in BumpType /\ BumpBase(class) <= bump[b].at
         /\ op[t].n \in Nat \ {0} /\ op[t].al \in Nat \ {0} /\ op[t].n <= SizeOf(class)
         /\ \A u, n \in Nat : IsClaim(live, op, b, u, n) =>
              /\ Fits(class, chunks[b], bump[b], u, n)
              /\ u \in A /\ (IsChunk(class, u) => u \in DOMAIN chunks[b] /\ ~chunks[b][u].free)
              /\ (IsBump(class, u) => u < bump[b].at)
  <1> DEFINE b == op[t].at  class == op[t].class  A == Addrs(live, op, b)
  <1>1. /\ class \in Classes /\ b \in Blocks /\ meta[b].class = class /\ meta[b] # None
        /\ op[t].n \in Nat \ {0} /\ op[t].al \in Nat \ {0}
        /\ A \in SUBSET Nat /\ IsFiniteSet(A)
        /\ BlockMatch(class, slots[b], chunks[b], bump[b], A)
        /\ BumpBase(class) <= bump[b].at
    BY AtCounts, AtBlock, Zenon
  <1>2. class # Big
    BY <1>1, Sizes
  <1>3. op[t].n <= SizeOf(class)
    <2>1. Shape(op[t])
      BY OpOf
    <2> QED BY <1>2, <2>1, Zenon DEF Shape
  <1> HIDE DEF b, class, A
  <1>4. ChunksMatch(class, chunks[b], A) /\ BumpMatch(class, bump[b], A)
    BY <1>1, Zenon DEF BlockMatch
  <1>5. ASSUME NEW u \in Nat, NEW n \in Nat, IsClaim(live, op, b, u, n)
        PROVE  /\ Fits(class, chunks[b], bump[b], u, n)
               /\ u \in A /\ (IsChunk(class, u) => u \in DOMAIN chunks[b] /\ ~chunks[b][u].free)
               /\ (IsBump(class, u) => u < bump[b].at)
    <2>1. u \in A
      BY <1>5, ClaimIs, Zenon DEF A
    <2>2. Fits(class, chunks[b], bump[b], u, n)
      BY <1>1, <1>2, <1>5, Zenon DEF ClaimsFit, BlockClaims
    <2>3. IsChunk(class, u) => u \in DOMAIN chunks[b] /\ ~chunks[b][u].free
      BY <1>4, <2>1 DEF ChunksMatch, HeldChunks
    <2>4. IsBump(class, u) => u < bump[b].at
      BY <1>4, <2>1 DEF BumpMatch, HeldBumps
    <2> QED BY <2>1, <2>2, <2>3, <2>4
  <1> QED BY <1>1, <1>3, <1>4, <1>5, Zenon DEF ChunksMatch, BumpMatch, b, class, A

\* A slot that was free is claimed by nobody else.
LEMMA AllocSlotFit ==
  ASSUME HeapInv, ClaimsFit, NEW t \in Threads, AllocSlot(t)
  PROVE  ClaimsFit'
  <1> DEFINE b == op[t].at  class == op[t].class  A == Addrs(live, op, b)  m == op[t].n
             s == NextSlot(slots[b])  x == SlotStart(class, s)
  <1>1. /\ op[t].pc \in WalkLabels /\ op[t].pc \in CallLabels /\ b # None /\ slots[b].n # SlotsOf(class)
        /\ chunks' = chunks /\ bump' = bump
        /\ Got(t, x) /\ UNCHANGED OutsideBlocks
    BY DEF AllocSlot, At, HasSlot, WalkLabels, CallLabels
  <1>2. /\ class \in Classes /\ b \in Blocks /\ A \in SUBSET Nat
        /\ BlockMatch(class, slots[b], chunks[b], bump[b], A)
        /\ m \in Nat /\ m <= SizeOf(class)
        /\ \A u, n \in Nat : IsClaim(live, op, b, u, n) => Fits(class, chunks[b], bump[b], u, n)
    BY <1>1, AtClaims, Zenon
  <1> HIDE DEF b, class, A, m
  <1>3. s \in Nat /\ s < SlotsOf(class)
    <2>1. SlotsMatch(class, slots[b], A)
      BY <1>2, Zenon DEF BlockMatch
    <2>2. /\ slots[b] \in SlotType /\ slots[b].taken \subseteq 0 .. SlotsOf(class) - 1
          /\ slots[b].n = Cardinality(slots[b].taken) /\ RegionsMatch(slots[b])
      BY <2>1, Zenon DEF SlotsMatch
    <2> QED BY <1>1, <1>2, <2>2, NextSlotFree, SlotCount
  <1> HIDE DEF s
  <1>4. x \in Nat /\ IsSlot(class, x)
    BY <1>2, <1>3, SlotPlace
  <1> HIDE DEF x
  <1>5. ~IsBump(class, x) /\ ~IsChunk(class, x)
    BY <1>2, <1>4, Kinds
  <1>6. Fits(class, chunks[b], bump[b], x, m)
    BY <1>2, <1>5 DEF Fits
  <1>7. BetweenBumps(live, op, b, class, x, m)
    <2>1. ASSUME NEW v \in Nat, IsBump(class, v) PROVE x < v
      BY <1>2, <1>4, <2>1, SlotCount DEF IsSlot, IsBump
    <2> QED BY <1>5, <2>1, Zenon DEF BetweenBumps
  <1> QED BY <1>1, <1>2, <1>4, <1>5, <1>6, <1>7, TakeFit, Zenon DEF b, class, m

\* Chunks other than the one memory is taken from keep their room.
LEMMA RoomKept ==
  ASSUME NEW c, DOMAIN c \subseteq 1 .. ChunkEnd - 1, NEW u \in DOMAIN c, NEW start \in Nat,
         u <= start, NEW x \in DOMAIN c, x # u, x > u => start < x
  PROVE  NextChunk(c, x) <= NextChunk(TakeChunk(c, u, start), x)
         /\ NextChunk(c, x) \in Nat /\ NextChunk(TakeChunk(c, u, start), x) \in Nat
  <1> DEFINE d == TakeChunk(c, u, start)  D == {v \in DOMAIN d : v > x} \cup {ChunkEnd}
             k == NextChunk(c, x)
  <1>1. k \in Nat /\ k <= ChunkEnd /\ \A v \in DOMAIN c : v > x => k <= v
    BY NextChunkIs
  <1>2. DOMAIN d = DOMAIN c \cup {start}
    BY DEF TakeChunk
  <1>3. D \in SUBSET Nat /\ D # {}
    BY <1>2, Geometry
  <1>4. NextChunk(d, x) = Min(D)
    BY DEF NextChunk
  <1> HIDE DEF k, d
  <1>5. \A v \in D : k <= v
    <2>1. start > x => k <= start
      <3>1. u \in Nat /\ x \in Nat
        OBVIOUS
      <3>2. start > x => x < u
        BY <3>1
      <3>3. x < u => k <= u
        BY <1>1
      <3> QED BY <1>1, <3>1, <3>2, <3>3
    <2> QED BY <1>1, <1>2, <2>1
  <1> HIDE DEF D
  <1>6. Min(D) \in D
    BY <1>3, MinIsLeast
  <1>7. k <= NextChunk(d, x) /\ NextChunk(d, x) \in Nat
    BY <1>3, <1>4, <1>5, <1>6
  <1> QED BY <1>1, <1>7 DEF d, k

\* A free chunk has room for the call, in the chunk's own space, and no claim
\* is in it.
LEMMA AllocChunkFit ==
  ASSUME HeapInv, ClaimsFit, NEW t \in Threads, AllocChunk(t)
  PROVE  ClaimsFit'
  <1> DEFINE b == op[t].at  class == op[t].class  A == Addrs(live, op, b)  m == op[t].n  al == op[t].al
             k == chunks[b]  c == Min(Fitting(k, m, al, class))  x == ChunkStart(c, al, class)
             d == TakeChunk(k, c, x)
  <1>1. /\ op[t].pc \in WalkLabels /\ op[t].pc \in CallLabels /\ b # None
        /\ Fitting(k, m, al, class) # {}
        /\ chunks' = [chunks EXCEPT ![b] = d] /\ bump' = bump
        /\ Got(t, x) /\ UNCHANGED OutsideBlocks
    BY DEF AllocChunk, At, Chunks, WalkLabels, CallLabels
  <1>2. /\ class \in Classes /\ b \in Blocks /\ DOMAIN k \subseteq 1 .. ChunkEnd - 1
        /\ m \in Nat \ {0} /\ al \in Nat \ {0}
        /\ \A u, n \in Nat : IsClaim(live, op, b, u, n) =>
             /\ Fits(class, k, bump[b], u, n)
             /\ (IsChunk(class, u) => u \in DOMAIN k /\ ~k[u].free)
    BY <1>1, AtClaims, Zenon
  <1>3. OfBlocks(chunks)
    BY AllOfBlocks
  <1> HIDE DEF b, class, A, m, al
  <1>4. c \in Fitting(k, m, al, class)
    <2>1. Fitting(k, m, al, class) \in SUBSET Nat
      BY <1>2, Geometry DEF Fitting
    <2> HIDE DEF k
    <2> QED BY <1>1, <2>1, MinIsLeast
  <1>5. chunks'[b] = d /\ \A y \in Blocks : y # b => chunks'[y] = chunks[y]
    <2> HIDE DEF d
    <2> QED BY <1>1, <1>2, <1>3 DEF OfBlocks
  <1> HIDE DEF c, k
  <1>6. /\ c \in DOMAIN k /\ k[c].free /\ x \in Nat /\ c <= x /\ x + m < NextChunk(k, c)
        /\ \A v \in DOMAIN k : x < v => x + m < v
        /\ IsChunk(class, x)
    BY <1>2, <1>4, FittingIs
  <1> HIDE DEF x
  <1>7. ~IsBump(class, x) /\ ~IsSlot(class, x)
    BY <1>2, <1>6, Kinds
  <1>8. NextChunk(k, c) \in Nat /\ NextChunk(k, c) <= ChunkEnd
        /\ \A v \in DOMAIN k : v > c => NextChunk(k, c) <= v
    BY <1>2, <1>6, NextChunkIs
  <1>9. x + m < NextChunk(d, x)
    <2> DEFINE D == {v \in DOMAIN d : v > x} \cup {ChunkEnd}
    <2>1. DOMAIN d = DOMAIN k \cup {x}
      BY DEF TakeChunk
    <2>2. D \in SUBSET Nat /\ D # {} /\ \A v \in D : (v \in DOMAIN k /\ x < v) \/ v = ChunkEnd
      BY <1>2, <1>6, <2>1, Geometry
    <2>3. NextChunk(d, x) = Min(D)
      BY DEF NextChunk
    <2> HIDE DEF D, d
    <2>4. Min(D) \in D
      BY <2>2, MinIsLeast
    <2>5. x + m < ChunkEnd
      BY <1>2, <1>6, <1>8, Geometry
    <2> QED BY <1>6, <2>2, <2>3, <2>4, <2>5
  <1>10. Fits(class, d, bump'[b], x, m)
    BY <1>7, <1>9, Zenon DEF Fits
  <1>11. ASSUME NEW u \in Nat, NEW n \in Nat, IsClaim(live, op, b, u, n)
         PROVE  Fits(class, d, bump'[b], u, n)
    <2>1. Fits(class, k, bump[b], u, n) /\ (IsChunk(class, u) => u \in DOMAIN k /\ ~k[u].free)
      BY <1>2, <1>11, Zenon
    <2>2. ASSUME IsChunk(class, u) PROVE u + n < NextChunk(d, u)
      <3>1. u \in DOMAIN k /\ u # c /\ u + n < NextChunk(k, u)
        BY <1>6, <2>1, <2>2, Zenon DEF Fits
      <3>2. u > c => x < u
        BY <1>2, <1>6, <1>8, <3>1
      <3>3. NextChunk(k, u) <= NextChunk(d, u) /\ NextChunk(k, u) \in Nat /\ NextChunk(d, u) \in Nat
        BY <1>2, <1>6, <3>1, <3>2, RoomKept
      <3> QED BY <3>1, <3>3
    <2> QED BY <1>1, <2>1, <2>2, Zenon DEF Fits
  <1>12. BetweenBumps(live, op, b, class, x, m)
    <2>1. ASSUME NEW v \in Nat, IsBump(class, v) PROVE x < v
      BY <1>2, <1>6, <2>1, SlotCount, Geometry DEF IsChunk, IsBump
    <2> QED BY <1>7, <2>1, Zenon DEF BetweenBumps
  <1> HIDE DEF d
  <1>13. /\ \A u, n \in Nat : IsClaim(live, op, b, u, n) => Fits(class, chunks'[b], bump'[b], u, n)
         /\ Fits(class, chunks'[b], bump'[b], x, m)
    BY <1>5, <1>10, <1>11, Zenon
  <1>14. \A y \in Blocks : y # b => chunks'[y] = chunks[y] /\ bump'[y] = bump[y]
    BY <1>1, <1>5, Zenon
  <1> QED BY <1>1, <1>6, <1>12, <1>13, <1>14, TakeFit, Zenon DEF b, class, m

\* Bump memory is given behind all that has been given.
LEMMA BumpGoesOn ==
  ASSUME NEW class \in Classes, NEW bp \in BumpType, BumpBase(class) <= bp.at,
         NEW n \in Nat, NEW al \in Nat \ {0}
  PROVE  /\ BumpStart(bp, al) \in Nat /\ IsBump(class, BumpStart(bp, al)) /\ bp.at < BumpStart(bp, al)
         /\ TakeBump(bp, n, al).at = BumpStart(bp, al) + n
  <1> DEFINE x == BumpStart(bp, al)
  <1>1. bp.at \in Nat
    BY DEF BumpType
  <1>2. x \in Nat /\ bp.at < x
    BY <1>1, AlignedUp, Zenon DEF BumpStart
  <1> HIDE DEF x
  <1>3. IsBump(class, x)
    BY <1>1, <1>2, SlotCount, Sizes DEF IsBump
  <1>4. TakeBump(bp, n, al).at = x + n
    <2> DEFINE e == [bp EXCEPT !.at = x + n]
    <2>1. TakeBump(bp, n, al) = [bp EXCEPT !.at = x + n, !.n = @ + 1]
      BY DEF TakeBump, x
    <2>2. e = [at |-> x + n, n |-> bp.n, freed |-> bp.freed]
      BY DEF BumpType
    <2>3. TakeBump(bp, n, al) = [e EXCEPT !.n = bp.n + 1]
      BY <2>1, Zenon DEF BumpType
    <2> HIDE DEF e
    <2> QED BY <2>2, <2>3
  <1> QED BY <1>2, <1>3, <1>4 DEF x

\* Bump memory is given past all that was given before.
LEMMA AllocBumpFit ==
  ASSUME HeapInv, ClaimsFit, NEW t \in Threads, AllocBump(t)
  PROVE  ClaimsFit'
  <1> DEFINE b == op[t].at  class == op[t].class  A == Addrs(live, op, b)  m == op[t].n  al == op[t].al
             x == BumpStart(bump[b], al)  e == TakeBump(bump[b], m, al)
  <1>1. /\ op[t].pc \in WalkLabels /\ op[t].pc \in CallLabels /\ b # None
        /\ bump' = [bump EXCEPT ![b] = e] /\ chunks' = chunks
        /\ Got(t, x) /\ UNCHANGED OutsideBlocks
    BY DEF AllocBump, AtBump, At, WalkLabels, CallLabels
  <1>2. /\ class \in Classes /\ b \in Blocks /\ A \in SUBSET Nat /\ IsFiniteSet(A)
        /\ BlockMatch(class, slots[b], chunks[b], bump[b], A)
        /\ bump[b] \in BumpType /\ BumpBase(class) <= bump[b].at
        /\ m \in Nat \ {0} /\ al \in Nat \ {0}
        /\ \A u, n \in Nat : IsClaim(live, op, b, u, n) =>
             /\ Fits(class, chunks[b], bump[b], u, n)
             /\ (IsBump(class, u) => u < bump[b].at)
    BY <1>1, AtClaims, Zenon
  <1>3. OfBlocks(bump)
    BY AllOfBlocks
  <1> HIDE DEF b, class, A, m, al
  <1>4. x \in Nat /\ IsBump(class, x) /\ bump[b].at < x /\ e.at = x + m
    <2> DEFINE bp == bump[b]
    <2>1. bp \in BumpType /\ BumpBase(class) <= bp.at
      BY <1>2
    <2> HIDE DEF bp
    <2>2. BumpStart(bp, al) \in Nat /\ IsBump(class, BumpStart(bp, al)) /\ bp.at < BumpStart(bp, al)
          /\ TakeBump(bp, m, al).at = BumpStart(bp, al) + m
      BY <1>2, <2>1, BumpGoesOn
    <2> QED BY <2>2 DEF bp
  <1>5. bump[b].at \in Nat
    BY <1>2 DEF BumpType
  <1>6. bump'[b] = e /\ \A y \in Blocks : y # b => bump'[y] = bump[y]
    <2> HIDE DEF e
    <2> QED BY <1>1, <1>2, <1>3 DEF OfBlocks
  <1> HIDE DEF x, e
  <1>7. ~IsSlot(class, x) /\ ~IsChunk(class, x)
    BY <1>2, <1>4, Kinds
  <1>8. Fits(class, chunks[b], e, x, m)
    BY <1>2, <1>4, <1>7 DEF Fits
  <1>9. ASSUME NEW u \in Nat, NEW n \in Nat, IsClaim(live, op, b, u, n)
        PROVE  /\ Fits(class, chunks[b], e, u, n) /\ ~(x < u)
               /\ IsBump(class, u) => u + n <= x
    <2>1. Fits(class, chunks[b], bump[b], u, n) /\ (IsBump(class, u) => u < bump[b].at)
      BY <1>2, <1>9, Zenon
    <2>2. IsBump(class, u) => u + n <= bump[b].at
      BY <2>1, Zenon DEF Fits
    <2>3. Fits(class, chunks[b], e, u, n) /\ (IsBump(class, u) => u + n <= x)
      BY <1>2, <1>4, <1>5, <2>1, <2>2 DEF Fits
    <2>4. ~(x < u)
      <3>1. ~IsBump(class, u) => u < BumpBase(class)
        BY <1>2, Sizes, SlotCount DEF IsBump
      <3> QED BY <1>2, <1>4, <1>5, <2>1, <3>1, SlotCount
    <2> QED BY <2>3, <2>4
  <1>10. BetweenBumps(live, op, b, class, x, m)
    BY <1>4, <1>9, Zenon DEF BetweenBumps
  <1> QED BY <1>1, <1>2, <1>4, <1>6, <1>8, <1>9, <1>10, TakeFit, Zenon DEF b, class, m

\* An object changes its length where it is, within what may be used of it.
LEMMA ResizeFit ==
  ASSUME HeapInv, ClaimsFit, NEW t \in Threads, NEW o \in live, NEW n \in Requests, Usable(o) >= n,
         live' = (live \ {o}) \cup {[o EXCEPT !.n = n]}, op' = op,
         UNCHANGED <<meta, chunks, bump>>, IsBump(meta[o.block].class, o.at) => n <= o.n
  PROVE  ClaimsFit'
  <1> DEFINE p == [o EXCEPT !.n = n]  b == o.block  x == o.at  class == meta[b].class
             c == chunks[b]  bp == bump[b]
  <1>1. o \in ObjectType /\ n \in Nat
    BY MallocAssumption, Zenon DEF HeapInv, OldsOK
  <1>2. p.block = b /\ p.at = x /\ p.n = n /\ o.n \in Nat /\ x \in Nat
    BY <1>1 DEF ObjectType
  <1>3. \A q : q \in live' => q \in live \/ q = p
    OBVIOUS
  <1> HIDE DEF p
  <1>4. \A y, u, k : IsClaim(live', op', y, u, k) =>
          IsClaim(live, op, y, u, k) \/ (y = b /\ u = x /\ k = n)
    <2>1. ASSUME NEW y, NEW u, NEW k, NEW q \in live', q.block = y, q.at = u, q.n = k
          PROVE  IsClaim(live, op, y, u, k) \/ (y = b /\ u = x /\ k = n)
      BY <1>2, <1>3, <2>1, Zenon DEF IsClaim
    <2>2. ASSUME NEW y, NEW u, NEW k, NEW v \in Threads,
                 op'[v].pc = "done" /\ op'[v].at = y /\ op'[v].mem = u /\ op'[v].n = k
          PROVE  IsClaim(live, op, y, u, k)
      <3>1. op[v].pc = "done" /\ op[v].at = y /\ op[v].mem = u /\ op[v].n = k
        BY <2>2
      <3> QED BY <3>1, Zenon DEF IsClaim
    <2>3. ASSUME NEW y, NEW u, NEW k, IsClaim(live', op', y, u, k)
          PROVE  IsClaim(live, op, y, u, k) \/ (y = b /\ u = x /\ k = n)
      <3>1. \/ \E q \in live' : q.block = y /\ q.at = u /\ q.n = k
            \/ \E v \in Threads : op'[v].pc = "done" /\ op'[v].at = y /\ op'[v].mem = u /\ op'[v].n = k
        BY <2>3 DEF IsClaim
      <3> QED BY <2>1, <2>2, <3>1, Zenon
    <2> QED BY <2>3
  <1>5. IsClaim(live, op, b, x, o.n)
    BY Zenon DEF IsClaim
  <1>6. b \in Blocks /\ meta[b] # None /\ x \in Addrs(live, op, b)
    BY <1>5, ClaimIs
  <1>7. ASSUME class # Big PROVE BlockClaims(live', op', b, class, c, bp)
    <2>1. BlockClaims(live, op, b, class, c, bp) /\ class \in Classes
      BY <1>6, <1>7, MatchOf, Zenon DEF ClaimsFit
    <2>2. Usable(o) = UsableSize(class, meta[b].size, c, x)
      BY DEF Usable
    <2>3. IsBump(class, x) => n <= o.n
      OBVIOUS
    <2>4. Fits(class, c, bp, x, o.n)
      BY <1>2, <1>5, <2>1, Zenon DEF BlockClaims
    <2>5. ChunksMatch(class, c, Addrs(live, op, b)) /\ DOMAIN c \subseteq 1 .. ChunkEnd - 1
          /\ BumpMatch(class, bp, Addrs(live, op, b))
      BY <1>6, <1>7, MatchOf, Zenon
    <2> HIDE DEF c, bp, class, b, x
    <2>6. Fits(class, c, bp, x, n)
      <3>1. IsSlot(class, x) => n <= SizeOf(class)
        BY <1>1, <1>2, <1>7, <2>2 DEF UsableSize, IsSlot
      <3>2. ASSUME IsChunk(class, x) PROVE x + n < NextChunk(c, x)
        <4>1. x \in DOMAIN c
          BY <1>6, <2>5, <3>2 DEF ChunksMatch, HeldChunks
        <4>2. NextChunk(c, x) \in Nat
          BY <2>5, <4>1, NextChunkIs
        <4>3. Usable(o) = NextChunk(c, x) - x - 1
          BY <1>2, <1>7, <2>2, <3>2, Geometry DEF UsableSize, IsChunk, Room
        <4> QED BY <1>1, <1>2, <4>2, <4>3
      <3>3. IsBump(class, x) => x + n <= bp.at
        <4>1. bp.at \in Int
          BY <2>5 DEF BumpMatch, BumpType
        <4> QED BY <1>1, <1>2, <2>3, <2>4, <4>1 DEF Fits
      <3> QED BY <3>1, <3>2, <3>3, Zenon DEF Fits
    <2>7. Gains(live, op, live', op', b, class, c, bp, x, n)
      <3>1. \A u, k \in Nat : IsClaim(live', op', b, u, k) =>
              IsClaim(live, op, b, u, k) \/ (u = x /\ k = n)
        BY <1>4
      <3>2. \A u, k \in Nat : IsClaim(live, op, b, u, k) => Fits(class, c, bp, u, k)
        BY <2>1, Zenon DEF BlockClaims
      <3> QED BY <3>1, <3>2, Zenon DEF Gains
    <2>8. BetweenBumps(live, op, b, class, x, n)
      <3>1. ASSUME IsBump(class, x), NEW v \in Nat, NEW k \in Nat, IsClaim(live, op, b, v, k)
            PROVE  /\ x < v => x + n <= v
                   /\ IsBump(class, v) /\ v < x => v + k <= x
        <4>1. x < v => x + o.n <= v
          BY <1>2, <1>5, <2>1, <3>1, Zenon DEF BlockClaims
        <4>2. IsBump(class, v) /\ v < x => v + k <= x
          BY <1>2, <1>5, <2>1, <3>1, Zenon DEF BlockClaims
        <4> QED BY <1>1, <1>2, <2>3, <3>1, <4>1, <4>2
      <3>2. ASSUME ~IsBump(class, x), NEW v \in Nat, IsBump(class, v) PROVE x < v
        BY <1>2, <2>1, <3>2, SlotCount, Sizes DEF IsBump
      <3> QED BY <3>1, <3>2, Zenon DEF BetweenBumps
    <2>9. x \in Nat /\ n \in Nat /\ BlockClaims(live, op, b, class, c, bp)
      BY <1>1, <1>2, <2>1
    <2> QED BY <2>6, <2>7, <2>8, <2>9, BlockGains, Zenon
  <1>8. \A y, u, k : IsClaim(live', op', y, u, k) /\ y # b => IsClaim(live, op, y, u, k)
    BY <1>4, Zenon
  <1>9. meta'[b] # None /\ meta'[b].class # Big =>
          BlockClaims(live', op', b, meta'[b].class, chunks'[b], bump'[b])
    BY <1>7
  <1> HIDE DEF b
  <1> QED BY <1>8, <1>9, OneBlock

\* No object in bump space grows where it is.
BumpsStay ==
  \A o \in live, p \in live' :
    o.block = p.block /\ o.at = p.at /\ IsBump(meta[o.block].class, o.at) => p.n <= o.n

\* A realloc that does not grow bump memory in place keeps the claims apart.
LEMMA ReallocFit ==
  ASSUME HeapInv, ClaimsFit, NEW t \in Threads, Realloc(t), BumpsStay
  PROVE  ClaimsFit'
  <1>1. PICK o \in live, n \in Requests :
          \/ Usable(o) >= n /\ live' = (live \ {o}) \cup {[o EXCEPT !.n = n]} /\ op' = op
          \/ live' = live /\ op'[t].pc # "done" /\ Others(op, op', t)
    BY MallocGoes DEF Realloc
  <1>2. UNCHANGED <<meta, chunks, bump>>
    BY DEF Realloc
  <1>3. CASE Usable(o) >= n /\ live' = (live \ {o}) \cup {[o EXCEPT !.n = n]} /\ op' = op
    <2> DEFINE p == [o EXCEPT !.n = n]
    <2>1. o \in ObjectType
      BY Zenon DEF HeapInv, OldsOK
    <2>2. p \in live' /\ p.block = o.block /\ p.at = o.at /\ p.n = n
      BY <1>3, <2>1 DEF ObjectType
    <2>3. IsBump(meta[o.block].class, o.at) => n <= o.n
      BY <2>2, Zenon DEF BumpsStay
    <2> QED BY <1>2, <1>3, <2>3, ResizeFit
  <1>4. CASE live' = live /\ op'[t].pc # "done" /\ Others(op, op', t)
    <2>1. \A b, u, k : IsClaim(live', op', b, u, k) => IsClaim(live, op, b, u, k)
      BY <1>4, LessClaims
    <2> QED BY <1>2, <2>1, NoClaims
  <1> QED BY <1>1, <1>3, <1>4

\* A block of which nothing is held is retired.
LEMMA RetireFit ==
  ASSUME HeapInv, ClaimsFit, NEW t \in Threads, Others(op, op', t), op'[t].pc # "done", live' = live,
         NEW h \in Heaps, NEW b \in Blocks, meta[b] \in MetaType, meta[b] # None, meta[b].heap = h,
         ~Retired(reuse_list, b), RemoveBlock(h, b),
         \A x \in Blocks : x # b => chunks'[x] = chunks[x],
         meta[b].class = Big \/ Addrs(live, op, b) = {}
  PROVE  ClaimsFit'
  <1>1. PICK kept, delta : Removed(h, b, kept, delta)
    BY RemoveIs
  <1>2. /\ \A x \in Blocks : x # b /\ ~Retired(reuse_list, x) => meta'[x] = meta[x]
        /\ meta'[b] # None => meta'[b].class = meta[b].class
    BY <1>1, RemovedFacts
  <1>3. Forget({b})
    BY DEF RemoveBlock
  <1>4. \A x \in Blocks : x # b => bump'[x] = bump[x]
    BY <1>3 DEF Forget
  <1>5. \A x, u, n : IsClaim(live', op', x, u, n) => IsClaim(live, op, x, u, n)
    BY LessClaims
  <1>6. \A x \in Blocks : x # b /\ Used(meta, block_lists, reuse_list, x) =>
          meta'[x] = meta[x] /\ chunks'[x] = chunks[x] /\ bump'[x] = bump[x]
    BY <1>2, <1>4, Zenon DEF Used
  <1>7. ASSUME meta'[b] # None, meta'[b].class # Big
        PROVE  BlockClaims(live', op', b, meta'[b].class, chunks'[b], bump'[b])
    <2>1. Addrs(live, op, b) = {}
      BY <1>2, <1>7
    <2>2. \A u, n \in Nat : ~IsClaim(live', op', b, u, n)
      BY <1>5, <2>1, ClaimIs
    <2> QED BY <2>2, Zenon DEF BlockClaims
  <1>8. \A x, u, n : IsClaim(live', op', x, u, n) /\ x # b => IsClaim(live, op, x, u, n)
    BY <1>5, Zenon
  <1> QED BY <1>6, <1>7, <1>8, OneBlock, Zenon

\* An empty block is collected.
LEMMA GcBlockFit ==
  ASSUME HeapInv, ClaimsFit, NEW t \in Threads, GcBlock(t)
  PROVE  ClaimsFit'
  <1> DEFINE h == op[t].heap  c == op[t].class  b == op[t].at  d == Following(block_lists[h][c], b)
  <1>1. op[t].pc \in {"gc", "sweep"} /\ op[t].pc \in WalkLabels /\ b # None /\ live' = live
    BY DEF GcBlock, At, WalkLabels
  <1>2. /\ h \in Heaps /\ c \in Classes /\ b \in Blocks
        /\ meta[b] \in MetaType /\ meta[b] # None /\ meta[b].heap = h /\ meta[b].class = c
        /\ ~Retired(reuse_list, b)
    BY <1>1, AtBlock, Zenon
  <1>3. Others(op, op', t) /\ op'[t].pc # "done"
    <2>1. op' = [op EXCEPT ![t].at = d]
      BY DEF GcBlock
    <2>2. op \in [Threads -> OpType] /\ (op[t] \in CallType \/ op[t] \in FreeType)
      BY <1>1, OpOf DEF CallLabels, FreeLabels
    <2> HIDE DEF d
    <2> QED BY <1>1, <2>1, <2>2 DEF Others, CallType, FreeType
  <1>4. chunks' = [chunks EXCEPT ![b] = IF Empty(b) THEN FreshChunks(TRUE) ELSE Coalesced(chunks[b])]
    BY DEF GcBlock
  <1>5. OfBlocks(chunks)
    BY AllOfBlocks
  <1>6. CASE Empty(b)
    <2>1. RemoveBlock(h, b)
      BY <1>6 DEF GcBlock
    <2> HIDE DEF h, c, b
    <2>2. Addrs(live, op, b) = {}
      BY <1>2, <1>6, EmptyIs
    <2>3. \A x \in Blocks : x # b => chunks'[x] = chunks[x]
      BY <1>2, <1>4, <1>5 DEF OfBlocks
    <2> QED BY <1>1, <1>2, <1>3, <2>1, <2>2, <2>3, RetireFit
  <1>7. CASE ~Empty(b)
    <2>1. UNCHANGED <<meta, bump>>
      BY <1>7 DEF GcBlock
    <2> HIDE DEF h, c, b
    <2>2. \A x \in Blocks : DOMAIN chunks'[x] \subseteq DOMAIN chunks[x]
      BY <1>2, <1>4, <1>5, <1>7 DEF OfBlocks, Coalesced
    <2>3. \A x, u, n : IsClaim(live', op', x, u, n) => IsClaim(live, op, x, u, n)
      BY <1>1, <1>3, LessClaims
    <2> QED BY <2>1, <2>2, <2>3, NoClaims
  <1> QED BY <1>6, <1>7

\* A big block is freed.
LEMMA FreeBigFit ==
  ASSUME HeapInv, ClaimsFit, NEW t \in Threads, FreeBig(t)
  PROVE  ClaimsFit'
  <1> DEFINE h == op[t].heap  b == op[t].at
  <1>1. /\ op[t].pc = "free" /\ op[t].class = Big /\ RemoveBlock(h, b) /\ op' = Set(op, t, Idle)
        /\ live' = live /\ chunks' = chunks
    BY DEF FreeBig
  <1>2. Holder(op[t]) /\ op[t].pc \in FreeLabels
    BY <1>1 DEF Holder, FreeLabels
  <1>3. b \in Blocks /\ meta[b].class = Big
    BY <1>1, FreeCounts, Zenon
  <1>4. Used(meta, block_lists, reuse_list, b) /\ meta[b].heap = h /\ h \in Heaps
    BY <1>2, WalkClass, Zenon DEF HeapInv, AllPlaced, Placed
  <1>5. meta[b] # None /\ meta[b] \in MetaType
    BY <1>3, <1>4, UsedIs
  <1>6. ~Retired(reuse_list, b)
    BY <1>4, Zenon DEF Used
  <1>7. Others(op, op', t) /\ op'[t].pc # "done"
    BY <1>1, OpOf DEF Set, Others, Idle
  <1> HIDE DEF h, b
  <1> QED BY <1>1, <1>3, <1>4, <1>5, <1>6, <1>7, RetireFit

\* A block that has just been got holds nothing, or the one object.
LEMMA GetBlockFit ==
  ASSUME HeapInv, ClaimsFit, NEW t \in Threads, ReuseBlock(t) \/ MakeBlock(t)
  PROVE  ClaimsFit'
  <1>1. PICK b \in Blocks : GetsBlock(t, b)
    BY ReuseGets, MakeGets
  <1>2. AddBlock(t, b) /\ Gained(t, b) /\ live' = live
    BY <1>1 DEF GetsBlock
  <1>3. /\ Others(op, op', t) /\ op'[t].at = b
        /\ op'[t].pc = (IF op[t].class = Big THEN "done" ELSE "walk")
    BY <1>1, AddOp, Zenon DEF GetsBlock
  <1>4. meta'[b].class = op[t].class /\ Addrs(live, op, b) = {}
    BY <1>2, Zenon DEF Gained
  <1>5. /\ chunks' = Set(chunks, b, FreshChunks(IF meta[b] = None THEN TRUE ELSE meta[b].zero))
        /\ bump' = Set(bump, b, FreshBump(op[t].class))
    BY <1>2 DEF AddBlock, ResetBlock
  <1>6. \A x \in Blocks : x # b => chunks'[x] = chunks[x] /\ bump'[x] = bump[x]
    BY <1>5, AllOfBlocks DEF Set, OfBlocks
  <1>7. \A x \in Blocks : x # b /\ Used(meta, block_lists, reuse_list, x) =>
          meta'[x] = meta[x] /\ chunks'[x] = chunks[x] /\ bump'[x] = bump[x]
    BY <1>2, <1>6, GainedFacts
  <1>8. \A x, u, n : IsClaim(live', op', x, u, n) =>
          IsClaim(live, op, x, u, n) \/ (x = b /\ op[t].class = Big)
    <2>1. ASSUME NEW x, NEW u, NEW n, IsClaim(live', op', x, u, n)
          PROVE  IsClaim(live, op, x, u, n) \/ (x = b /\ op[t].class = Big)
      <3>1. IsClaim(live, op', x, u, n)
        BY <1>2, <2>1
      <3>2. IsClaim(live, op, x, u, n) \/ (op'[t].pc = "done" /\ op'[t].at = x)
        BY <1>3, <3>1, ClaimsMore, Zenon
      <3> QED BY <1>3, <3>2
    <2> QED BY <2>1
  <1>9. ASSUME meta'[b].class # Big
        PROVE  BlockClaims(live', op', b, meta'[b].class, chunks'[b], bump'[b])
    <2>1. \A u, n \in Nat : ~IsClaim(live', op', b, u, n)
      BY <1>4, <1>8, <1>9, ClaimIs
    <2> QED BY <2>1, Zenon DEF BlockClaims
  <1>10. \A x, u, n : IsClaim(live', op', x, u, n) /\ x # b => IsClaim(live, op, x, u, n)
    BY <1>8, Zenon
  <1> QED BY <1>7, <1>9, <1>10, OneBlock, Zenon

\* A heap of which nothing is held is destroyed.
LEMMA DestroyHeapFit ==
  ASSUME HeapInv, ClaimsFit, NEW h \in UserHeaps, DestroyHeap(h)
  PROVE  ClaimsFit'
  <1>1. ASSUME NEW b \in Blocks, meta'[b] # None, meta'[b].class # Big
        PROVE  BlockClaims(live', op', b, meta'[b].class, chunks'[b], bump'[b])
    <2>1. meta'[b] = meta[b] /\ b \notin BlocksOf(h)
      BY <1>1 DEF DestroyHeap
    <2>2. chunks'[b] = chunks[b] /\ bump'[b] = bump[b] /\ live' = live /\ op' = op
      BY <2>1 DEF DestroyHeap, Forget
    <2>3. BlockClaims(live, op, b, meta[b].class, chunks[b], bump[b])
      BY <1>1, <2>1, Zenon DEF ClaimsFit
    <2>4. BlockClaims(live', op', b, meta[b].class, chunks[b], bump[b])
      BY <2>2, <2>3
    <2> QED BY <2>1, <2>2, <2>4
  <1> QED BY <1>1, Zenon DEF ClaimsFit

\* Every step keeps every claim within its slot, chunk or bump memory, if
\* none of bump memory grows in place.
LEMMA FitStep == HeapInv /\ ClaimsFit /\ [Next /\ BumpsStay]_vars => ClaimsFit'
  <1> SUFFICES ASSUME HeapInv, ClaimsFit, [Next /\ BumpsStay]_vars PROVE ClaimsFit'
    OBVIOUS
  <1>1. ASSUME NEW t \in Threads,
               \/ Malloc(t) \/ Free(t)
               \/ LockList(t) \/ NoChunk(t) \/ MarkFull(t) \/ NextBlock(t) \/ ListEnds(t) \/ GcEnds(t)
               \/ FreeSlot(t) \/ ClearFull(t) \/ Count(t) \/ SweepLock(t) \/ SweepNext(t)
        PROVE  ClaimsFit'
    BY <1>1, QuietFit
  <1>2. ASSUME NEW t \in Threads, Realloc(t), BumpsStay PROVE ClaimsFit'
    BY <1>2, ReallocFit
  <1>3. ASSUME NEW t \in Threads, AllocSlot(t) PROVE ClaimsFit'
    BY <1>3, AllocSlotFit
  <1>4. ASSUME NEW t \in Threads, AllocChunk(t) PROVE ClaimsFit'
    BY <1>4, AllocChunkFit
  <1>5. ASSUME NEW t \in Threads, AllocBump(t) PROVE ClaimsFit'
    BY <1>5, AllocBumpFit
  <1>6. ASSUME NEW t \in Threads, GcBlock(t) PROVE ClaimsFit'
    BY <1>6, GcBlockFit
  <1>7. ASSUME NEW t \in Threads, UnlinkReuse(t) PROVE ClaimsFit'
    BY <1>7, UnlinkFit
  <1>8. ASSUME NEW t \in Threads, ReuseBlock(t) \/ MakeBlock(t) PROVE ClaimsFit'
    BY <1>8, GetBlockFit
  <1>9. ASSUME NEW t \in Threads, Return(t) PROVE ClaimsFit'
    BY <1>9, ReturnFit
  <1>10. ASSUME NEW t \in Threads, FreeBig(t) PROVE ClaimsFit'
    BY <1>10, FreeBigFit
  <1>11. ASSUME NEW t \in Threads, FreeBump(t) \/ FreeChunk(t) PROVE ClaimsFit'
    BY <1>11, FreeFit
  <1>12. ASSUME NEW h \in UserHeaps, DestroyHeap(h) PROVE ClaimsFit'
    BY <1>12, DestroyHeapFit
  <1>13. CASE UNCHANGED vars
    <2>1. UNCHANGED <<meta, chunks, bump, live, op>>
      BY <1>13 DEF vars, inside
    <2>2. \A b, u, n : IsClaim(live', op', b, u, n) => IsClaim(live, op, b, u, n)
      BY <2>1
    <2> QED BY <2>1, <2>2, NoClaims
  <1> QED
    BY <1>1, <1>2, <1>3, <1>4, <1>5, <1>6, <1>7, <1>8, <1>9, <1>10, <1>11, <1>12, <1>13, Zenon
    DEF Next

\* At first nothing is claimed.
LEMMA InitFit == Init => ClaimsFit
  BY DEF Init, ClaimsFit

---------------------------------------------------------------------------
(* The promise of an allocator                                             *)

LiveApart == \A p, q \in live : p # q => ~Promise!Overlap(p, q)

\* Claims that fit are apart, and so are the objects of the program.
LEMMA FitsApart == HeapInv /\ ClaimsFit => LiveApart
  <1> SUFFICES ASSUME HeapInv, ClaimsFit PROVE LiveApart
    OBVIOUS
  <1>1. ASSUME NEW p \in live, NEW q \in live, p # q PROVE ~Promise!Overlap(p, q)
    <2>1. CASE p.block # q.block
      BY <2>1 DEF Promise!Overlap
    <2>2. CASE p.block = q.block
      <3>1. p.at # q.at
        BY <1>1, <2>2, Zenon DEF HeapInv, HeldOnce
      <3>2. IsClaim(live, op, p.block, p.at, p.n) /\ IsClaim(live, op, p.block, q.at, q.n)
        BY <2>2, Zenon DEF IsClaim
      <3>3. p.at \in Nat /\ q.at \in Nat /\ p.n \in Nat /\ q.n \in Nat
        BY <3>2, ClaimIs
      <3>4. p.at < q.at => p.at + p.n <= q.at
        BY <3>2, ClaimsApart
      <3>5. q.at < p.at => q.at + q.n <= p.at
        BY <3>2, ClaimsApart
      <3> QED BY <3>1, <3>3, <3>4, <3>5 DEF Promise!Overlap
    <2> QED BY <2>1, <2>2
  <1> QED BY <1>1 DEF LiveApart

\* An object as the promise sees it.
Seen(o) == [block |-> o.block, at |-> o.at, n |-> o.n, by |-> o.by]
Objects == {Seen(o) : o \in live}

\* The promise sees the place, the length and the owner of an object.
LEMMA SeenIs == \A o, p : Seen(o) = Seen(p) <=> o.block = p.block /\ o.at = p.at /\ o.n = p.n /\ o.by = p.by
  BY DEF Seen

\* An object that comes where no other of the program's is, instead of none
\* or of one.
LEMMA ComesApart ==
  ASSUME HeapInv, LiveApart', NEW new, NEW left, live' = left \cup {new}, left \subseteq live,
         new \notin left
  PROVE  Promise!Apart(Seen(new), {Seen(p) : p \in left})
  <1>1. ASSUME NEW p \in left PROVE ~Promise!Overlap(Seen(new), Seen(p))
    <2>1. ~Promise!Overlap(new, p)
      BY <1>1 DEF LiveApart
    <2> QED BY <2>1 DEF Promise!Overlap, Seen
  <1> QED BY <1>1 DEF Promise!Apart

\* An object that was not there and overlaps none is given.
LEMMA GivesNew ==
  ASSUME HeapInv, LiveApart', NEW new, live' = live \cup {new}, Seen(new) \notin Objects
  PROVE  Promise!Give
  <1>1. new \notin live
    BY DEF Objects
  <1>2. Promise!Apart(Seen(new), Objects)
    BY <1>1, ComesApart DEF Objects
  <1>3. Objects' = Objects \cup {Seen(new)}
    BY DEF Objects
  <1>4. Seen(new) \in Objects' \ Objects
    BY <1>3
  <1> QED BY <1>2, <1>3, <1>4, Zenon DEF Promise!Give, Objects, Seen

\* No two objects look alike to the promise, as no two have one place.
LEMMA Unlike ==
  ASSUME HeapInv, NEW o \in live
  PROVE  {Seen(p) : p \in live \ {o}} = Objects \ {Seen(o)} /\ Seen(o) \in Objects
  <1>1. ASSUME NEW p \in live, Seen(p) = Seen(o) PROVE p = o
    <2>1. p.block = o.block /\ p.at = o.at
      BY <1>1, SeenIs
    <2> QED BY <2>1, Zenon DEF HeapInv, HeldOnce
  <1> QED BY <1>1 DEF Objects

\* An object that takes the place of another, and overlaps none, is moved.
LEMMA MovesOne ==
  ASSUME HeapInv, LiveApart', NEW o \in live, NEW new, live' = (live \ {o}) \cup {new},
         Seen(new) \notin Objects
  PROVE  Promise!Move
  <1> DEFINE left == live \ {o}
  <1>1. new \notin live
    BY DEF Objects
  <1>2. Promise!Apart(Seen(new), {Seen(p) : p \in left})
    BY <1>1, ComesApart
  <1>3. {Seen(p) : p \in left} = Objects \ {Seen(o)} /\ Seen(o) \in Objects
    BY Unlike
  <1>4. Objects' = {Seen(p) : p \in left} \cup {Seen(new)}
    BY DEF Objects
  <1>5. /\ Promise!Apart(Seen(new), Objects \ {Seen(o)})
        /\ Objects' = (Objects \ {Seen(o)}) \cup {Seen(new)} /\ Seen(new) \in Objects' \ Objects
    BY <1>2, <1>3, <1>4
  <1> QED BY <1>3, <1>5, Zenon DEF Promise!Move, Objects, Seen

\* An object that goes is taken back.
LEMMA TakesBack ==
  ASSUME HeapInv, NEW o \in live, live' = live \ {o}
  PROVE  Promise!TakeBack
  <1>1. Objects' = Objects \ {Seen(o)} /\ Seen(o) \in Objects
    BY Unlike DEF Objects
  <1> QED BY <1>1, Zenon DEF Promise!TakeBack, Objects, Seen

\* A step that changes what the program holds returns, frees or resizes.
LEMMA OtherSteps ==
  ASSUME [Next]_vars,
         \A t \in Threads : ~Return(t) /\ ~Free(t) /\ ~Realloc(t)
  PROVE  live' = live
  <1>1. ASSUME NEW t \in Threads,
               \/ Malloc(t) \/ LockList(t) \/ AllocSlot(t) \/ AllocChunk(t) \/ NoChunk(t) \/ MarkFull(t)
               \/ AllocBump(t) \/ NextBlock(t) \/ ListEnds(t)
        PROVE  live' = live
    BY <1>1 DEF Malloc, LockList, AllocSlot, AllocChunk, NoChunk, MarkFull, AllocBump, NextBlock,
       ListEnds, OutsideBlocks
  <1>2. ASSUME NEW t \in Threads,
               \/ GcBlock(t) \/ GcEnds(t) \/ UnlinkReuse(t) \/ ReuseBlock(t) \/ MakeBlock(t)
        PROVE  live' = live
    BY <1>2 DEF GcBlock, GcEnds, UnlinkReuse, ReuseBlock, MakeBlock
  <1>3. ASSUME NEW t \in Threads,
               \/ FreeBig(t) \/ FreeBump(t) \/ FreeSlot(t) \/ FreeChunk(t) \/ ClearFull(t)
               \/ Count(t) \/ SweepLock(t) \/ SweepNext(t)
        PROVE  live' = live
    BY <1>3 DEF FreeBig, FreeBump, FreeSlot, FreeChunk, ClearFull, Count, SweepLock, SweepNext, OutsideBlocks
  <1>4. ASSUME NEW h \in UserHeaps, DestroyHeap(h)
        PROVE  live' = live
    BY <1>4 DEF DestroyHeap
  <1>5. CASE UNCHANGED vars
    BY <1>5 DEF vars
  <1> QED BY <1>1, <1>2, <1>3, <1>4, <1>5, Zenon DEF Next

\* A call that returns gives memory, or moves what it was copied from.
LEMMA ReturnRefines ==
  ASSUME HeapInv, LiveApart', NEW t \in Threads, Return(t)
  PROVE  Promise!Give \/ Promise!Move
  <1> DEFINE new == [block |-> op[t].at, at |-> op[t].mem, n |-> op[t].n, by |-> t, zero |-> op[t].zero,
                     clean |-> Cleared(t) \/ PagesOf(op[t].mem, op[t].n) \cap dirty[op[t].at] = {}]
  <1>1. op[t].pc = "done" /\ live' = (live \ op[t].old) \cup {new}
    BY DEF Return
  <1>2. new.block = op[t].at /\ new.at = op[t].mem
    OBVIOUS
  <1> HIDE DEF new
  <1>3. Holder(op[t]) /\ op[t].pc \in CallLabels
    BY <1>1 DEF Holder, CallLabels
  <1>4. Seen(new) \notin Objects
    <2>1. ASSUME NEW p \in live, Seen(p) = Seen(new) PROVE FALSE
      <3>1. p.block = op[t].at /\ p.at = op[t].mem
        BY <1>2, <2>1, SeenIs
      <3> QED BY <1>3, <3>1, Zenon DEF HeapInv, HeldOnce
    <2> QED BY <2>1 DEF Objects
  <1>5. op[t].old \subseteq live /\ \A p, q \in op[t].old : p = q
    BY <1>3, Zenon DEF HeapInv, OldsOK
  <1>6. CASE op[t].old = {}
    BY <1>1, <1>4, <1>6, GivesNew
  <1>7. CASE op[t].old # {}
    <2>1. PICK o \in op[t].old : TRUE
      BY <1>7
    <2>2. op[t].old = {o} /\ o \in live
      BY <1>5, <2>1
    <2> QED BY <1>1, <1>4, <2>2, MovesOne
  <1> QED BY <1>6, <1>7

\* A realloc done in place moves an object to where it is; another changes
\* none.
LEMMA ReallocRefines ==
  ASSUME HeapInv, LiveApart', NEW t \in Threads, Realloc(t)
  PROVE  Promise!Move \/ live' = live
  <1>1. live' = live \/ \E o \in live, n \in Requests : live' = (live \ {o}) \cup {[o EXCEPT !.n = n]}
    BY DEF Realloc
  <1>2. ASSUME NEW o \in live, NEW n \in Requests, live' = (live \ {o}) \cup {[o EXCEPT !.n = n]}
        PROVE  Promise!Move \/ live' = live
    <2> DEFINE p == [o EXCEPT !.n = n]
    <2>1. o \in ObjectType
      BY Zenon DEF HeapInv, OldsOK
    <2>2. p.block = o.block /\ p.at = o.at /\ p.n = n /\ (n = o.n => p = o)
      BY <2>1 DEF ObjectType
    <2>3. live' = (live \ {o}) \cup {p}
      BY <1>2
    <2> HIDE DEF p
    <2>4. CASE n = o.n
      BY <2>2, <2>3, <2>4
    <2>5. CASE n # o.n
      <3>1. ASSUME NEW q \in live, Seen(q) = Seen(p) PROVE FALSE
        <4>1. q.block = o.block /\ q.at = o.at /\ q.n = n
          BY <2>2, <3>1, SeenIs
        <4>2. q = o
          BY <4>1, Zenon DEF HeapInv, HeldOnce
        <4> QED BY <2>5, <4>1, <4>2
      <3>2. Seen(p) \notin Objects
        BY <3>1 DEF Objects
      <3> QED BY <2>3, <3>2, MovesOne
    <2> QED BY <2>4, <2>5
  <1> QED BY <1>1, <1>2

\* Every step gives, takes back or moves one object, or leaves them alone.
LEMMA StepRefines ==
  HeapInv /\ LiveApart' /\ [Next]_vars
    => [Promise!Give \/ Promise!TakeBack \/ Promise!Move]_Objects
  <1> SUFFICES ASSUME HeapInv, LiveApart', [Next]_vars
               PROVE  Promise!Give \/ Promise!TakeBack \/ Promise!Move \/ live' = live
    BY Zenon DEF Objects
  <1>1. CASE \E t \in Threads : Return(t)
    BY <1>1, ReturnRefines
  <1>2. CASE \E t \in Threads : Realloc(t)
    BY <1>2, ReallocRefines
  <1>3. CASE \E t \in Threads : Free(t)
    BY <1>3, TakesBack DEF Free
  <1> QED BY <1>1, <1>2, <1>3, OtherSteps

\* For every number of threads, heaps, classes and blocks and every layout of
\* a block, a heap gives memory that no object the program holds overlaps,
\* takes back only what it gave, and moves an object only to where no other
\* is (bk_heap_alloc, bk_heap_free and bk_realloc, bkmalloc.h:3438-3555,
\* 3861-3899), as long as no realloc grows an object of bump memory in place.
\* That one exception is needed: bk_malloc_size answers for bump memory with
\* what the whole block has, which the run BkRealloc shows to reach into the
\* next object.
THEOREM HeapsAllocate == Spec /\ [][BumpsStay]_vars => ImplementsAllocator
  <1>1. Init => Promise!Init
    BY DEF Init, Promise!Init
  <1>2. Spec => []HeapInv
    BY HeapInvariant
  <1>3. Init => ClaimsFit
    BY InitFit
  <1>4. [Next]_vars /\ [BumpsStay]_vars => [Next /\ BumpsStay]_vars
    OBVIOUS
  <1>5. HeapInv /\ ClaimsFit /\ [Next /\ BumpsStay]_vars => ClaimsFit'
    BY FitStep
  <1>6. HeapInv /\ ClaimsFit => LiveApart
    BY FitsApart
  <1>7. HeapInv /\ LiveApart' /\ [Next]_vars
          => [Promise!Give \/ Promise!TakeBack \/ Promise!Move]_Objects
    BY StepRefines
  <1> QED BY <1>1, <1>2, <1>3, <1>4, <1>5, <1>6, <1>7, PTL
      DEF Spec, ImplementsAllocator, Promise!Spec, Objects, Seen

---------------------------------------------------------------------------
(* The pages of a calloc                                                   *)

\* The pages of a block of this size that a calloc has dropped: all but the
\* first, which describes the block and which bk_reset_block() clears
\* (bkmalloc.h:2664).
Inner(size) == 1 .. (size \div PageUnits) - 1

\* A retired block that is said to be zero is, but for its first page.
RestClean ==
  \A b \in Pool(reuse_list, op) : meta[b].zero => dirty[b] \cap Inner(meta[b].size) = {}
\* A calloc asks for no alignment.
ClearAsked(x) == x.pc \in CallLabels /\ x.zero => x.al = 1
AskedPlain == \A t \in Threads : ClearAsked(op[t])
\* The block a call prepares is as large as it asked.
TakenFits == \A t \in Threads : op[t].pc = "reuse" => WantedSize(t) <= meta[op[t].at].size
\* A big block that a calloc was given is zero where the object lies.
GivenClean ==
  \A t \in Threads : op[t].pc = "done" /\ op[t].class = Big /\ op[t].zero =>
    dirty[op[t].at] \cap PagesOf(op[t].mem, op[t].n) = {}

CleanInv ==
  /\ OfBlocks(dirty)
  /\ AskedPlain /\ TakenFits /\ RestClean /\ GivenClean /\ CallocClean

\* Pages are only taken away; from the second one on, all of the block's.
LEMMA DecommittedIs ==
  ASSUME NEW D, NEW a, NEW s
  PROVE  /\ Decommitted(D, a, s) \subseteq D
         /\ Decommitted(D, PageUnits, s) \cap Inner(s) = {}
  <1>1. Decommitted(D, a, s) \subseteq D
    BY Zenon DEF Decommitted
  <1>2. PageUnits \in Nat \ {0}
    BY Geometry
  <1>3. PageUnits = 1 * PageUnits + 0 /\ 0 \in 0 .. PageUnits - 1 /\ 1 \in Nat
    BY <1>2
  <1>4. PageUnits % PageUnits = 0 /\ PageUnits \div PageUnits = 1
    <2>1. (1 * PageUnits + 0) \div PageUnits = 1 /\ (1 * PageUnits + 0) % PageUnits = 0
      BY <1>2, <1>3, DivUnique
    <2> QED BY <1>3, <2>1
  <1>5. Decommitted(D, PageUnits, s) = D \ Inner(s)
    BY <1>4, Zenon DEF Decommitted, Inner
  <1> QED BY <1>1, <1>5

\* A calloc's object lies in the first page and those that are dropped, if
\* the block is as large as it asked.
LEMMA CallocFits ==
  ASSUME NEW n \in Nat \ {0}, NEW s \in Nat, BigRequest(n, 1) <= s
  PROVE  PagesOf(BigStart(1), n) \subseteq {0} \cup Inner(s)
  <1> DEFINE P == PageUnits  q == n \div P  k == s \div P
  <1>1. P \in Nat \ {0} /\ BlockUnits \in Nat
    BY Geometry
  <1>2. BigStart(1) = 1
    BY DEF BigStart, AlignUp
  <1>3. /\ q \in Nat /\ k \in Nat
        /\ s = k * P + (s % P) /\ s % P \in 0 .. P - 1
    BY <1>1, DivMod
  <1>4. AlignUp(n, P) = (q + 1) * P
    BY DEF AlignUp
  <1>5. (q + 1) * P + P + P + 1 <= s
    <2> DEFINE a == (q + 1) * P
    <2>1. a \in Nat
      BY <1>1, <1>3
    <2>2. BigRequest(n, 1) = IF P + (a + P) + 1 > BlockUnits THEN P + (a + P) + 1 ELSE BlockUnits
      BY <1>4 DEF BigRequest
    <2> HIDE DEF a, P
    <2>3. a + P + P + 1 <= s
      BY <1>1, <2>1, <2>2
    <2> QED BY <2>3 DEF a
  <1>6. PagesOf(BigStart(1), n) = (1 \div P) .. q
    <2>1. 1 + n - 1 = n
      OBVIOUS
    <2> QED BY <1>2, <2>1, Zenon DEF PagesOf
  <1>7. 1 \div P \in Nat
    BY <1>1, DivMod
  <1> HIDE DEF q, k, P
  <1>8. q <= k - 1
    <2>1. SUFFICES ASSUME k <= q PROVE FALSE
      BY <1>3
    <2>2. k * P <= q * P
      BY <1>1, <1>3, <2>1, SMT
    <2>3. (q + 1) * P = q * P + P /\ q * P \in Nat /\ k * P \in Nat
      BY <1>1, <1>3, SMT
    <2> QED BY <1>1, <1>3, <1>5, <2>2, <2>3, SMT
  <1>9. Inner(s) = 1 .. k - 1
    BY DEF Inner, k, P
  <1> QED BY <1>3, <1>6, <1>7, <1>8, <1>9

\* A block of which something is held, or that is on a list, is not retired
\* nor being prepared.
LEMMA InUseNotRetired ==
  ASSUME HeapInv, NEW b, Addrs(live, op, b) # {} \/ Listed(block_lists, b)
  PROVE  b \notin Pool(reuse_list, op)
  <1>1. ~Retired(reuse_list, b)
    <2>1. CASE Addrs(live, op, b) # {}
      BY <2>1, NoneHeld, Zenon DEF Used
    <2>2. CASE Listed(block_lists, b)
      BY <2>2, Zenon DEF HeapInv, Lists, Listed
    <2> QED BY <2>1, <2>2
  <1>2. ASSUME NEW u \in Threads, op[u].pc = "reuse", op[u].at = b PROVE FALSE
    BY <1>2, ReuseIs, Zenon
  <1> QED BY <1>1, <1>2, Zenon DEF Pool

\* Who has an object of a block.
LEMMA HoldersHold ==
  ASSUME HeapInv
  PROVE  /\ \A o \in live : o.at \in Addrs(live, op, o.block) /\ o.block \in Blocks /\ o \in ObjectType
         /\ \A t \in Threads : Holder(op[t]) =>
              op[t].mem \in Addrs(live, op, op[t].at) /\ op[t].at \in Blocks
  <1>1. live \subseteq ObjectType
    BY Zenon DEF HeapInv, OldsOK
  <1>2. \A o \in live : o.at \in Addrs(live, op, o.block) /\ o.block \in Blocks /\ o \in ObjectType
    BY <1>1, InAddrs DEF ObjectType
  <1>3. \A t \in Threads : Holder(op[t]) => op[t].mem \in Addrs(live, op, op[t].at)
    BY InAddrs
  <1>4. \A t \in Threads : Holder(op[t]) => op[t].at \in Blocks
    BY OpOf DEF Shape
  <1> QED BY <1>2, <1>3, <1>4

\* A big block is one holder's.
LEMMA BigAlone ==
  ASSUME HeapInv, NEW t \in Threads, Holder(op[t]), op[t].class = Big
  PROVE  /\ ~Listed(block_lists, op[t].at) /\ meta[op[t].at].class = Big
         /\ \A o \in live : o.block # op[t].at
         /\ \A u \in Threads : u # t /\ Holder(op[u]) => op[u].at # op[t].at
         /\ \A u \in Threads : op[u].pc \in WalkLabels => op[u].at # op[t].at
  <1> DEFINE b == op[t].at
  <1>i. /\ Lists(meta, block_lists, reuse_list) /\ AllPlaced(live, op, meta, block_lists, reuse_list)
        /\ HeldOnce(live, op) /\ Contents(meta, slots, chunks, bump, live, op)
    BY Zenon DEF HeapInv
  <1>1. Used(meta, block_lists, reuse_list, b) /\ meta[b].class = Big
    BY <1>i, Zenon DEF AllPlaced, Placed
  <1>2. b \in Blocks /\ op[t].mem \in Addrs(live, op, b)
    BY HoldersHold
  <1>3. meta[b] # None
    BY <1>1, <1>2, UsedIs
  <1>4. \A u, v \in Addrs(live, op, b) : u = v
    <2>1. BlockOK(meta[b], slots[b], chunks[b], bump[b], Addrs(live, op, b))
      BY <1>i, <1>2, Zenon DEF Contents
    <2> QED BY <1>1, <1>3, <2>1, Zenon DEF BlockOK
  <1>5. ~Listed(block_lists, b)
    <2>1. ASSUME NEW g \in Heaps, NEW c \in Classes, b \in Range(block_lists[g][c]) PROVE FALSE
      <3>1. meta[b].class = c /\ c # Big
        BY <1>i, <2>1, ListFacts, Sizes
      <3> QED BY <1>1, <3>1
    <2> QED BY <2>1 DEF Listed
  <1>6. ASSUME NEW o \in live, o.block = b PROVE FALSE
    <2>1. o.at = op[t].mem
      BY <1>2, <1>4, <1>6, HoldersHold
    <2> QED BY <1>i, <1>6, <2>1, Zenon DEF HeldOnce
  <1>7. ASSUME NEW u \in Threads, u # t, Holder(op[u]), op[u].at = b PROVE FALSE
    <2>1. op[u].mem = op[t].mem
      BY <1>2, <1>4, <1>7, HoldersHold
    <2> QED BY <1>i, <1>7, <2>1, Zenon DEF HeldOnce
  <1>8. ASSUME NEW u \in Threads, op[u].pc \in WalkLabels, op[u].at = b PROVE FALSE
    <2>1. op[u].at # None
      BY <1>2, <1>8, NoneIsNoBlock
    <2> QED BY <1>5, <1>8, <2>1, AtBlock, Zenon
  <1> QED BY <1>1, <1>5, <1>6, <1>7, <1>8

\* The change of one call: it goes on with what it was asked, or is over, ...
CallGoes(t) ==
  /\ Others(op, op', t)
  /\ op'[t].pc \in CallLabels => op[t].pc \in CallLabels /\ SameCall(op[t], op'[t])
\* ... or begins, and a calloc asks for no alignment.
PlainCall(t) == Others(op, op', t) /\ op'[t].pc \notin {"reuse", "done"} /\ ClearAsked(op'[t])

\* A call that walks, collects or takes goes on with what it was asked.
LEMMA WalkCallGoes ==
  ASSUME HeapInv, NEW t \in Threads,
         \/ LockList(t) \/ NoChunk(t) \/ MarkFull(t) \/ NextBlock(t) \/ ListEnds(t) \/ GcEnds(t)
         \/ AllocSlot(t) \/ AllocChunk(t) \/ AllocBump(t) \/ GcBlock(t)
         \/ UnlinkReuse(t) \/ ReuseBlock(t) \/ MakeBlock(t)
  PROVE  CallGoes(t)
  <1>1. op[t].pc \in {"lock", "walk", "full", "bump", "gc", "sweep", "get", "reuse"}
    BY DEF LockList, NoChunk, MarkFull, NextBlock, ListEnds, GcEnds, AtBump, At, AllocSlot, AllocChunk,
       AllocBump, GcBlock, UnlinkReuse, ReuseBlock, MakeBlock
  <1>2. /\ op \in [Threads -> OpType]
        /\ \/ op[t] \in CallType /\ op[t].pc \in CallLabels
           \/ op[t] \in FreeType /\ op[t].pc = "sweep"
    <2>1. op[t].pc \in CallLabels \/ (op[t].pc = "sweep" /\ op[t].pc \in FreeLabels)
      BY <1>1 DEF CallLabels, FreeLabels
    <2> QED BY <2>1, OpOf
  <1> DEFINE Form(p, a, v) ==
               \/ op' = [op EXCEPT ![t].pc = p, ![t].at = a, ![t].mem = v]
               \/ op' = [op EXCEPT ![t].pc = p, ![t].at = a]
               \/ op' = [op EXCEPT ![t].pc = p, ![t].mem = v]
               \/ op' = [op EXCEPT ![t].pc = p]
             Moved(a) == op' = [op EXCEPT ![t].at = a]
  <1>3. (op[t].pc # "sweep" /\ \E p, a, v : Form(p, a, v)) \/ \E a : Moved(a)
    <2>1. CASE LockList(t) \/ NextBlock(t) \/ UnlinkReuse(t)
      <3>1. op[t].pc # "sweep"
        BY <2>1 DEF LockList, NextBlock, UnlinkReuse, AtBump, At
      <3>2. \E p, a : op' = [op EXCEPT ![t].pc = p, ![t].at = a]
        BY <2>1, Zenon DEF LockList, NextBlock, UnlinkReuse
      <3> QED BY <3>1, <3>2, Zenon
    <2>2. CASE NoChunk(t) \/ MarkFull(t) \/ GcEnds(t)
      <3>1. op[t].pc # "sweep"
        BY <2>2 DEF NoChunk, MarkFull, GcEnds, At
      <3>2. \E p : op' = [op EXCEPT ![t].pc = p]
        BY <2>2, Zenon DEF NoChunk, MarkFull, GcEnds, Goto
      <3> QED BY <3>1, <3>2, Zenon
    <2>3. CASE ListEnds(t)
      <3>1. op[t].pc # "sweep"
        BY <2>3 DEF ListEnds
      <3>2. \/ \E p, a : op' = [op EXCEPT ![t].pc = p, ![t].at = a]
            \/ \E p : op' = [op EXCEPT ![t].pc = p]
        BY <2>3, Zenon DEF ListEnds
      <3> QED BY <3>1, <3>2, Zenon
    <2>4. CASE AllocSlot(t) \/ AllocChunk(t) \/ AllocBump(t)
      <3>1. op[t].pc # "sweep"
        BY <2>4 DEF AllocSlot, AllocChunk, AllocBump, AtBump, At
      <3>2. \E v : Got(t, v)
        BY <2>4 DEF AllocSlot, AllocChunk, AllocBump
      <3> QED BY <3>1, <3>2, Zenon DEF Got
    <2>5. CASE GcBlock(t)
      BY <2>5, Zenon DEF GcBlock
    <2>6. CASE ReuseBlock(t) \/ MakeBlock(t)
      <3>1. op[t].pc # "sweep" /\ \E b : AddBlock(t, b)
        BY <2>6 DEF ReuseBlock, MakeBlock
      <3>2. \/ \E p, a, v : op' = [op EXCEPT ![t].pc = p, ![t].at = a, ![t].mem = v]
            \/ \E p, a : op' = [op EXCEPT ![t].pc = p, ![t].at = a]
        BY <3>1, Zenon DEF AddBlock
      <3>3. ASSUME NEW p, NEW a, NEW v, op' = [op EXCEPT ![t].pc = p, ![t].at = a, ![t].mem = v]
            PROVE  Form(p, a, v)
        BY <3>3, Zenon
      <3>4. ASSUME NEW p, NEW a, op' = [op EXCEPT ![t].pc = p, ![t].at = a]
            PROVE  Form(p, a, a)
        BY <3>4, Zenon
      <3> HIDE DEF Form
      <3> QED BY <3>1, <3>2, <3>3, <3>4, Zenon
    <2> QED BY <2>1, <2>2, <2>3, <2>4, <2>5, <2>6
  <1>4. ASSUME NEW p, NEW a, NEW v, op[t] \in CallType, Form(p, a, v) \/ Moved(a)
        PROVE  Others(op, op', t) /\ SameCall(op[t], op'[t])
    BY <1>2, <1>4 DEF Others, SameCall, CallType
  <1>5. ASSUME NEW a, op[t] \in FreeType, op[t].pc = "sweep", Moved(a)
        PROVE  Others(op, op', t) /\ op'[t].pc = "sweep"
    BY <1>2, <1>5 DEF Others, FreeType
  <1> HIDE DEF Form, Moved
  <1>6. CASE op[t] \in CallType /\ op[t].pc \in CallLabels
    <2>1. Others(op, op', t) /\ SameCall(op[t], op'[t])
      BY <1>3, <1>4, <1>6, Zenon
    <2> QED BY <1>6, <2>1 DEF CallGoes
  <1>7. CASE op[t] \in FreeType /\ op[t].pc = "sweep"
    <2>1. \E a : Moved(a)
      BY <1>3, <1>7
    <2>2. Others(op, op', t) /\ op'[t].pc = "sweep"
      BY <1>5, <1>7, <2>1
    <2> QED BY <2>2 DEF CallGoes, CallLabels
  <1> QED BY <1>2, <1>6, <1>7

\* A call that returns is over.
LEMMA BackCallGoes ==
  ASSUME HeapInv, NEW t \in Threads,
         \/ Return(t) \/ FreeBump(t) \/ FreeSlot(t) \/ FreeChunk(t) \/ ClearFull(t)
         \/ Count(t) \/ SweepLock(t) \/ SweepNext(t) \/ FreeBig(t)
  PROVE  Others(op, op', t) /\ op'[t].pc \notin CallLabels
  <1>1. op[t].pc \in {"done", "free", "unfull", "count", "sweeplock", "sweep"}
    BY DEF Return, FreeBump, FreeSlot, FreeChunk, ClearFull, Count, SweepLock, SweepNext, Freeing, FreeBig
  <1>2. op \in [Threads -> OpType] /\ (op[t] \in CallType \/ op[t] \in FreeType)
    BY <1>1, OpOf DEF CallLabels, FreeLabels
  <1>3. CASE Return(t) \/ FreeBig(t)
    <2>1. PICK x : op' = [op EXCEPT ![t] = x] /\ x.pc \in {"idle", "free"}
      <3>1. CASE Return(t)
        <4> DEFINE x == IF op[t].old = {} THEN Idle ELSE FreeOf(CHOOSE o \in op[t].old : TRUE)
        <4>1. op' = [op EXCEPT ![t] = x]
          BY <3>1 DEF Return, Set
        <4>2. x.pc \in {"idle", "free"}
          BY DEF Idle, FreeOf
        <4> QED BY <4>1, <4>2
      <3>2. CASE FreeBig(t)
        <4>1. op' = [op EXCEPT ![t] = Idle] /\ Idle.pc = "idle"
          BY <3>2 DEF FreeBig, Set, Idle
        <4> QED BY <4>1
      <3> QED BY <1>3, <3>1, <3>2
    <2>2. Others(op, op', t) /\ op'[t] = x
      BY <1>2, <2>1 DEF Others
    <2> QED BY <2>1, <2>2 DEF CallLabels
  <1>4. CASE FreeBump(t) \/ FreeSlot(t) \/ ClearFull(t)
    <2>1. AfterFree(t) /\ op[t].pc \in FreeLabels
      BY <1>4 DEF FreeBump, FreeSlot, ClearFull, Freeing, FreeLabels
    <2>2. Others(op, op', t) /\ op'[t].pc \in {"idle", "count"}
      BY <2>1, AfterFreeGoes
    <2> QED BY <2>2 DEF CallLabels
  <1>5. CASE FreeChunk(t)
    <2>1. op' = [op EXCEPT ![t].pc = "unfull"]
      BY <1>5 DEF FreeChunk, Goto
    <2> QED BY <1>2, <2>1 DEF Others, CallType, FreeType, CallLabels
  <1>6. CASE Count(t) \/ SweepNext(t)
    <2>1. \/ \E u : op' = [op EXCEPT ![t].pc = "sweeplock", ![t].class = u]
          \/ op' = [op EXCEPT ![t] = Idle]
      BY <1>6 DEF Count, SweepNext, Set
    <2>2. ASSUME NEW u, op' = [op EXCEPT ![t].pc = "sweeplock", ![t].class = u]
          PROVE  Others(op, op', t) /\ op'[t].pc = "sweeplock"
      BY <1>2, <2>2 DEF Others, CallType, FreeType
    <2>3. CASE op' = [op EXCEPT ![t] = Idle]
      <3>1. Idle.pc = "idle"
        BY DEF Idle
      <3> QED BY <1>2, <2>3, <3>1 DEF Others, CallLabels
    <2> QED BY <2>1, <2>2, <2>3 DEF CallLabels
  <1>7. CASE SweepLock(t)
    <2>1. PICK u : op' = [op EXCEPT ![t].pc = "sweep", ![t].at = u]
      BY <1>7 DEF SweepLock
    <2> QED BY <1>2, <2>1 DEF Others, CallType, FreeType, CallLabels
  <1> QED BY <1>3, <1>4, <1>5, <1>6, <1>7

\* A calloc begins with no alignment, a realloc is no calloc.
LEMMA BeginsPlain ==
  ASSUME HeapInv, AskedPlain, NEW t \in Threads, Malloc(t) \/ Realloc(t) \/ Free(t)
  PROVE  PlainCall(t) /\ op[t].pc = "idle"
  <1>1. Others(op, op', t) /\ op[t].pc = "idle" /\ op'[t].pc \notin {"reuse", "done"}
    BY MallocGoes
  <1>2. op \in [Threads -> OpType]
    BY OpOf
  <1>3. ASSUME NEW n, NEW al, NEW zero, NEW old, Begin(t, n, al, zero, old), zero => al = 1
        PROVE  ClearAsked(op'[t])
    <2>1. PICK p, h, c : op' = Set(op, t, [pc |-> p, heap |-> h, class |-> c, n |-> n, al |-> al,
                                           zero |-> zero, at |-> None, mem |-> 0, old |-> old])
      <3> DEFINE big == NeedsBig(n, zero, BigZero)
                 X(h) == [pc |-> IF big THEN "get" ELSE "lock", heap |-> h,
                          class |-> IF big THEN Big ELSE ClassOf(n), n |-> n, al |-> al,
                          zero |-> zero, at |-> None, mem |-> 0, old |-> old]
      <3>1. PICK h \in Heaps : op' = Set(op, t, X(h))
        BY <1>3 DEF Begin
      <3> QED BY <3>1
    <2> DEFINE x == [pc |-> p, heap |-> h, class |-> c, n |-> n, al |-> al,
                     zero |-> zero, at |-> None, mem |-> 0, old |-> old]
    <2>2. x.zero = zero /\ x.al = al
      OBVIOUS
    <2>3. op' = Set(op, t, x)
      BY <2>1
    <2> HIDE DEF x
    <2>4. op'[t] = x
      BY <1>2, <2>3 DEF Set
    <2> QED BY <1>3, <2>2, <2>4 DEF ClearAsked
  <1>4. CASE Malloc(t)
    <2>1. PICK n \in Requests, al \in Aligns, zero \in BOOLEAN :
            (zero => al = 1) /\ Begin(t, n, al, zero, {})
      BY <1>4 DEF Malloc
    <2> QED BY <1>1, <1>3, <2>1 DEF PlainCall
  <1>5. CASE Realloc(t)
    <2>1. op' = op \/ \E n, o : Begin(t, n, 1, FALSE, {o})
      BY <1>5 DEF Realloc
    <2>2. op' = op => ClearAsked(op'[t])
      BY DEF AskedPlain
    <2> QED BY <1>1, <1>3, <2>1, <2>2 DEF PlainCall
  <1>6. CASE Free(t)
    <2>1. PICK o \in live : op' = Set(op, t, FreeOf(o))
      BY <1>6 DEF Free
    <2> DEFINE x == FreeOf(o)
    <2>2. op' = Set(op, t, x) /\ x.pc = "free"
      BY <2>1 DEF FreeOf
    <2> HIDE DEF x
    <2>3. op'[t].pc = "free"
      BY <1>2, <2>2 DEF Set
    <2> QED BY <1>1, <2>3 DEF PlainCall, ClearAsked, CallLabels
  <1> QED BY <1>1, <1>4, <1>5, <1>6

LEMMA AskedStep ==
  ASSUME HeapInv, AskedPlain, NEW t \in Threads,
         \/ CallGoes(t) \/ PlainCall(t) \/ (Others(op, op', t) /\ op'[t].pc \notin CallLabels)
  PROVE  AskedPlain'
  <1>1. \A u \in Threads : u # t => op'[u] = op[u]
    BY DEF CallGoes, PlainCall, Others
  <1>2. ClearAsked(op'[t])
    <2>1. CASE CallGoes(t)
      BY <2>1 DEF CallGoes, SameCall, AskedPlain, ClearAsked
    <2>2. CASE PlainCall(t)
      BY <2>2 DEF PlainCall
    <2>3. CASE op'[t].pc \notin CallLabels
      BY <2>3 DEF ClearAsked
    <2> QED BY <2>1, <2>2, <2>3
  <1>3. ASSUME NEW u \in Threads PROVE ClearAsked(op'[u])
    BY <1>1, <1>2 DEF AskedPlain
  <1> QED BY <1>3, Zenon DEF AskedPlain

\* What the blocks hold for reuse stays clean when they stay as they are.
LEMMA RestKept ==
  ASSUME RestClean, UNCHANGED <<meta, reuse_list>>, SameReusers(op, op'),
         \A b \in Pool(reuse_list, op) : dirty'[b] = dirty[b]
  PROVE  RestClean'
  <1>1. Pool(reuse_list', op') = Pool(reuse_list, op) /\ meta' = meta
    BY SamePool
  <1>2. \A b \in Pool(reuse_list', op') : meta'[b].zero => dirty'[b] \cap Inner(meta'[b].size) = {}
    BY <1>1 DEF RestClean
  <1> QED BY <1>2, Zenon DEF RestClean

\* A block being prepared stays as large as it is.
LEMMA TakenKept ==
  ASSUME TakenFits, NEW t \in Threads, Others(op, op', t), op'[t].pc # "reuse",
         \A u \in Threads : u # t /\ op[u].pc = "reuse" => meta'[op[u].at] = meta[op[u].at]
  PROVE  TakenFits'
  <1>1. ASSUME NEW u \in Threads, op'[u].pc = "reuse"
        PROVE  WantedSize(u)' <= meta'[op'[u].at].size
    <2>1. u # t /\ op'[u] = op[u]
      BY <1>1 DEF Others
    <2>2. WantedSize(u)' = WantedSize(u)
      BY <2>1 DEF WantedSize
    <2>3. WantedSize(u) <= meta[op[u].at].size
      BY <1>1, <2>1 DEF TakenFits
    <2> QED BY <1>1, <2>1, <2>2, <2>3
  <1> QED BY <1>1 DEF TakenFits

\* What a calloc was given stays clean while nobody else writes there.
LEMMA GivenKept ==
  ASSUME GivenClean, NEW t \in Threads, Others(op, op', t),
         op'[t].pc = "done" /\ op'[t].class = Big /\ op'[t].zero =>
           dirty'[op'[t].at] \cap PagesOf(op'[t].mem, op'[t].n) = {},
         \A u \in Threads : u # t /\ op[u].pc = "done" /\ op[u].class = Big =>
           dirty'[op[u].at] \subseteq dirty[op[u].at]
  PROVE  GivenClean'
  <1>1. ASSUME NEW u \in Threads, u # t, op'[u].pc = "done", op'[u].class = Big, op'[u].zero
        PROVE  dirty'[op'[u].at] \cap PagesOf(op'[u].mem, op'[u].n) = {}
    <2>1. op'[u] = op[u]
      BY <1>1 DEF Others
    <2>2. dirty[op[u].at] \cap PagesOf(op[u].mem, op[u].n) = {}
      BY <1>1, <2>1 DEF GivenClean
    <2>3. dirty'[op[u].at] \subseteq dirty[op[u].at]
      BY <1>1, <2>1
    <2> QED BY <2>1, <2>2, <2>3
  <1>2. \A u \in Threads : op'[u].pc = "done" /\ op'[u].class = Big /\ op'[u].zero =>
          dirty'[op'[u].at] \cap PagesOf(op'[u].mem, op'[u].n) = {}
    BY <1>1
  <1> QED BY <1>2, Zenon DEF GivenClean

\* An object is what it was.
LEMMA ObjectsKept ==
  ASSUME CallocClean, \A o \in live' : o \in live /\ meta'[o.block] = meta[o.block]
  PROVE  CallocClean'
  <1>1. ASSUME NEW o \in live', o.zero, ~IsBump(meta'[o.block].class, o.at),
               ~IsChunk(meta'[o.block].class, o.at)
        PROVE  o.clean
    BY <1>1 DEF CallocClean
  <1> QED BY <1>1, Zenon DEF CallocClean

\* A block that a step may write to is in use.
WritesTo(t, b) ==
  \/ op[t].pc \in WalkLabels /\ op[t].at = b /\ b # None
  \/ Holder(op[t]) /\ op[t].at = b
  \/ op[t].pc = "idle" /\ \E o \in live : o.block = b

LEMMA WrittenInUse ==
  ASSUME HeapInv, NEW t \in Threads, NEW b, WritesTo(t, b)
  PROVE  /\ b \notin Pool(reuse_list, op)
         /\ \A u \in Threads : u # t /\ op[u].pc = "done" /\ op[u].class = Big => op[u].at # b
  <1>1. b \notin Pool(reuse_list, op)
    <2>1. CASE op[t].pc \in WalkLabels /\ op[t].at = b /\ b # None
      <3>1. Listed(block_lists, b)
        BY <2>1, AtBlock, Zenon
      <3> QED BY <3>1, InUseNotRetired
    <2>2. CASE Holder(op[t]) /\ op[t].at = b
      <3>1. Addrs(live, op, b) # {}
        BY <2>2, HoldersHold
      <3> QED BY <3>1, InUseNotRetired
    <2>3. CASE \E o \in live : o.block = b
      <3>1. Addrs(live, op, b) # {}
        BY <2>3, HoldersHold
      <3> QED BY <3>1, InUseNotRetired
    <2> QED BY <2>1, <2>2, <2>3 DEF WritesTo
  <1>2. ASSUME NEW u \in Threads, u # t, op[u].pc = "done", op[u].class = Big, op[u].at = b
        PROVE  FALSE
    <2>1. Holder(op[u])
      BY <1>2 DEF Holder
    <2> QED BY <1>2, <2>1, BigAlone, Zenon DEF WritesTo
  <1> QED BY <1>1, <1>2

\* A step that leaves the blocks and the lists for reuse as they are, and
\* writes to a block in use if to any.
LEMMA CleanQuiet ==
  ASSUME HeapInv, CleanInv, NEW t \in Threads, Others(op, op', t), UNCHANGED <<meta, reuse_list>>,
         op[t].pc # "reuse", op'[t].pc # "reuse", op'[t].pc = "done" => op'[t].class # Big,
         \/ dirty' = dirty
         \/ \E b, D : WritesTo(t, b) /\ dirty' = [dirty EXCEPT ![b] = D],
         AskedPlain', CallocClean'
  PROVE  CleanInv'
  <1>1. dirty = [b \in Blocks |-> dirty[b]]
    BY Zenon DEF CleanInv, OfBlocks
  <1>2. /\ dirty' = [b \in Blocks |-> dirty'[b]]
        /\ \A b \in Pool(reuse_list, op) : dirty'[b] = dirty[b]
        /\ \A u \in Threads : u # t /\ op[u].pc = "done" /\ op[u].class = Big =>
             dirty'[op[u].at] = dirty[op[u].at]
    <2>1. CASE dirty' = dirty
      BY <1>1, <2>1
    <2>2. ASSUME NEW b, NEW D, WritesTo(t, b), dirty' = [dirty EXCEPT ![b] = D]
          PROVE  /\ dirty' = [x \in Blocks |-> dirty'[x]]
                 /\ \A x \in Blocks : x # b => dirty'[x] = dirty[x]
      BY <1>1, <2>2
    <2>3. ASSUME NEW b, NEW D, WritesTo(t, b), dirty' = [dirty EXCEPT ![b] = D]
          PROVE  /\ \A x \in Pool(reuse_list, op) : x # b /\ x \in Blocks
                 /\ \A u \in Threads : u # t /\ op[u].pc = "done" /\ op[u].class = Big =>
                      op[u].at # b /\ op[u].at \in Blocks
      <3>1. \A u \in Threads : op[u].pc = "done" => op[u].at \in Blocks
        BY HoldersHold DEF Holder
      <3> QED BY <2>3, <3>1, WrittenInUse DEF Pool
    <2>4. CASE \E b, D : WritesTo(t, b) /\ dirty' = [dirty EXCEPT ![b] = D]
      <3>1. PICK b, D : WritesTo(t, b) /\ dirty' = [dirty EXCEPT ![b] = D]
        BY <2>4
      <3>2. dirty' = [x \in Blocks |-> dirty'[x]] /\ \A x \in Blocks : x # b => dirty'[x] = dirty[x]
        BY <2>2, <3>1
      <3>3. /\ \A x \in Pool(reuse_list, op) : x # b /\ x \in Blocks
            /\ \A u \in Threads : u # t /\ op[u].pc = "done" /\ op[u].class = Big =>
                 op[u].at # b /\ op[u].at \in Blocks
        BY <2>3, <3>1
      <3> QED BY <3>2, <3>3, Zenon
    <2> QED BY <2>1, <2>4, Zenon
  <1>3. SameReusers(op, op')
    BY Zenon DEF SameReusers, Others
  <1>4. RestClean' /\ TakenFits' /\ GivenClean'
    BY <1>2, <1>3, RestKept, TakenKept, GivenKept DEF CleanInv
  <1>5. OfBlocks(dirty')
    BY <1>2, Zenon DEF OfBlocks
  <1> QED BY <1>4, <1>5, Zenon DEF CleanInv

\* A call begins, or an object grows or is freed.
LEMMA BeginClean ==
  ASSUME HeapInv, CleanInv, NEW t \in Threads, Malloc(t) \/ Realloc(t) \/ Free(t)
  PROVE  CleanInv'
  <1>1. PlainCall(t) /\ op[t].pc = "idle"
    BY BeginsPlain, Zenon DEF CleanInv
  <1>2. AskedPlain' /\ Others(op, op', t) /\ op'[t].pc \notin {"reuse", "done"} /\ op[t].pc # "reuse"
    BY <1>1, AskedStep DEF CleanInv, PlainCall
  <1>3. UNCHANGED <<meta, reuse_list>>
    BY DEF Malloc, Realloc, Free, inside, reuse
  <1>4. CASE live' \subseteq live /\ dirty' = dirty
    <2>1. CallocClean'
      BY <1>3, <1>4, ObjectsKept DEF CleanInv
    <2> QED BY <1>2, <1>3, <1>4, <2>1, CleanQuiet
  <1>5. CASE \E o \in live, n \in Requests :
               /\ live' = (live \ {o}) \cup {[o EXCEPT !.n = n]}
               /\ dirty' = [dirty EXCEPT ![o.block] = @ \cup PagesOf(o.at, n)]
    <2>1. PICK o \in live, n \in Requests :
               /\ live' = (live \ {o}) \cup {[o EXCEPT !.n = n]}
               /\ dirty' = [dirty EXCEPT ![o.block] = @ \cup PagesOf(o.at, n)]
      BY <1>5
    <2> DEFINE r == [o EXCEPT !.n = n]
    <2>2. o \in ObjectType
      BY HoldersHold
    <2>3. r.block = o.block /\ r.at = o.at /\ r.zero = o.zero /\ r.clean = o.clean
      BY <2>2 DEF ObjectType
    <2> HIDE DEF r
    <2>4. ASSUME NEW p \in live', p.zero, ~IsBump(meta[p.block].class, p.at),
                 ~IsChunk(meta[p.block].class, p.at)
          PROVE  p.clean
      <3>1. p \in live \/ p = r
        BY <2>1 DEF r
      <3>2. \A q \in live : q.zero /\ ~IsBump(meta[q.block].class, q.at)
                              /\ ~IsChunk(meta[q.block].class, q.at) => q.clean
        BY Zenon DEF CleanInv, CallocClean
      <3>3. CASE p \in live
        BY <2>4, <3>2, <3>3
      <3>4. CASE p = r
        <4>1. o.zero /\ ~IsBump(meta[o.block].class, o.at) /\ ~IsChunk(meta[o.block].class, o.at)
          BY <2>3, <2>4, <3>4
        <4> QED BY <2>3, <3>2, <3>4, <4>1
      <3> QED BY <3>1, <3>3, <3>4
    <2>5. CallocClean'
      BY <1>3, <2>4 DEF CallocClean
    <2>6. WritesTo(t, o.block)
      BY <1>1, Zenon DEF WritesTo
    <2>7. \E b, D : WritesTo(t, b) /\ dirty' = [dirty EXCEPT ![b] = D]
      BY <2>1, <2>6
    <2> QED BY <1>2, <1>3, <2>5, <2>7, CleanQuiet
  <1>6. \/ live' \subseteq live /\ dirty' = dirty
        \/ \E o \in live, n \in Requests :
               /\ live' = (live \ {o}) \cup {[o EXCEPT !.n = n]}
               /\ dirty' = [dirty EXCEPT ![o.block] = @ \cup PagesOf(o.at, n)]
    BY DEF Malloc, Realloc, Free, inside
  <1> QED BY <1>4, <1>5, <1>6

\* A call walks and takes memory.
LEMMA WalkClean ==
  ASSUME HeapInv, CleanInv, NEW t \in Threads,
         \/ LockList(t) \/ NoChunk(t) \/ MarkFull(t) \/ NextBlock(t) \/ ListEnds(t) \/ GcEnds(t)
         \/ AllocSlot(t) \/ AllocChunk(t) \/ AllocBump(t)
  PROVE  CleanInv'
  <1>1. CallGoes(t)
    BY WalkCallGoes
  <1>2. AskedPlain' /\ Others(op, op', t)
    BY <1>1, AskedStep DEF CleanInv, CallGoes
  <1>3. UNCHANGED <<meta, reuse_list, live>>
    BY DEF LockList, NoChunk, MarkFull, NextBlock, ListEnds, GcEnds, AllocSlot, AllocChunk, AllocBump,
       OutsideBlocks, inside, reuse
  <1>4. CallocClean'
    BY <1>3, ObjectsKept DEF CleanInv
  <1>5. CASE \/ LockList(t) \/ NoChunk(t) \/ MarkFull(t) \/ NextBlock(t) \/ ListEnds(t) \/ GcEnds(t)
    <2>1. op[t].pc # "reuse" /\ op'[t].pc \notin {"reuse", "done"}
      BY <1>5, WalkGoes
    <2>2. dirty' = dirty
      BY <1>5 DEF LockList, NoChunk, MarkFull, NextBlock, ListEnds, GcEnds, inside
    <2> QED BY <1>2, <1>3, <1>4, <2>1, <2>2, CleanQuiet
  <1>6. CASE AllocSlot(t) \/ AllocChunk(t) \/ AllocBump(t)
    <2>1. op[t].pc \in {"walk", "bump"} /\ op[t].at # None /\ \E v : Got(t, v)
      BY <1>6 DEF AllocSlot, AllocChunk, AllocBump, AtBump, At
    <2>2. op[t].pc \in WalkLabels /\ op[t].pc \in CallLabels /\ op[t].pc # "reuse"
      BY <2>1 DEF WalkLabels, CallLabels
    <2>3. op'[t].pc = "done"
      BY <2>1, <2>2, GotGoes
    <2>4. op'[t].class # Big
      <3>1. op[t].class \in Classes
        BY <2>1, <2>2, AtBlock
      <3>2. op'[t].class = op[t].class
        BY <1>1, <2>3 DEF CallGoes, SameCall, CallLabels
      <3> QED BY <3>1, <3>2, Sizes
    <2>5. dirty' = dirty \/ \E D : dirty' = [dirty EXCEPT ![op[t].at] = D]
      BY <1>6 DEF AllocSlot, AllocChunk, AllocBump
    <2>6. WritesTo(t, op[t].at)
      BY <2>1, <2>2 DEF WritesTo
    <2>7. \/ dirty' = dirty
          \/ \E b, D : WritesTo(t, b) /\ dirty' = [dirty EXCEPT ![b] = D]
      BY <2>5, <2>6, Zenon
    <2> QED BY <1>2, <1>3, <1>4, <2>2, <2>3, <2>4, <2>7, CleanQuiet
  <1> QED BY <1>5, <1>6

\* Memory is given back.
LEMMA FreeClean ==
  ASSUME HeapInv, CleanInv, NEW t \in Threads,
         \/ FreeBump(t) \/ FreeSlot(t) \/ FreeChunk(t) \/ ClearFull(t)
         \/ Count(t) \/ SweepLock(t) \/ SweepNext(t)
  PROVE  CleanInv'
  <1>1. Others(op, op', t) /\ op'[t].pc \notin CallLabels /\ op[t].pc # "reuse"
    BY BackCallGoes, BackGoes
  <1>2. AskedPlain' /\ op'[t].pc # "reuse" /\ op'[t].pc # "done"
    BY <1>1, AskedStep DEF CleanInv, CallLabels
  <1>3. UNCHANGED <<meta, reuse_list, live, dirty>>
    BY DEF FreeBump, FreeSlot, FreeChunk, ClearFull, Count, SweepLock, SweepNext,
       OutsideBlocks, inside, reuse
  <1>4. CallocClean'
    BY <1>3, ObjectsKept DEF CleanInv
  <1> QED BY <1>1, <1>2, <1>3, <1>4, CleanQuiet

\* An allocation returns: a slot is cleared for a calloc, a big block is
\* clean already.
LEMMA ReturnClean ==
  ASSUME HeapInv, CleanInv, NEW t \in Threads, Return(t)
  PROVE  CleanInv'
  <1> DEFINE b == op[t].at
             pages == PagesOf(op[t].mem, op[t].n)
             clean == Cleared(t) \/ pages \cap dirty[b] = {}
             new == [block |-> b, at |-> op[t].mem, n |-> op[t].n, by |-> t,
                     zero |-> op[t].zero, clean |-> clean]
  <1>1. Others(op, op', t) /\ op'[t].pc \notin CallLabels /\ op[t].pc # "reuse"
    BY BackCallGoes, BackGoes
  <1>2. AskedPlain' /\ op'[t].pc # "reuse" /\ op'[t].pc # "done"
    BY <1>1, AskedStep DEF CleanInv, CallLabels
  <1>3. /\ op[t].pc = "done" /\ UNCHANGED <<meta, reuse_list>>
        /\ live' = (live \ op[t].old) \cup {new}
        /\ dirty' = [dirty EXCEPT ![b] = @ \cup pages]
    BY DEF Return, reuse
  <1>4. Holder(op[t]) /\ WritesTo(t, b)
    BY <1>3 DEF Holder, WritesTo
  <1>5. meta[b].class = op[t].class
    BY <1>4, Zenon DEF HeapInv, AllPlaced, Placed
  <1>6. ASSUME op[t].zero, ~IsBump(meta[b].class, op[t].mem), ~IsChunk(meta[b].class, op[t].mem)
        PROVE  clean
    <2>1. CASE op[t].class = Big
      <3>1. dirty[b] \cap pages = {}
        BY <1>3, <1>6, <2>1, Zenon DEF CleanInv, GivenClean
      <3> QED BY <3>1
    <2>2. CASE op[t].class # Big
      <3>1. ~KnownZero(op[t].class, chunks[b], op[t].mem)
        BY <1>5, <1>6, Zenon DEF KnownZero
      <3> QED BY <1>6, <2>2, <3>1 DEF Cleared
    <2> QED BY <2>1, <2>2
  <1>7. new.block = b /\ new.at = op[t].mem /\ new.zero = op[t].zero /\ new.clean = clean
    OBVIOUS
  <1> HIDE DEF new, clean
  <1>8. ASSUME NEW p \in live', p.zero, ~IsBump(meta[p.block].class, p.at),
               ~IsChunk(meta[p.block].class, p.at)
        PROVE  p.clean
    <2>1. p \in live \/ p = new
      BY <1>3
    <2>2. CASE p \in live
      BY <1>8, <2>2, Zenon DEF CleanInv, CallocClean
    <2>3. CASE p = new
      BY <1>6, <1>7, <1>8, <2>3
    <2> QED BY <2>1, <2>2, <2>3
  <1>9. CallocClean'
    BY <1>3, <1>8 DEF CallocClean
  <1>10. \E x, D : WritesTo(t, x) /\ dirty' = [dirty EXCEPT ![x] = D]
    BY <1>3, <1>4, Zenon
  <1> QED BY <1>1, <1>2, <1>3, <1>9, <1>10, CleanQuiet

\* What the pool holds is mapped after a step too.
LEMMA PoolMapped ==
  ASSUME HeapInv', NEW x \in Pool(reuse_list', op')
  PROVE  meta'[x] # None
  <1>1. Lists(meta', block_lists', reuse_list') /\ AllPlaced(live', op', meta', block_lists', reuse_list')
    BY Zenon DEF HeapInv
  <1>2. Retired(reuse_list', x) => meta'[x] # None
    BY <1>1, Zenon DEF Lists, Retired
  <1>3. \A u \in Threads : op'[u].pc = "reuse" /\ op'[u].at = x => meta'[x] # None
    BY <1>1, Zenon DEF AllPlaced, Placed, Between
  <1> QED BY <1>2, <1>3 DEF Pool

\* A block is retired: zero only if a calloc had it, and then but for its
\* first page.
LEMMA RemoveClean ==
  ASSUME HeapInv, HeapInv', CleanInv, NEW t \in Threads, Others(op, op', t), live' = live,
         op[t].pc # "reuse", op'[t].pc # "reuse", op'[t].pc # "done", AskedPlain',
         NEW h \in Heaps, NEW b \in Blocks, RemoveBlock(h, b),
         meta[b] \in MetaType, meta[b] # None, meta[b].heap = h, ~Retired(reuse_list, b),
         \A o \in live : o.block # b,
         \A u \in Threads : op[u].pc = "reuse" => op[u].at # b
  PROVE  CleanInv'
  <1> DEFINE R == Range(reuse_list[h])
  <1>1. PICK kept, gone :
          /\ meta' = [x \in Blocks |-> IF x \in gone THEN None
                                       ELSE IF x = b THEN RetiredMeta(b) ELSE meta[x]]
          /\ dirty' = [x \in Blocks |-> IF x \in gone THEN {}
                                        ELSE IF x = b THEN RetiredPages(b) ELSE dirty[x]]
          /\ reuse_list' = Set(reuse_list, h, kept)
    BY Zenon DEF RemoveBlock
  <1>2. PICK keeps, delta : Removed(h, b, keeps, delta)
    BY RemoveIs
  <1>3. \A g \in Heaps : Range(reuse_list'[g]) \subseteq {b} \cup Range(reuse_list[g])
    <2>1. /\ reuse_list' = [reuse_list EXCEPT ![h] = keeps]
          /\ Range(keeps) \subseteq {b} \cup Range(reuse_list[h])
      BY <1>2, Zenon DEF Removed, Set
    <2>2. reuse_list \in [Heaps -> Seq(Blocks)]
      BY Zenon DEF HeapInv, Lists
    <2>3. reuse_list'[h] = keeps /\ \A g \in Heaps : g # h => reuse_list'[g] = reuse_list[g]
      BY <2>1, <2>2
    <2> QED BY <2>1, <2>3, Zenon
  <1>4. \A x : Retired(reuse_list', x) => x = b \/ Retired(reuse_list, x)
    BY <1>3 DEF Retired
  <1>5. \A x \in Pool(reuse_list', op') : x = b \/ x \in Pool(reuse_list, op)
    BY <1>4 DEF Pool, Others
  <1>6. /\ \A x \in Blocks : x # b /\ ~Retired(reuse_list, x) => meta'[x] = meta[x]
        /\ \A x \in Blocks : x # b => meta'[x] = None \/ meta'[x] = meta[x]
    BY <1>2, RemovedFacts
  <1>7. \A x \in Blocks : dirty'[x] \subseteq dirty[x]
    <2>1. RetiredPages(b) \subseteq dirty[b]
      BY DecommittedIs, Zenon DEF RetiredPages
    <2> QED BY <1>1, <2>1
  <1>8. OfBlocks(dirty')
    BY <1>1 DEF OfBlocks
  <1>9. RestClean'
    <2>1. ASSUME NEW x \in Pool(reuse_list', op'), meta'[x].zero
          PROVE  dirty'[x] \cap Inner(meta'[x].size) = {}
      <3>1. meta'[x] # None /\ x \in Blocks
        BY PoolMapped DEF Pool
      <3>2. x \notin gone
        BY <1>1, <3>1
      <3>3. CASE x = b
        <4>1. meta'[b] = [meta[b] EXCEPT !.zero = meta[b].calloc] /\ dirty'[b] = RetiredPages(b)
          BY <1>1, <3>2, <3>3 DEF RetiredMeta
        <4>2. meta'[b].zero = meta[b].calloc /\ meta'[b].size = meta[b].size
          BY <4>1 DEF MetaType
        <4>3. dirty'[b] = Decommitted(dirty[b], PageUnits, meta[b].size)
          BY <2>1, <3>3, <4>1, <4>2, Zenon DEF RetiredPages
        <4>4. Decommitted(dirty[b], PageUnits, meta[b].size) \cap Inner(meta[b].size) = {}
          BY DecommittedIs, Zenon
        <4> QED BY <3>3, <4>2, <4>3, <4>4
      <3>4. CASE x # b
        <4>1. x \in Pool(reuse_list, op) /\ meta'[x] = meta[x]
          BY <1>5, <1>6, <3>1, <3>4
        <4>2. dirty[x] \cap Inner(meta[x].size) = {}
          BY <2>1, <4>1, Zenon DEF CleanInv, RestClean
        <4> QED BY <1>7, <3>1, <4>1, <4>2
      <3> QED BY <3>3, <3>4
    <2> QED BY <2>1, Zenon DEF RestClean
  <1>10. TakenFits'
    <2>1. ASSUME NEW u \in Threads, u # t, op[u].pc = "reuse" PROVE meta'[op[u].at] = meta[op[u].at]
      <3>1. op[u].at \in Blocks /\ ~Retired(reuse_list, op[u].at) /\ op[u].at # b
        BY <2>1, ReuseIs
      <3> QED BY <1>6, <3>1
    <2> QED BY <2>1, TakenKept DEF CleanInv
  <1>11. GivenClean'
    <2>1. \A u \in Threads : op[u].pc = "done" => op[u].at \in Blocks
      BY HoldersHold DEF Holder
    <2> QED BY <1>7, <2>1, GivenKept DEF CleanInv
  <1>12. CallocClean'
    <2>1. ASSUME NEW o \in live PROVE meta'[o.block] = meta[o.block]
      <3>1. o.block \in Blocks /\ Used(meta, block_lists, reuse_list, o.block)
        BY HoldersHold, Zenon DEF HeapInv, AllPlaced
      <3> QED BY <1>6, <3>1 DEF Used
    <2> QED BY <2>1, ObjectsKept DEF CleanInv
  <1> QED BY <1>8, <1>9, <1>10, <1>11, <1>12, Zenon DEF CleanInv

LEMMA GcBlockClean ==
  ASSUME HeapInv, HeapInv', CleanInv, NEW t \in Threads, GcBlock(t)
  PROVE  CleanInv'
  <1> DEFINE h == op[t].heap  c == op[t].class  b == op[t].at
  <1>1. op[t].pc \in {"gc", "sweep"} /\ op[t].pc \in WalkLabels /\ b # None
    BY DEF GcBlock, At, WalkLabels
  <1>2. /\ h \in Heaps /\ b \in Blocks /\ c \in Classes
        /\ meta[b] \in MetaType /\ meta[b] # None /\ meta[b].heap = h /\ meta[b].class = c
        /\ ~Retired(reuse_list, b) /\ Listed(block_lists, b)
    BY <1>1, AtBlock, Zenon
  <1>3. CallGoes(t)
    BY WalkCallGoes
  <1>4. op'[t].pc = op[t].pc
    <2> DEFINE d == Following(block_lists[h][c], b)
    <2>1. op' = [op EXCEPT ![t].at = d]
      BY DEF GcBlock
    <2>2. op \in [Threads -> OpType] /\ (op[t] \in CallType \/ op[t] \in FreeType)
      BY <1>1, OpOf DEF CallLabels, FreeLabels
    <2> HIDE DEF d
    <2> QED BY <2>1, <2>2 DEF CallType, FreeType
  <1>5. /\ AskedPlain' /\ Others(op, op', t) /\ live' = live
        /\ op[t].pc # "reuse" /\ op'[t].pc # "reuse" /\ op'[t].pc # "done"
    BY <1>1, <1>3, <1>4, AskedStep DEF CleanInv, CallGoes, GcBlock
  <1>6. CASE Empty(b)
    <2>1. RemoveBlock(h, b)
      BY <1>6 DEF GcBlock
    <2>2. \A o \in live : o.block # b
      <3>1. Addrs(live, op, b) = {}
        BY <1>2, <1>6, EmptyIs
      <3> QED BY <3>1, HoldersHold
    <2>3. \A u \in Threads : op[u].pc = "reuse" => op[u].at # b
      BY <1>2, ReuseIs
    <2> HIDE DEF h, b, c
    <2> QED BY <1>2, <1>5, <2>1, <2>2, <2>3, RemoveClean
  <1>7. CASE ~Empty(b)
    <2>1. UNCHANGED <<meta, reuse_list, dirty>>
      BY <1>7 DEF GcBlock, reuse
    <2>2. CallocClean'
      BY <1>5, <2>1, ObjectsKept DEF CleanInv
    <2> QED BY <1>5, <2>1, <2>2, CleanQuiet
  <1> QED BY <1>6, <1>7

LEMMA FreeBigClean ==
  ASSUME HeapInv, HeapInv', CleanInv, NEW t \in Threads, FreeBig(t)
  PROVE  CleanInv'
  <1> DEFINE h == op[t].heap  b == op[t].at
  <1>1. op[t].pc = "free" /\ op[t].class = Big /\ RemoveBlock(h, b) /\ live' = live
    BY DEF FreeBig
  <1>2. Holder(op[t]) /\ op[t].pc \in FreeLabels
    BY <1>1 DEF Holder, FreeLabels
  <1>3. Used(meta, block_lists, reuse_list, b) /\ meta[b].heap = h /\ h \in Heaps
    BY <1>2, WalkClass, Zenon DEF HeapInv, AllPlaced, Placed
  <1>4. b \in Blocks /\ meta[b] # None /\ meta[b] \in MetaType /\ ~Retired(reuse_list, b)
    BY <1>2, <1>3, UsedIs, HoldersHold DEF Used
  <1>5. \A o \in live : o.block # b
    BY <1>1, <1>2, BigAlone
  <1>6. \A u \in Threads : op[u].pc = "reuse" => op[u].at # b
    <2>1. Addrs(live, op, b) # {}
      BY <1>2, HoldersHold
    <2> QED BY <2>1, ReuseIs, Zenon
  <1>7. Others(op, op', t) /\ op'[t].pc \notin CallLabels
    BY BackCallGoes
  <1>8. /\ AskedPlain' /\ op[t].pc # "reuse" /\ op'[t].pc # "reuse" /\ op'[t].pc # "done"
    BY <1>1, <1>7, AskedStep DEF CleanInv, CallLabels
  <1> HIDE DEF h, b
  <1> QED BY <1>1, <1>3, <1>4, <1>5, <1>6, <1>7, <1>8, RemoveClean

LEMMA UnlinkClean ==
  ASSUME HeapInv, CleanInv, NEW t \in Threads, UnlinkReuse(t)
  PROVE  CleanInv'
  <1> DEFINE h == op[t].heap  s == reuse_list[h]  i == BestFit(h, Enough(t))  b == s[i]
  <1>1. /\ op[t].pc = "get" /\ Enough(t) # {}
        /\ reuse_list' = [reuse_list EXCEPT ![h] = RemoveAt(s, i)]
        /\ op' = [op EXCEPT ![t].pc = "reuse", ![t].at = b]
        /\ meta' = meta /\ dirty' = dirty /\ live' = live
    BY DEF UnlinkReuse, inside
  <1>2. op[t].pc \in CallLabels /\ op[t].pc \in CallLabels \cup FreeLabels
    BY <1>1 DEF CallLabels
  <1>3. h \in Heaps /\ op[t] \in CallType /\ op \in [Threads -> OpType]
    BY <1>2, WalkClass, OpOf
  <1>4. s \in Seq(Blocks) /\ IsInjective(s)
    BY <1>3, RetiredSizes
  <1>5. i \in 1 .. Len(s) /\ meta[b].size >= WantedSize(t)
    <2>1. Enough(t) \in SUBSET (1 .. Len(s)) /\ \A j \in Enough(t) : meta[s[j]].size >= WantedSize(t)
      BY <1>4 DEF Enough
    <2>2. i \in Enough(t)
      BY <1>1, <1>3, <2>1, BestFitIs
    <2> QED BY <2>1, <2>2
  <1> HIDE DEF i
  <1>6. b \in Range(s)
    BY <1>4, <1>5, OfRange
  <1>7. Range(RemoveAt(s, i)) = Range(s) \ {b}
    BY <1>4, <1>5, RemoveAtFacts
  <1>8. op'[t].pc = "reuse" /\ op'[t].at = b /\ CallGoes(t)
    <2>1. CallGoes(t)
      BY WalkCallGoes
    <2> HIDE DEF b
    <2> QED BY <1>1, <1>3, <2>1 DEF CallType
  <1>9. AskedPlain' /\ Others(op, op', t) /\ SameCall(op[t], op'[t])
    BY <1>8, AskedStep DEF CleanInv, CallGoes, CallLabels
  <1> HIDE DEF b
  <1>10. \A g \in Heaps : Range(reuse_list'[g]) \subseteq Range(reuse_list[g])
    <2> DEFINE r == RemoveAt(s, i)
    <2>1. reuse_list' = [reuse_list EXCEPT ![h] = r] /\ Range(r) \subseteq Range(s)
      BY <1>1, <1>7
    <2>2. reuse_list \in [Heaps -> Seq(Blocks)]
      BY Zenon DEF HeapInv, Lists
    <2> HIDE DEF r
    <2> QED BY <2>1, <2>2
  <1>11. \A x : Retired(reuse_list', x) => Retired(reuse_list, x)
    BY <1>10 DEF Retired
  <1>12. Retired(reuse_list, b)
    BY <1>3, <1>6, Zenon DEF Retired
  <1>13. Pool(reuse_list', op') \subseteq Pool(reuse_list, op)
    BY <1>8, <1>9, <1>11, <1>12 DEF Pool, Others
  <1>14. RestClean'
    <2>1. \A x \in Pool(reuse_list', op') : meta'[x].zero => dirty'[x] \cap Inner(meta'[x].size) = {}
      BY <1>1, <1>13 DEF CleanInv, RestClean
    <2> QED BY <2>1, Zenon DEF RestClean
  <1>15. TakenFits'
    <2>1. ASSUME NEW u \in Threads, op'[u].pc = "reuse"
          PROVE  WantedSize(u)' <= meta'[op'[u].at].size
      <3>1. CASE u = t
        <4>1. WantedSize(t)' = WantedSize(t)
          BY <1>9 DEF WantedSize, SameCall
        <4>2. WantedSize(t) <= meta[b].size
          <5>1. WantedSize(t) \in Int /\ meta[b].size \in Int
            <6>1. meta[b].size \in Nat
              BY <1>3, <1>6, RetiredSizes
            <6>2. op[t].n \in Nat /\ op[t].al \in Nat
              BY <1>3, MallocAssumption DEF CallType
            <6>3. PageUnits \in Nat \ {0} /\ BlockUnits \in Nat
              BY Geometry
            <6> DEFINE z == AlignUp(op[t].n, PageUnits)
            <6>4. z \in Nat
              BY <6>2, <6>3, AlignedUp
            <6>5. WantedSize(t) = IF op[t].class = Big
                    THEN IF PageUnits + (z + PageUnits) + op[t].al > BlockUnits
                         THEN PageUnits + (z + PageUnits) + op[t].al ELSE BlockUnits
                    ELSE BlockUnits
              BY DEF WantedSize, BigRequest
            <6> HIDE DEF z
            <6> QED BY <6>1, <6>2, <6>3, <6>4, <6>5
          <5> QED BY <1>5, <5>1
        <4> QED BY <1>1, <1>8, <3>1, <4>1, <4>2
      <3>2. CASE u # t
        <4>1. op'[u] = op[u]
          BY <1>9, <3>2 DEF Others
        <4>2. WantedSize(u)' = WantedSize(u)
          BY <4>1 DEF WantedSize
        <4>3. WantedSize(u) <= meta[op[u].at].size
          BY <2>1, <4>1 DEF CleanInv, TakenFits
        <4> QED BY <1>1, <4>1, <4>2, <4>3
      <3> QED BY <3>1, <3>2
    <2> QED BY <2>1 DEF TakenFits
  <1>16. GivenClean'
    BY <1>1, <1>8, <1>9, GivenKept DEF CleanInv
  <1>17. CallocClean'
    BY <1>1, ObjectsKept DEF CleanInv
  <1>18. OfBlocks(dirty')
    BY <1>1, Zenon DEF CleanInv
  <1> QED BY <1>9, <1>14, <1>15, <1>16, <1>17, <1>18, Zenon DEF CleanInv

\* A call that got a block: its pages, and those of the blocks left.
LEMMA GetClean ==
  ASSUME HeapInv, HeapInv', CleanInv, NEW t \in Threads, ReuseBlock(t) \/ MakeBlock(t),
         NEW b \in Blocks, GetsBlock(t, b), OfBlocks(dirty'),
         \A x \in Blocks : x # b => dirty'[x] \subseteq dirty[x],
         op[t].class = Big /\ op[t].zero => dirty'[b] \cap PagesOf(BigStart(1), op[t].n) = {},
         \A x \in Pool(reuse_list, op) : x # b /\ meta'[x] # None /\ meta'[x].zero =>
           dirty'[x] \cap Inner(meta'[x].size) = {}
  PROVE  CleanInv'
  <1>1. /\ op[t].pc \in {"get", "reuse"} /\ live' = live /\ AddBlock(t, b) /\ Gained(t, b)
        /\ GainLocks(t)
    BY DEF GetsBlock
  <1>2. /\ Others(op, op', t) /\ op'[t].at = b /\ op'[t].class = op[t].class
        /\ op'[t].pc = (IF op[t].class = Big THEN "done" ELSE "walk") /\ op'[t].pc # "reuse"
    BY <1>1, AddOp
  <1>3. AskedPlain' /\ SameCall(op[t], op'[t])
    <2>1. CallGoes(t)
      BY WalkCallGoes
    <2> QED BY <1>2, <2>1, AskedStep DEF CleanInv, CallGoes, CallLabels
  <1>4. /\ \A x : Retired(reuse_list', x) => Retired(reuse_list, x)
        /\ \A x \in Blocks : Used(meta, block_lists, reuse_list, x) /\ x # b => meta'[x] = meta[x]
        /\ \A x \in Blocks : Between(meta, block_lists, reuse_list, x) /\ x # b => meta'[x] = meta[x]
    BY <1>1, GainedFacts
  <1>5. /\ ~Retired(reuse_list, b) /\ Addrs(live, op, b) = {}
        /\ \A u \in Threads : u # t /\ op[u].pc = "reuse" => op[u].at # b
    BY <1>1, Zenon DEF Gained
  <1>6. \A x \in Pool(reuse_list', op') : x \in Pool(reuse_list, op) /\ x # b
    BY <1>2, <1>4, <1>5 DEF Pool, Others
  <1>7. RestClean'
    <2>1. \A x \in Pool(reuse_list', op') : meta'[x].zero => dirty'[x] \cap Inner(meta'[x].size) = {}
      BY <1>6, PoolMapped
    <2> QED BY <2>1, Zenon DEF RestClean
  <1>8. TakenFits'
    <2>1. ASSUME NEW u \in Threads, u # t, op[u].pc = "reuse" PROVE meta'[op[u].at] = meta[op[u].at]
      <3>1. op[u].at \in Blocks /\ op[u].at # b /\ Between(meta, block_lists, reuse_list, op[u].at)
        BY <1>5, <2>1, ReuseIs, Zenon DEF Between
      <3> QED BY <1>4, <3>1
    <2> QED BY <1>2, <2>1, TakenKept DEF CleanInv
  <1>9. GivenClean'
    <2>1. ASSUME op'[t].pc = "done", op'[t].class = Big, op'[t].zero
          PROVE  dirty'[op'[t].at] \cap PagesOf(op'[t].mem, op'[t].n) = {}
      <3>1. op[t].class = Big /\ op[t].zero /\ op'[t].n = op[t].n /\ op'[t].al = op[t].al
        BY <1>2, <1>3, <2>1 DEF SameCall
      <3>2. op[t].al = 1
        BY <1>1, <3>1 DEF CleanInv, AskedPlain, ClearAsked, CallLabels
      <3>3. op'[t].mem = BigStart(1)
        <4> DEFINE v == BigStart(op[t].al)
        <4>1. op' = [op EXCEPT ![t].pc = "done", ![t].at = b, ![t].mem = v]
          BY <1>1, <3>1 DEF AddBlock
        <4>2. op \in [Threads -> OpType] /\ op[t] \in CallType
          BY <1>1, OpOf DEF CallLabels
        <4>3. v = BigStart(1)
          BY <3>2
        <4> HIDE DEF v
        <4> QED BY <4>1, <4>2, <4>3 DEF CallType
      <3> QED BY <1>2, <3>1, <3>3
    <2>2. ASSUME NEW u \in Threads, u # t, op[u].pc = "done"
          PROVE  op[u].at \in Blocks /\ op[u].at # b
      BY <1>5, <2>2, HoldersHold DEF Holder
    <2> QED BY <1>2, <2>1, <2>2, GivenKept DEF CleanInv
  <1>10. CallocClean'
    <2>1. ASSUME NEW o \in live PROVE meta'[o.block] = meta[o.block]
      <3>1. o.block \in Blocks /\ Used(meta, block_lists, reuse_list, o.block) /\ o.block # b
        BY <1>5, HoldersHold, Zenon DEF HeapInv, AllPlaced
      <3> QED BY <1>4, <3>1
    <2> QED BY <1>1, <2>1, ObjectsKept DEF CleanInv
  <1> QED BY <1>3, <1>7, <1>8, <1>9, <1>10, Zenon DEF CleanInv

\* A new block is zero.
LEMMA MakeClean ==
  ASSUME HeapInv, HeapInv', CleanInv, NEW t \in Threads, MakeBlock(t)
  PROVE  CleanInv'
  <1>1. PICK b \in Blocks : GetsBlock(t, b) /\ b \notin Mapped
                              /\ \E f : meta' = Set(meta, b, f) /\ dirty' = Set(dirty, b, {})
    <2> DEFINE f == Fresh(op[t].heap, op[t].class, PageUp(WantedSize(t)), TRUE, BigCalloc(t))
    <2>1. PICK b \in Blocks \ Mapped : meta' = Set(meta, b, f) /\ dirty' = Set(dirty, b, {}) /\ AddBlock(t, b)
      BY DEF MakeBlock
    <2>2. PICK c \in Blocks : GetsBlock(t, c)
      BY MakeGets
    <2>3. b = c
      <3>1. op[t].pc \in CallLabels /\ op \in [Threads -> OpType] /\ op[t] \in CallType
        BY <2>2, OpOf DEF GetsBlock, CallLabels
      <3>2. ASSUME NEW x \in Blocks, AddBlock(t, x) PROVE op'[t].at = x
        <4>1. CASE op[t].class = Big
          <5> DEFINE v == BigStart(op[t].al)
          <5>1. op' = [op EXCEPT ![t].pc = "done", ![t].at = x, ![t].mem = v]
            BY <3>2, <4>1 DEF AddBlock
          <5> HIDE DEF v
          <5> QED BY <3>1, <5>1 DEF CallType
        <4>2. CASE op[t].class # Big
          <5>1. op' = [op EXCEPT ![t].pc = "walk", ![t].at = x]
            BY <3>2, <4>2 DEF AddBlock
          <5> QED BY <3>1, <5>1 DEF CallType
        <4> QED BY <4>1, <4>2
      <3> QED BY <2>1, <2>2, <3>2 DEF GetsBlock
    <2> HIDE DEF f
    <2> QED BY <2>1, <2>2, <2>3
  <1>2. PICK f : meta' = [meta EXCEPT ![b] = f] /\ dirty' = [dirty EXCEPT ![b] = {}]
    BY <1>1 DEF Set
  <1>3. dirty = [x \in Blocks |-> dirty[x]]
    BY Zenon DEF CleanInv, OfBlocks
  <1>4. OfBlocks(dirty') /\ dirty'[b] = {} /\ \A x \in Blocks : x # b => dirty'[x] = dirty[x]
    BY <1>2, <1>3 DEF OfBlocks
  <1>5. meta \in [Blocks -> MetaType \cup {None}]
    BY Zenon DEF HeapInv, Lists
  <1>6. \A x \in Blocks : x # b => meta'[x] = meta[x]
    BY <1>2, <1>5
  <1>7. \A x \in Pool(reuse_list, op) : x # b /\ meta'[x] # None /\ meta'[x].zero =>
          dirty'[x] \cap Inner(meta'[x].size) = {}
    BY <1>4, <1>6 DEF CleanInv, RestClean, Pool
  <1> QED BY <1>1, <1>4, <1>7, GetClean

\* A retired block is put to use: what a calloc needs is dropped unless it
\* is clean, and so are the pages of blocks that were passed over.
LEMMA ReuseClean ==
  ASSUME HeapInv, HeapInv', CleanInv, NEW t \in Threads, ReuseBlock(t)
  PROVE  CleanInv'
  <1> DEFINE h == op[t].heap  b == op[t].at
             left == Range(reuse_list[h])
             gone == {x \in left : PassedOver(x) = None}
             m == meta[b]
  <1>1. op[t].pc = "reuse" /\ b \in Blocks /\ GetsBlock(t, b)
    BY ReuseGets DEF ReuseBlock
  <1>2. /\ h \in Heaps /\ op[t] \in CallType /\ m \in MetaType /\ ~Retired(reuse_list, b)
    BY <1>1, ReuseIs
  <1>3. b \notin left /\ left \subseteq Blocks /\ \A x \in left : meta[x] \in MetaType /\ Retired(reuse_list, x)
    BY <1>2, RetiredSizes DEF Retired
  <1>4. /\ meta' = [x \in Blocks |->
             IF x \in left THEN PassedOver(x)
             ELSE IF x = b THEN Fresh(h, op[t].class, m.size, m.zero, BigCalloc(t))
             ELSE meta[x]]
        /\ dirty' = [x \in Blocks |->
             CASE x \in gone -> {}
               [] x \in left \ gone /\ Drops(x) -> Decommitted(dirty[x], PageUnits, meta[x].size)
               [] x = b -> ReusedPages(b, WantedSize(t), BigCalloc(t)) \ {0}
               [] OTHER -> dirty[x]]
    BY DEF ReuseBlock
  <1> HIDE DEF b, m, left, h
  <1>5. /\ OfBlocks(dirty')
        /\ \A x \in gone : dirty'[x] = {}
        /\ \A x \in left \ gone : Drops(x) => dirty'[x] = Decommitted(dirty[x], PageUnits, meta[x].size)
        /\ \A x \in left \ gone : ~Drops(x) => dirty'[x] = dirty[x]
        /\ dirty'[b] = ReusedPages(b, WantedSize(t), BigCalloc(t)) \ {0}
        /\ \A x \in Blocks : x \notin left /\ x # b => dirty'[x] = dirty[x]
    <2>1. OfBlocks(dirty')
      BY <1>4 DEF OfBlocks
    <2>2. \A x \in gone : dirty'[x] = {}
      BY <1>3, <1>4
    <2>3. \A x \in left \ gone : Drops(x) => dirty'[x] = Decommitted(dirty[x], PageUnits, meta[x].size)
      BY <1>3, <1>4
    <2>4. \A x \in left \ gone : ~Drops(x) => dirty'[x] = dirty[x]
      BY <1>3, <1>4
    <2>5. dirty'[b] = ReusedPages(b, WantedSize(t), BigCalloc(t)) \ {0}
      BY <1>1, <1>3, <1>4
    <2>6. \A x \in Blocks : x \notin left /\ x # b => dirty'[x] = dirty[x]
      BY <1>4
    <2> QED BY <2>1, <2>2, <2>3, <2>4, <2>5, <2>6
  <1>6. \A x \in Blocks : x # b => dirty'[x] \subseteq dirty[x]
    <2>1. \A x : Decommitted(dirty[x], PageUnits, meta[x].size) \subseteq dirty[x]
      BY DecommittedIs
    <2> QED BY <1>5, <2>1
  <1>7. ASSUME op[t].class = Big, op[t].zero
        PROVE  dirty'[b] \cap PagesOf(BigStart(1), op[t].n) = {}
    <2>1. BigCalloc(t) /\ op[t].al = 1 /\ op[t].n \in Nat \ {0} /\ m.size \in Nat
      BY <1>1, <1>2, <1>7, MallocAssumption
         DEF BigCalloc, CleanInv, AskedPlain, ClearAsked, CallLabels, CallType, MetaType
    <2>2. BigRequest(op[t].n, 1) <= m.size
      <3>1. WantedSize(t) <= meta[op[t].at].size
        BY <1>1, Zenon DEF CleanInv, TakenFits
      <3> QED BY <1>7, <2>1, <3>1 DEF WantedSize, b, m
    <2>3. PagesOf(BigStart(1), op[t].n) \subseteq {0} \cup Inner(m.size)
      BY <2>1, <2>2, CallocFits
    <2>4. ReusedPages(b, WantedSize(t), BigCalloc(t)) \cap Inner(m.size) = {}
      <3> DEFINE w == WantedSize(t)
      <3>1. CASE ~m.zero
        <4>1. ReusedPages(b, w, BigCalloc(t)) = Decommitted(dirty[b], PageUnits, m.size)
          BY <2>1, <3>1 DEF ReusedPages, m
        <4> QED BY <4>1, DecommittedIs, Zenon
      <3>2. CASE m.zero
        <4>1. b \in Pool(reuse_list, op)
          BY <1>1 DEF Pool, b
        <4>2. dirty[b] \cap Inner(m.size) = {}
          BY <3>2, <4>1 DEF CleanInv, RestClean, m
        <4>3. ReusedPages(b, w, BigCalloc(t)) \subseteq dirty[b]
          <5>1. Decommitted(dirty[b], w, m.size) \subseteq dirty[b]
            BY DecommittedIs
          <5> HIDE DEF w
          <5> QED BY <3>2, <5>1 DEF ReusedPages, m
        <4> QED BY <4>2, <4>3
      <3> QED BY <3>1, <3>2
    <2> QED BY <1>5, <2>3, <2>4
  <1>8. ASSUME NEW x \in Pool(reuse_list, op), x # b, meta'[x] # None, meta'[x].zero
        PROVE  dirty'[x] \cap Inner(meta'[x].size) = {}
    <2>0. x \in Blocks /\ (meta[x].zero => dirty[x] \cap Inner(meta[x].size) = {})
      BY DEF Pool, CleanInv, RestClean
    <2>1. CASE x \in left
      <3>1. meta'[x] = PassedOver(x) /\ meta[x] \in MetaType /\ x \notin gone
        BY <1>3, <1>4, <1>8, <2>0, <2>1
      <3>2. meta'[x].size = meta[x].size
        BY <1>8, <3>1, PassedOverIs
      <3>3. CASE Drops(x)
        <4>1. dirty'[x] = Decommitted(dirty[x], PageUnits, meta[x].size)
          BY <1>5, <2>1, <3>1, <3>3
        <4> QED BY <3>2, <4>1, DecommittedIs, Zenon
      <3>4. CASE ~Drops(x)
        <4>1. dirty'[x] = dirty[x]
          BY <1>5, <2>1, <3>1, <3>4
        <4>2. meta[x].zero
          <5> DEFINE k == meta[x]  n == k.passes + 1
          <5>1. \/ PassedOver(x) = k \/ PassedOver(x) = [k EXCEPT !.passes = n]
                \/ k.zero
            BY <1>8, <3>1, <3>4 DEF PassedOver, Drops
          <5> HIDE DEF n
          <5>2. k \in MetaType /\ [k EXCEPT !.passes = n].zero = k.zero
            BY <3>1 DEF MetaType
          <5> QED BY <1>8, <3>1, <5>1, <5>2
        <4> QED BY <2>0, <3>2, <4>1, <4>2
      <3> QED BY <3>3, <3>4
    <2>2. CASE x \notin left
      <3>1. meta'[x] = meta[x] /\ dirty'[x] = dirty[x]
        BY <1>4, <1>5, <1>8, <2>0, <2>2
      <3> QED BY <1>8, <2>0, <3>1
    <2> QED BY <2>1, <2>2
  <1> QED BY <1>1, <1>5, <1>6, <1>7, <1>8, GetClean

\* What a destroyed heap had is gone, and nobody had any of it.
LEMMA DestroyHeapClean ==
  ASSUME HeapInv, HeapInv', CleanInv, NEW h \in Heaps, DestroyHeap(h)
  PROVE  CleanInv'
  <1> DEFINE B == BlocksOf(h)
  <1>1. /\ meta' = [x \in Blocks |-> IF x \in B THEN None ELSE meta[x]]
        /\ dirty' = [x \in Blocks |-> IF x \in B THEN {} ELSE dirty[x]]
        /\ reuse_list' = [reuse_list EXCEPT ![h] = <<>>]
        /\ op' = op /\ live' = live
    BY DEF DestroyHeap, Set
  <1>2. /\ \A o \in live : meta[o.block].heap # h
        /\ \A t \in Threads : op[t].pc # "idle" => op[t].heap # h
    BY DEF DestroyHeap, InUse, Calls
  <1>3. \A x \in B : meta[x].heap = h
    BY DEF BlocksOf
  <1> HIDE DEF B
  <1>4. OfBlocks(dirty') /\ \A x \in Blocks : dirty'[x] \subseteq dirty[x]
    BY <1>1 DEF OfBlocks
  <1>5. \A x : Retired(reuse_list', x) => Retired(reuse_list, x)
    <2> DEFINE z == <<>>
    <2>1. reuse_list' = [reuse_list EXCEPT ![h] = z] /\ Range(z) = {}
      BY <1>1, EmptySeqFacts
    <2>2. reuse_list \in [Heaps -> Seq(Blocks)]
      BY Zenon DEF HeapInv, Lists
    <2> HIDE DEF z
    <2>3. reuse_list'[h] = z /\ \A g \in Heaps : g # h => reuse_list'[g] = reuse_list[g]
      BY <2>1, <2>2
    <2> QED BY <2>1, <2>3 DEF Retired
  <1>6. Pool(reuse_list', op') \subseteq Pool(reuse_list, op)
    BY <1>1, <1>5 DEF Pool
  <1>7. RestClean'
    <2>1. ASSUME NEW x \in Pool(reuse_list', op'), meta'[x].zero
          PROVE  dirty'[x] \cap Inner(meta'[x].size) = {}
      <3>1. meta'[x] # None /\ x \in Blocks
        BY PoolMapped DEF Pool
      <3>2. meta'[x] = meta[x] /\ x \in Pool(reuse_list, op)
        BY <1>1, <1>6, <3>1
      <3>3. dirty[x] \cap Inner(meta[x].size) = {}
        BY <2>1, <3>2, Zenon DEF CleanInv, RestClean
      <3> QED BY <1>4, <3>1, <3>2, <3>3
    <2> QED BY <2>1, Zenon DEF RestClean
  <1>8. TakenFits'
    <2>1. ASSUME NEW u \in Threads, op'[u].pc = "reuse"
          PROVE  WantedSize(u)' <= meta'[op'[u].at].size
      <3>1. op[u].pc = "reuse" /\ WantedSize(u)' = WantedSize(u)
        BY <1>1, <2>1 DEF WantedSize
      <3>2. op[u].at \in Blocks /\ meta[op[u].at].heap = op[u].heap /\ op[u].heap # h
        BY <1>2, <3>1, ReuseIs
      <3>3. meta'[op'[u].at] = meta[op[u].at]
        BY <1>1, <1>3, <3>2
      <3> QED BY <3>1, <3>3 DEF CleanInv, TakenFits
    <2> QED BY <2>1 DEF TakenFits
  <1>9. GivenClean'
    <2>1. ASSUME NEW u \in Threads, op[u].pc = "done", op[u].class = Big, op[u].zero
          PROVE  dirty'[op[u].at] \cap PagesOf(op[u].mem, op[u].n) = {}
      <3>1. op[u].at \in Blocks
        BY <2>1, HoldersHold DEF Holder
      <3>2. dirty[op[u].at] \cap PagesOf(op[u].mem, op[u].n) = {}
        BY <2>1, Zenon DEF CleanInv, GivenClean
      <3> QED BY <1>4, <3>1, <3>2
    <2> QED BY <1>1, <2>1 DEF GivenClean
  <1>10. CallocClean'
    <2>1. ASSUME NEW o \in live PROVE meta'[o.block] = meta[o.block]
      BY <1>1, <1>2, <1>3, HoldersHold
    <2> QED BY <1>1, <2>1, ObjectsKept DEF CleanInv
  <1>11. AskedPlain'
    BY <1>1 DEF CleanInv, AskedPlain
  <1> QED BY <1>4, <1>7, <1>8, <1>9, <1>10, <1>11, Zenon DEF CleanInv

LEMMA InitClean == Init => CleanInv
  <1> SUFFICES ASSUME Init PROVE CleanInv
    OBVIOUS
  <1> DEFINE z == <<>>
  <1>1. /\ dirty = [b \in Blocks |-> {}] /\ live = {}
        /\ \A h \in Heaps : reuse_list[h] = z
        /\ \A t \in Threads : op[t].pc = "idle"
    BY DEF Init, Idle
  <1>2. Range(z) = {}
    BY EmptySeqFacts
  <1> HIDE DEF z
  <1>3. Pool(reuse_list, op) = {}
    BY <1>1, <1>2 DEF Pool, Retired
  <1> QED BY <1>1, <1>3
    DEF CleanInv, OfBlocks, AskedPlain, ClearAsked, CallLabels, TakenFits, RestClean, GivenClean, CallocClean

LEMMA StepClean == HeapInv /\ HeapInv' /\ CleanInv /\ [Next]_vars => CleanInv'
  <1> SUFFICES ASSUME HeapInv, HeapInv', CleanInv, [Next]_vars PROVE CleanInv'
    OBVIOUS
  <1>1. ASSUME NEW t \in Threads, Malloc(t) \/ Realloc(t) \/ Free(t) PROVE CleanInv'
    BY <1>1, BeginClean
  <1>2. ASSUME NEW t \in Threads,
               \/ LockList(t) \/ NoChunk(t) \/ MarkFull(t) \/ NextBlock(t) \/ ListEnds(t) \/ GcEnds(t)
               \/ AllocSlot(t) \/ AllocChunk(t) \/ AllocBump(t)
        PROVE  CleanInv'
    BY <1>2, WalkClean
  <1>3. ASSUME NEW t \in Threads,
               \/ FreeBump(t) \/ FreeSlot(t) \/ FreeChunk(t) \/ ClearFull(t)
               \/ Count(t) \/ SweepLock(t) \/ SweepNext(t)
        PROVE  CleanInv'
    BY <1>3, FreeClean
  <1>4. ASSUME NEW t \in Threads, Return(t) PROVE CleanInv'
    BY <1>4, ReturnClean
  <1>5. ASSUME NEW t \in Threads, GcBlock(t) PROVE CleanInv'
    BY <1>5, GcBlockClean
  <1>6. ASSUME NEW t \in Threads, FreeBig(t) PROVE CleanInv'
    BY <1>6, FreeBigClean
  <1>7. ASSUME NEW t \in Threads, UnlinkReuse(t) PROVE CleanInv'
    BY <1>7, UnlinkClean
  <1>8. ASSUME NEW t \in Threads, ReuseBlock(t) PROVE CleanInv'
    BY <1>8, ReuseClean
  <1>9. ASSUME NEW t \in Threads, MakeBlock(t) PROVE CleanInv'
    BY <1>9, MakeClean
  <1>10. ASSUME NEW h \in UserHeaps, DestroyHeap(h) PROVE CleanInv'
    <2>1. h \in Heaps
      BY MallocAssumption
    <2> QED BY <1>10, <2>1, DestroyHeapClean
  <1>11. CASE UNCHANGED vars
    <2>1. UNCHANGED <<meta, reuse_list, dirty, op, live>>
      BY <1>11 DEF vars, inside, reuse
    <2>2. RestClean' /\ CallocClean'
      BY <2>1, RestKept, ObjectsKept DEF CleanInv, SameReusers
    <2>3. OfBlocks(dirty') /\ AskedPlain' /\ TakenFits' /\ GivenClean'
      <3>1. \A u \in Threads : WantedSize(u)' = WantedSize(u)
        BY <2>1 DEF WantedSize
      <3> QED BY <2>1, <3>1 DEF CleanInv, AskedPlain, TakenFits, GivenClean, OfBlocks
    <2> QED BY <2>2, <2>3, Zenon DEF CleanInv
  <1> QED
    BY <1>1, <1>2, <1>3, <1>4, <1>5, <1>6, <1>7, <1>8, <1>9, <1>10, <1>11, Zenon DEF Next

\* CallocClean, for every instance: the memory of a calloc that is a slot or
\* has a block of its own reads as zero, whatever the block was used for
\* before, however many passes it was retired for, and whether its pages were
\* dropped then, when it was retired or when it was put to use again
\* (bkmalloc.h:2664, 2883-2937, 3013-3018, 3514-3518).
THEOREM CallocsAreClean == Spec => []CallocClean
  <1>1. CleanInv => CallocClean
    BY Zenon DEF CleanInv
  <1> QED BY <1>1, HeapInvariant, InitClean, StepClean, PTL DEF Spec
=============================================================================
