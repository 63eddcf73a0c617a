----------------------------- MODULE HashTable -----------------------------
(***************************************************************************)
(* The chained hash table that use_hash_table generates                    *)
(* (src/include/bkmalloc.h:1023).  A slot is the sequence of its chain.    *)
(*                                                                         *)
(* A definition D_xyz is D with a plausible mistake in it.  Nothing uses   *)
(* it; PROJECT.json names the mistake that breaks each property.           *)
(***************************************************************************)
EXTENDS Integers, FiniteSets, SequencesExt

CONSTANTS
  TableKeys, TableHash,   \* the keys and their hashes
  ht_prime_sizes,         \* from DEFAULT_START_SIZE_IDX on
  NoValue

ASSUME TableAssumption ==
  /\ TableHash \in [TableKeys -> Nat]
  /\ ht_prime_sizes \in Seq(Nat \ {0, 1}) /\ ht_prime_sizes # <<>>
  /\ \A i \in 1 .. Len(ht_prime_sizes) - 1 : ht_prime_sizes[i] + 2 <= ht_prime_sizes[i + 1]
  /\ IsFiniteSet(TableKeys) /\ 3 * Cardinality(TableKeys) + 3 <= 2 * ht_prime_sizes[Len(ht_prime_sizes)]
  /\ NoValue \notin Nat

update_load_thresh(t) ==
  [t EXCEPT !.load_thresh = (2 * ht_prime_sizes[t.size_idx]) \div 3]

WithSize(idx) ==
  [data |-> [i \in 0 .. ht_prime_sizes[idx] - 1 |-> <<>>], len |-> 0, size_idx |-> idx, load_thresh |-> 0]

make == update_load_thresh(WithSize(1))

SlotOfKey(t, key) == TableHash[key] % ht_prime_sizes[t.size_idx]

\* Where the key is in its chain, or 0.
Find(t, key) == SelectInSeq(t.data[SlotOfKey(t, key)], LAMBDA e : e.key = key)

get_val(t, key) ==
  IF Find(t, key) = 0 THEN NoValue ELSE t.data[SlotOfKey(t, key)][Find(t, key)].val

\* The slots are carried over one by one, each to the end of its new chain.
rehash_insert(t, e) == [t EXCEPT !.data[SlotOfKey(t, e.key)] = Append(@, e)]
rehash_chain(t, chain) == FoldLeft(rehash_insert, t, chain)

rehash_SameSlots(t) ==
  update_load_thresh([t EXCEPT !.size_idx = @ + 1,
                               !.data = [i \in 0 .. ht_prime_sizes[t.size_idx + 1] - 1 |->
                                           IF i \in DOMAIN t.data THEN t.data[i] ELSE <<>>]])

rehash(t) ==
  LET larger == [WithSize(t.size_idx + 1) EXCEPT !.len = t.len]
      chains == [i \in 1 .. ht_prime_sizes[t.size_idx] |-> t.data[i - 1]]
  IN update_load_thresh(FoldLeft(rehash_chain, larger, chains))

insert(t, key, val) ==
  LET with == [rehash_insert(t, [key |-> key, val |-> val]) EXCEPT !.len = @ + 1]
  IN IF Find(t, key) # 0 THEN [t EXCEPT !.data[SlotOfKey(t, key)][Find(t, key)].val = val]
     ELSE IF with.len = with.load_thresh THEN rehash(with)
     ELSE with

delete(t, key) ==
  IF Find(t, key) = 0 THEN t
  ELSE [t EXCEPT !.data[SlotOfKey(t, key)] = RemoveAt(@, Find(t, key)), !.len = @ - 1]
=============================================================================
