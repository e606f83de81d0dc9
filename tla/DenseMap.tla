------------------------------ MODULE DenseMap ------------------------------
(***************************************************************************)
(* unordered_dense_map: a vector of key-value pairs, and a hash set of the *)
(* positions in that vector.  The set hashes and compares a position by    *)
(* the key that the vector has there, so it is right only while no key     *)
(* moves under an indexed position; and erasing swaps the last pair into   *)
(* the hole.                                                               *)
(*                                                                         *)
(* A hash set keeps an element in the bucket it was hashed to when it was  *)
(* inserted, and looks for it in the bucket that it hashes to now.         *)
(***************************************************************************)
EXTENDS Integers, Sequences, FiniteSets

CONSTANTS Keys,
          Values,
          Hash   \* the bucket of each key

ASSUME KeysAreFinite == IsFiniteSet(Keys)
ASSUME HashAssumption == DOMAIN Hash = Keys

VARIABLES store,       \* the pairs
          index,       \* the hash set: positions of the store, in buckets
          it,          \* the position of a running erase_if, or 0; while it runs:
          doomed,      \* the keys that satisfy its predicate
          num_erased,  \* how many pairs it has erased
          begun        \* the keys there were when it began

vars == <<store, index, it, doomed, num_erased, begun>>
loop == <<it, doomed, num_erased, begun>>

KeysOf(s) == {s[i].key : i \in DOMAIN s}

\* Where the set `idx' over the store s finds a position whose key is k.
FoundIn(idx, s, k) == {e \in idx : e.bucket = Hash[k] /\ s[e.slot].key = k}
Found(k) == FoundIn(index, store, k)

\* A set inserts nothing that it finds already.
Inserted(idx, s, i) ==
    IF FoundIn(idx, s, s[i].key) # {} THEN idx
    ELSE idx \cup {[slot |-> i, bucket |-> Hash[s[i].key]]}

Init == /\ store = <<>>
        /\ index = {}
        /\ it = 0 /\ doomed = {} /\ num_erased = 0 /\ begun = {}
----------------------------------------------------------------------------
\* try_emplace, and insert, emplace and operator[], which call it.
TryEmplace(k, v) ==
    /\ it = 0 /\ Found(k) = {}
    /\ store' = Append(store, [key |-> k, value |-> v])
    /\ index' = Inserted(index, store', Len(store) + 1)
    /\ UNCHANGED loop

\* The index cannot grow (bad_alloc) and the new pair is dropped again.
TryEmplaceFails(k, v) ==
    /\ it = 0 /\ Found(k) = {}
    /\ store' = SubSeq(Append(store, [key |-> k, value |-> v]), 1, Len(store))
    /\ UNCHANGED <<index, loop>>

\* insert_or_assign of a key that is there, at() and iterators written through.
Assign(k, v) ==
    /\ it = 0
    /\ \E e \in Found(k) : store' = [store EXCEPT ![e.slot].value = v]
    /\ UNCHANGED <<index, loop>>

\* Mutant: the pair that was swapped in is not indexed again.
EraseSlotWithoutReindex(i, e) ==
    LET last == Len(store) IN
    /\ store' = SubSeq([store EXCEPT ![i] = store[last]], 1, last - 1)
    /\ index' = (index \ {e}) \ FoundIn(index, store, store[last].key)

\* erase_slot, where e is what the index finds for position i.
EraseSlot(i, e) ==
    LET last == Len(store) IN
    /\ store' = SubSeq([store EXCEPT ![i] = store[last]], 1, last - 1)
    /\ index' = IF i = last THEN index \ {e}
                ELSE Inserted((index \ {e}) \ FoundIn(index \ {e}, store, store[last].key),
                              store', i)

EraseKey(k) ==
    /\ it = 0
    /\ \E e \in Found(k) : EraseSlot(e.slot, e)
    /\ UNCHANGED loop

Clear ==
    /\ it = 0
    /\ store' = <<>> /\ index' = {}
    /\ UNCHANGED loop
----------------------------------------------------------------------------
(* erase_if, one turn of its loop at a time *)

BeginEraseIf(P) ==
    /\ it = 0
    /\ it' = 1 /\ doomed' = P /\ num_erased' = 0 /\ begun' = KeysOf(store)
    /\ UNCHANGED <<store, index>>

\* Mutant: the loop goes on to the next position after an erasure too.
EraseTurnAdvancing ==
    /\ it \in DOMAIN store /\ store[it].key \in doomed
    /\ \E e \in Found(store[it].key) : EraseSlot(it, e)
    /\ it' = it + 1
    /\ num_erased' = num_erased + 1
    /\ UNCHANGED <<doomed, begun>>

\* erase(it) returns the position it erased, which holds another pair now.
EraseTurn ==
    /\ it \in DOMAIN store /\ store[it].key \in doomed
    /\ \E e \in Found(store[it].key) : EraseSlot(it, e)
    /\ num_erased' = num_erased + 1
    /\ UNCHANGED <<it, doomed, begun>>

SkipTurn ==
    /\ it \in DOMAIN store /\ store[it].key \notin doomed
    /\ it' = it + 1
    /\ UNCHANGED <<store, index, doomed, num_erased, begun>>

EndEraseIf ==
    /\ it = Len(store) + 1
    /\ it' = 0 /\ doomed' = {} /\ num_erased' = 0 /\ begun' = {}
    /\ UNCHANGED <<store, index>>

Next ==
    \/ \E k \in Keys, v \in Values : TryEmplace(k, v) \/ TryEmplaceFails(k, v) \/ Assign(k, v)
    \/ \E k \in Keys : EraseKey(k)
    \/ Clear
    \/ \E P \in SUBSET Keys : BeginEraseIf(P)
    \/ EraseTurn \/ SkipTurn \/ EndEraseIf

Spec == Init /\ [][Next]_vars

\* A running erase_if is not left: its thread goes on with the loop.  Nothing is said
\* of when clients call.
FairSpec == Spec /\ WF_vars(EraseTurn \/ SkipTurn \/ EndEraseIf)
----------------------------------------------------------------------------
(* Properties *)

\* The vector holds pairs, and a running erase_if is within it or at its end.
TypeOK ==
    /\ store \in Seq([key : Keys, value : Values])
    /\ index \subseteq [slot : DOMAIN store, bucket : {Hash[k] : k \in Keys}]
    /\ it \in 0..(Len(store) + 1)
    /\ doomed \subseteq Keys
    /\ num_erased \in Nat
    /\ begun \subseteq Keys

\* Each key is stored once, and the index has every position of the store and no
\* other, in the bucket where a lookup of its key will look: iteration and lookup
\* see the same map after any mix of insertions, swaps and failed insertions.
IndexIsStore ==
    /\ \A i, j \in DOMAIN store : store[i].key = store[j].key => i = j
    /\ index = {[slot |-> i, bucket |-> Hash[store[i].key]] : i \in DOMAIN store}

\* erase_if has, when it returns, erased the keys of its predicate and no other,
\* tested every pair including those that swaps brought to where it had been, and
\* counted them.
EraseIfExact ==
    it = Len(store) + 1 =>
        /\ KeysOf(store) = begun \ doomed
        /\ num_erased = Cardinality(begun \cap doomed)

\* erase_if returns, although its loop goes on by an erasure without advancing and the
\* end that it runs to moves.
EraseIfReturns == it # 0 ~> it = 0

\* The map that lookups see.
FoundMap == [k \in {j \in Keys : Found(j) # {}} |->
                store[(CHOOSE e \in Found(k) : TRUE).slot].value]

Map == INSTANCE FiniteMap WITH map <- FoundMap

\* Every operation is, for lookups, that operation of a map.
ImplementsMap == Map!Spec
=============================================================================
