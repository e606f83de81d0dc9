-------------------------- MODULE Containers_proofs --------------------------
(***************************************************************************)
(* The two data structures that the library keeps for itself: the dense    *)
(* map is a map and erase_if erases what it should, for every set of keys  *)
(* and every hash function; and the coalescing buffers compute the rows    *)
(* they should, for any number of columns, terms and rows, as long as      *)
(* register_count does not wrap.                                           *)
(***************************************************************************)
EXTENDS DenseMap, Coalescing, FiniteSetTheorems, SequenceTheorems, TLAPS

----------------------------------------------------------------------------
(* The dense map.  IndexIsStore is inductive together with the types.      *)
(* EraseIfExact speaks of the end of the loop alone; LoopInv is what holds *)
(* at every turn: the positions behind the loop are tested, and what is    *)
(* gone is doomed.                                                         *)

\* What each turn of erase_if keeps.
LoopInv ==
    it # 0 => /\ \A i \in 1..(it - 1) : store[i].key \notin doomed
              /\ KeysOf(store) \subseteq begun
              /\ begun \ KeysOf(store) \subseteq doomed
              /\ num_erased = Cardinality(begun \ KeysOf(store))

\* The inductive invariant.
IInv == TypeOK /\ IndexIsStore /\ LoopInv

\* The index that a store with different keys should have.
IndexOf(s) == {[slot |-> i, bucket |-> Hash[s[i].key]] : i \in DOMAIN s}
DistinctKeys(s) == \A i, j \in DOMAIN s : s[i].key = s[j].key => i = j

\* A lookup of a key that the store has finds its position and nothing else.
LEMMA FoundAtSlot ==
    ASSUME NEW s, DistinctKeys(s), NEW i \in DOMAIN s
    PROVE  FoundIn(IndexOf(s), s, s[i].key) = {[slot |-> i, bucket |-> Hash[s[i].key]]}
<1> DEFINE e == [slot |-> i, bucket |-> Hash[s[i].key]]
<1>1. e \in FoundIn(IndexOf(s), s, s[i].key)
  BY DEF FoundIn, IndexOf
<1>2. ASSUME NEW f \in FoundIn(IndexOf(s), s, s[i].key)
      PROVE  f = e
  <2>1. PICK j \in DOMAIN s : f = [slot |-> j, bucket |-> Hash[s[j].key]]
    BY <1>2 DEF FoundIn, IndexOf
  <2>2. s[j].key = s[i].key
    BY <1>2, <2>1 DEF FoundIn
  <2>3. j = i
    BY <2>2 DEF DistinctKeys
  <2> QED BY <2>1, <2>3
<1> QED BY <1>1, <1>2

\* A lookup of any other key finds nothing.
LEMMA FoundNowhere ==
    ASSUME NEW s, NEW k, k \notin KeysOf(s)
    PROVE  FoundIn(IndexOf(s), s, k) = {}
BY DEF FoundIn, IndexOf, KeysOf

\* A pair with a new key at the end is indexed at the end.
LEMMA AppendIndexed ==
    ASSUME NEW s \in Seq([key : Keys, value : Values]), DistinctKeys(s),
           NEW p \in [key : Keys, value : Values], p.key \notin KeysOf(s)
    PROVE  LET t == Append(s, p) IN
           /\ t \in Seq([key : Keys, value : Values]) /\ Len(t) = Len(s) + 1
           /\ DistinctKeys(t)
           /\ KeysOf(t) = KeysOf(s) \cup {p.key}
           /\ Inserted(IndexOf(s), t, Len(s) + 1) = IndexOf(t)
<1> DEFINE t == Append(s, p)
           n == Len(s) + 1
<1>1. /\ t \in Seq([key : Keys, value : Values]) /\ Len(t) = n /\ n \in Nat
      /\ DOMAIN s = 1..(n - 1) /\ DOMAIN t = 1..n
      /\ t[n] = p /\ \A i \in 1..(n - 1) : t[i] = s[i]
  OBVIOUS
<1>2. \A i \in 1..(n - 1) : t[i].key # p.key
  BY <1>1 DEF KeysOf
<1>3. DistinctKeys(t)
  <2> SUFFICES ASSUME NEW i \in 1..n, NEW j \in 1..n, t[i].key = t[j].key PROVE i = j
    BY <1>1 DEF DistinctKeys
  <2>1. CASE i \in 1..(n - 1) /\ j \in 1..(n - 1)
    BY <2>1, <1>1 DEF DistinctKeys
  <2>2. CASE i = n \/ j = n
    BY <2>2, <1>1, <1>2
  <2> QED BY <2>1, <2>2, <1>1
<1>4. KeysOf(t) = KeysOf(s) \cup {p.key}
  <2>1. KeysOf(t) \subseteq KeysOf(s) \cup {p.key}
    <3> SUFFICES ASSUME NEW i \in 1..n PROVE t[i].key \in KeysOf(s) \cup {p.key}
      BY <1>1 DEF KeysOf
    <3>1. CASE i = n
      BY <3>1, <1>1
    <3>2. CASE i \in 1..(n - 1)
      BY <3>2, <1>1 DEF KeysOf
    <3> QED BY <3>1, <3>2, <1>1
  <2>2. KeysOf(s) \subseteq KeysOf(t)
    <3> SUFFICES ASSUME NEW i \in 1..(n - 1) PROVE s[i].key \in KeysOf(t)
      BY <1>1 DEF KeysOf
    <3>1. i \in DOMAIN t /\ t[i].key = s[i].key
      BY <1>1
    <3> QED BY <3>1 DEF KeysOf
  <2>3. p.key \in KeysOf(t)
    <3>1. n \in DOMAIN t /\ t[n].key = p.key
      BY <1>1
    <3> QED BY <3>1 DEF KeysOf
  <2> QED BY <2>1, <2>2, <2>3
<1>5. FoundIn(IndexOf(s), t, p.key) = {}
  <2> SUFFICES ASSUME NEW i \in 1..(n - 1) PROVE t[i].key # p.key
    BY <1>1 DEF FoundIn, IndexOf
  <2> QED BY <1>2
<1>6. IndexOf(t) = IndexOf(s) \cup {[slot |-> n, bucket |-> Hash[p.key]]}
  <2>1. \A i \in 1..(n - 1) : [slot |-> i, bucket |-> Hash[t[i].key]]
                              = [slot |-> i, bucket |-> Hash[s[i].key]]
    BY <1>1
  <2>2. IndexOf(t) = {[slot |-> i, bucket |-> Hash[t[i].key]] : i \in 1..(n - 1)}
                     \cup {[slot |-> n, bucket |-> Hash[t[n].key]]}
    <3>1. 1..n = 1..(n - 1) \cup {n}
      BY <1>1
    <3> QED BY <1>1, <3>1 DEF IndexOf
  <2>3. {[slot |-> i, bucket |-> Hash[t[i].key]] : i \in 1..(n - 1)} = IndexOf(s)
    BY <2>1, <1>1 DEF IndexOf
  <2> QED BY <2>2, <2>3, <1>1
<1>7. Inserted(IndexOf(s), t, n) = IndexOf(t)
  BY <1>1, <1>5, <1>6 DEF Inserted
<1> QED BY <1>1, <1>3, <1>4, <1>7

\* A position that is not the last.
LEMMA NotLast == ASSUME NEW n \in Nat, NEW j \in 1..n, j # n PROVE j \in 1..(n - 1)
OBVIOUS

\* Swapping the last pair into the hole and dropping the last position.
LEMMA SwappedAndPopped ==
    ASSUME NEW s \in Seq([key : Keys, value : Values]), NEW i \in DOMAIN s, DistinctKeys(s)
    PROVE  LET t == SubSeq([s EXCEPT ![i] = s[Len(s)]], 1, Len(s) - 1) IN
           /\ t \in Seq([key : Keys, value : Values]) /\ Len(t) = Len(s) - 1
           /\ \A j \in 1..(Len(s) - 1) : t[j] = IF j = i THEN s[Len(s)] ELSE s[j]
           /\ DistinctKeys(t)
           /\ KeysOf(t) = KeysOf(s) \ {s[i].key}
<1> DEFINE n == Len(s)
           m == [s EXCEPT ![i] = s[n]]
           t == SubSeq(m, 1, n - 1)
<1>1. n \in Nat /\ DOMAIN s = 1..n /\ i \in 1..n /\ n - 1 \in Nat /\ n \in DOMAIN s
  OBVIOUS
<1>2. /\ m \in Seq([key : Keys, value : Values]) /\ Len(m) = n /\ DOMAIN m = 1..n
      /\ \A j \in 1..n : m[j] = IF j = i THEN s[n] ELSE s[j]
  <2>1. s[n] \in [key : Keys, value : Values]
    BY <1>1, ElementOfSeq
  <2>2. m \in Seq([key : Keys, value : Values])
    BY <2>1, <1>1
  <2>3. Len(m) = n /\ DOMAIN m = 1..n
    BY <2>1, <1>1
  <2>4. \A j \in 1..n : m[j] = IF j = i THEN s[n] ELSE s[j]
    BY <1>1
  <2> QED BY <2>2, <2>3, <2>4
<1> HIDE DEF m
<1>3. /\ t \in Seq([key : Keys, value : Values]) /\ Len(t) = n - 1 /\ DOMAIN t = 1..(n - 1)
      /\ \A j \in 1..(n - 1) : t[j] = m[j]
  <2>1. 1 \in Int /\ n - 1 \in Int /\ 1 <= n /\ n - 1 <= Len(m) /\ \A j \in 1..(n - 1) : j \in 1..Len(m)
    BY <1>1, <1>2
  <2>2. t \in Seq([key : Keys, value : Values])
    <3>1. \A j \in 1..(n - 1) : m[j] \in [key : Keys, value : Values]
      BY <2>1, <1>1, <1>2, ElementOfSeq
    <3> QED BY <2>1, <3>1, <1>1, <1>2
  <2>3. Len(t) = n - 1
    BY <2>1, <1>1, <1>2
  <2>4. DOMAIN t = 1..(n - 1)
    BY <2>2, <2>3
  <2>5. \A j \in 1..(n - 1) : t[j] = m[j]
    BY <2>1, <1>1, <1>2
  <2> QED BY <2>2, <2>3, <2>4, <2>5
<1> HIDE DEF t
<1>4. \A j \in 1..(n - 1) : t[j] = IF j = i THEN s[n] ELSE s[j]
  BY <1>1, <1>2, <1>3
<1>5. DistinctKeys(t)
  <2> SUFFICES ASSUME NEW j \in 1..(n - 1), NEW k \in 1..(n - 1), t[j].key = t[k].key
               PROVE  j = k
    BY <1>3 DEF DistinctKeys
  <2> DEFINE Old(l) == IF l = i THEN n ELSE l
  <2>1. t[j] = s[Old(j)] /\ t[k] = s[Old(k)] /\ Old(j) \in DOMAIN s /\ Old(k) \in DOMAIN s
    BY <1>1, <1>4
  <2>2. Old(j) = Old(k)
    BY <2>1 DEF DistinctKeys
  <2> QED BY <2>2, <1>1
<1>6. KeysOf(t) = KeysOf(s) \ {s[i].key}
  <2>1. ASSUME NEW j \in 1..(n - 1) PROVE t[j].key \in KeysOf(s) \ {s[i].key}
    <3>1. CASE j = i
      <4>1. t[j] = s[n] /\ n # i
        BY <3>1, <1>1, <1>4
      <4> QED BY <4>1, <1>1 DEF KeysOf, DistinctKeys
    <3>2. CASE j # i
      <4>1. t[j] = s[j] /\ j \in DOMAIN s
        BY <3>2, <1>1, <1>4
      <4> QED BY <4>1, <3>2, <1>1 DEF KeysOf, DistinctKeys
    <3> QED BY <3>1, <3>2
  <2>2. ASSUME NEW j \in 1..n, j # i PROVE s[j].key \in KeysOf(t)
    <3>1. CASE j = n
      <4>1. i \in DOMAIN t /\ t[i] = s[n]
        BY <3>1, <2>2, <1>1, <1>3, <1>4
      <4> QED BY <4>1, <3>1 DEF KeysOf
    <3>2. CASE j # n
      <4>1. j \in 1..(n - 1)
        BY <3>2, <1>1, NotLast
      <4>2. j \in DOMAIN t /\ t[j] = s[j]
        BY <4>1, <2>2, <1>3, <1>4
      <4> QED BY <4>2 DEF KeysOf
    <3> QED BY <3>1, <3>2
  <2>3. KeysOf(t) \subseteq KeysOf(s) \ {s[i].key}
    BY <2>1, <1>3 DEF KeysOf
  <2>4. KeysOf(s) \ {s[i].key} \subseteq KeysOf(t)
    BY <2>2, <1>1 DEF KeysOf
  <2> QED BY <2>3, <2>4
<1> QED BY <1>3, <1>4, <1>5, <1>6 DEF t, m

\* What erase_slot does, in the middle or at the end: the pair is gone, the last
\* one is where it was, and the index is the index of that.
LEMMA EraseSlotIndexed ==
    ASSUME store \in Seq([key : Keys, value : Values]), IndexIsStore,
           NEW i \in DOMAIN store, NEW e \in Found(store[i].key), EraseSlot(i, e)
    PROVE  /\ store' \in Seq([key : Keys, value : Values])
           /\ Len(store') = Len(store) - 1
           /\ \A j \in 1..(Len(store) - 1) :
                  store'[j] = IF j = i THEN store[Len(store)] ELSE store[j]
           /\ KeysOf(store') = KeysOf(store) \ {store[i].key}
           /\ IndexIsStore'
<1> DEFINE n == Len(store)
           Entry(j) == [slot |-> j, bucket |-> Hash[store[j].key]]
<1>1. n \in Nat /\ DOMAIN store = 1..n /\ i \in 1..n /\ n \in DOMAIN store
  OBVIOUS
<1>2. DistinctKeys(store) /\ index = IndexOf(store)
  BY DEF IndexIsStore, DistinctKeys, IndexOf
<1>3. e = Entry(i)
  BY <1>2, FoundAtSlot DEF Found
<1>4. store' = SubSeq([store EXCEPT ![i] = store[Len(store)]], 1, Len(store) - 1)
  BY DEF EraseSlot
<1>5. /\ store' \in Seq([key : Keys, value : Values]) /\ Len(store') = n - 1
      /\ \A j \in 1..(n - 1) : store'[j] = IF j = i THEN store[n] ELSE store[j]
      /\ DistinctKeys(store')
      /\ KeysOf(store') = KeysOf(store) \ {store[i].key}
  BY <1>2, <1>4, SwappedAndPopped
<1>6. DOMAIN store' = 1..(n - 1)
  BY <1>5, <1>1
<1>7. index' = IndexOf(store')
  <2>1. CASE i = n
    <3>1. \A j \in 1..(n - 1) : store'[j] = store[j]
      BY <2>1, <1>1, <1>5
    <3>2. IndexOf(store') = {Entry(j) : j \in 1..(n - 1)}
      BY <3>1, <1>6 DEF IndexOf
    <3>3. IndexOf(store) \ {Entry(n)} = {Entry(j) : j \in 1..(n - 1)}
      <4>1. \A j, k \in 1..n : Entry(j) = Entry(k) => j = k
        OBVIOUS
      <4>2. 1..(n - 1) = (1..n) \ {n}
        BY <1>1
      <4> QED BY <4>1, <4>2, <1>1 DEF IndexOf
    <3>4. index' = IndexOf(store) \ {Entry(n)}
      BY <2>1, <1>2, <1>3 DEF EraseSlot
    <3> QED BY <3>2, <3>3, <3>4
  <2>2. CASE i # n
    <3> DEFINE rest == IndexOf(store) \ {Entry(i)}
               others == rest \ FoundIn(rest, store, store[n].key)
    <3>1. \A j, k \in 1..n : Entry(j) = Entry(k) => j = k
      OBVIOUS
    <3>2. rest = {Entry(j) : j \in (1..n) \ {i}}
      BY <3>1, <1>1 DEF IndexOf
    <3>3. FoundIn(rest, store, store[n].key) = {Entry(n)}
      <4>1. FoundIn(rest, store, store[n].key)
            = FoundIn(IndexOf(store), store, store[n].key) \ {Entry(i)}
        BY DEF FoundIn
      <4>2. FoundIn(IndexOf(store), store, store[n].key) = {Entry(n)}
        BY <1>1, <1>2, FoundAtSlot
      <4>3. Entry(n) # Entry(i)
        BY <2>2, <3>1, <1>1
      <4> QED BY <4>1, <4>2, <4>3
    <3>4. others = {Entry(j) : j \in (1..(n - 1)) \ {i}}
      <4>1. (1..n) \ {i, n} = (1..(n - 1)) \ {i}
        BY <1>1
      <4> QED BY <3>1, <3>2, <3>3, <4>1, <1>1, ZenonT(60)
    <3>5. index' = Inserted(others, store', i)
      BY <2>2, <1>2, <1>3 DEF EraseSlot
    <3>6. i \in 1..(n - 1) /\ store'[i] = store[n]
      BY <2>2, <1>1, <1>5
    <3>7. FoundIn(others, store', store'[i].key) = {}
      <4> SUFFICES ASSUME NEW j \in (1..(n - 1)) \ {i}
                   PROVE  store'[j].key # store'[i].key
        BY <3>4 DEF FoundIn
      <4> QED BY <3>6, <1>5, <1>6 DEF DistinctKeys
    <3>8. \A j \in (1..(n - 1)) \ {i} :
              Entry(j) = [slot |-> j, bucket |-> Hash[store'[j].key]]
      BY <1>5
    <3>9. IndexOf(store') = {[slot |-> j, bucket |-> Hash[store'[j].key]] :
                                  j \in (1..(n - 1)) \ {i}}
                            \cup {[slot |-> i, bucket |-> Hash[store'[i].key]]}
      BY <3>6, <1>6 DEF IndexOf
    <3> DEFINE Moved(j) == [slot |-> j, bucket |-> Hash[store'[j].key]]
               stay == (1..(n - 1)) \ {i}
    <3>10. others = {Moved(j) : j \in stay}
      <4> HIDE DEF others
      <4>1. \A j \in stay : Entry(j) = Moved(j)
        BY <3>8
      <4> HIDE DEF Entry, Moved
      <4>2. \A x : x \in others <=> \E j \in stay : x = Entry(j)
        BY <3>4
      <4> HIDE DEF stay
      <4> QED BY <4>1, <4>2
    <3> HIDE DEF others
    <3> QED BY <3>5, <3>7, <3>9, <3>10 DEF Inserted
  <2> QED BY <2>1, <2>2
<1>8. IndexIsStore'
  BY <1>5, <1>7 DEF IndexIsStore, DistinctKeys, IndexOf
<1> QED BY <1>5, <1>8
----------------------------------------------------------------------------
Pairs == [key : Keys, value : Values]

\* What the invariant says of the store and the index, in the operators above.
LEMMA IndexIsStoreIs == IndexIsStore <=> DistinctKeys(store) /\ index = IndexOf(store)
BY DEF IndexIsStore, DistinctKeys, IndexOf

LEMMA IndexTyped ==
    ASSUME NEW s \in Seq(Pairs)
    PROVE  IndexOf(s) \subseteq [slot : DOMAIN s, bucket : {Hash[k] : k \in Keys}]
<1> SUFFICES ASSUME NEW i \in DOMAIN s PROVE s[i].key \in Keys
  BY DEF IndexOf
<1>1. s[i] \in Pairs
  BY ElementOfSeq
<1> QED BY <1>1 DEF Pairs

\* The keys of a store are keys, and finitely many.
LEMMA KeysOfTyped == ASSUME NEW s \in Seq(Pairs) PROVE KeysOf(s) \subseteq Keys
<1> SUFFICES ASSUME NEW i \in DOMAIN s PROVE s[i].key \in Keys
  BY DEF KeysOf
<1>1. s[i] \in Pairs
  BY ElementOfSeq
<1> QED BY <1>1 DEF Pairs

\* A key that is not found is not stored.
LEMMA NotFoundNotStored ==
    ASSUME IndexIsStore, NEW k, Found(k) = {}
    PROVE  k \notin KeysOf(store)
<1> SUFFICES ASSUME NEW i \in DOMAIN store, store[i].key = k PROVE FALSE
  BY DEF KeysOf
<1> QED BY IndexIsStoreIs, FoundAtSlot DEF Found

\* Where a key is found it is stored.
LEMMA FoundIsStored ==
    ASSUME IndexIsStore, NEW k, NEW e \in Found(k)
    PROVE  e.slot \in DOMAIN store /\ store[e.slot].key = k
BY IndexIsStoreIs DEF Found, FoundIn, IndexOf

\* While no erase_if runs, the types and the index are all there is to show.
LEMMA AtRest ==
    ASSUME store' \in Seq(Pairs), DistinctKeys(store'), index' = IndexOf(store'),
           it' = 0, doomed' = doomed, num_erased' = num_erased, begun' = begun, TypeOK
    PROVE  IInv'
<1>1. IndexIsStore'
  BY DEF IndexIsStore, DistinctKeys, IndexOf
<1>2. LoopInv'
  BY DEF LoopInv
<1>3. TypeOK'
  <2>1. index' \subseteq [slot : DOMAIN store', bucket : {Hash[k] : k \in Keys}]
    BY IndexTyped
  <2>2. 0 \in 0..(Len(store') + 1)
    OBVIOUS
  <2> QED BY <2>1, <2>2 DEF TypeOK, Pairs
<1> QED BY <1>1, <1>2, <1>3 DEF IInv

LEMMA InitIInv == Init => IInv
<1> SUFFICES ASSUME Init PROVE IInv
  OBVIOUS
<1>1. store \in Seq(Pairs) /\ Len(store) = 0 /\ DOMAIN store = {}
  BY EmptySeq DEF Init
<1>2. IndexIsStore
  BY <1>1 DEF Init, IndexIsStore
<1>3. TypeOK
  BY <1>1 DEF Init, TypeOK, Pairs
<1> QED BY <1>2, <1>3 DEF Init, IInv, LoopInv

LEMMA TryEmplaceIInv ==
    ASSUME IInv, NEW k \in Keys, NEW v \in Values, TryEmplace(k, v) PROVE IInv'
<1> DEFINE p == [key |-> k, value |-> v]
<1>1. store \in Seq(Pairs) /\ DistinctKeys(store) /\ index = IndexOf(store) /\ p \in Pairs
  BY IndexIsStoreIs DEF IInv, TypeOK, Pairs
<1>2. p.key \notin KeysOf(store)
  BY NotFoundNotStored DEF TryEmplace, IInv
<1>3. /\ store' = Append(store, p) /\ index' = Inserted(IndexOf(store), Append(store, p), Len(store) + 1)
      /\ it' = 0 /\ doomed' = doomed /\ num_erased' = num_erased /\ begun' = begun
  BY <1>1 DEF TryEmplace, loop
<1> HIDE DEF p
<1>4. store' \in Seq(Pairs) /\ DistinctKeys(store') /\ index' = IndexOf(store')
  BY <1>1, <1>2, <1>3, AppendIndexed DEF Pairs
<1> QED BY <1>3, <1>4, AtRest DEF IInv

\* The new pair is dropped: the store is what it was.
LEMMA AppendAndPop ==
    ASSUME NEW s \in Seq(Pairs), NEW p \in Pairs
    PROVE  SubSeq(Append(s, p), 1, Len(s)) = s
<1> DEFINE t == Append(s, p)
           n == Len(s)
<1>1. n \in Nat /\ t \in Seq(Pairs) /\ Len(t) = n + 1 /\ DOMAIN s = 1..n
      /\ \A i \in 1..n : t[i] = s[i]
  OBVIOUS
<1> HIDE DEF t
<1>2. \A i \in 1..n : t[i] \in Pairs
  BY <1>1, ElementOfSeq
<1>3. \A i \in 1..n : i \in 1..Len(t)
  BY <1>1
<1>4. /\ SubSeq(t, 1, n) \in Seq(Pairs) /\ Len(SubSeq(t, 1, n)) = n
      /\ \A i \in 1..n : SubSeq(t, 1, n)[i] = t[i]
  BY <1>1, <1>2, <1>3
<1> HIDE DEF n
<1> QED BY <1>1, <1>4, SeqEqual DEF n, t

LEMMA TryEmplaceFailsIInv ==
    ASSUME IInv, NEW k \in Keys, NEW v \in Values, TryEmplaceFails(k, v) PROVE IInv'
<1>1. store \in Seq(Pairs) /\ [key |-> k, value |-> v] \in Pairs
  BY DEF IInv, TypeOK, Pairs
<1>2. store' = store /\ UNCHANGED <<index, loop>> /\ it = 0
  BY <1>1, AppendAndPop DEF TryEmplaceFails
<1> QED BY <1>1, <1>2, AtRest, IndexIsStoreIs DEF IInv, loop

LEMMA AssignIInv ==
    ASSUME IInv, NEW k \in Keys, NEW v \in Values, Assign(k, v) PROVE IInv'
<1>1. store \in Seq(Pairs) /\ DistinctKeys(store) /\ index = IndexOf(store)
  BY IndexIsStoreIs DEF IInv, TypeOK, Pairs
<1>2. PICK e \in Found(k) : store' = [store EXCEPT ![e.slot].value = v]
  BY DEF Assign
<1> DEFINE i == e.slot
           q == [store[i] EXCEPT !.value = v]
<1>3. i \in DOMAIN store /\ store[i] \in Pairs
  BY <1>1, FoundIsStored, ElementOfSeq DEF IInv
<1>4. q \in Pairs /\ q.key = store[i].key
  BY <1>3 DEF Pairs
<1>5. store' = [store EXCEPT ![i] = q]
  BY <1>2
<1> HIDE DEF i, q
<1>6. store' \in Seq(Pairs) /\ DOMAIN store' = DOMAIN store
      /\ \A j \in DOMAIN store : store'[j].key = store[j].key
  BY <1>1, <1>3, <1>4, <1>5
<1>7. DistinctKeys(store') /\ IndexOf(store') = IndexOf(store)
  <2>1. DistinctKeys(store')
    BY <1>1, <1>6 DEF DistinctKeys
  <2>2. \A j \in DOMAIN store : [slot |-> j, bucket |-> Hash[store'[j].key]]
                                = [slot |-> j, bucket |-> Hash[store[j].key]]
    BY <1>6
  <2> QED BY <2>1, <2>2, <1>6 DEF IndexOf
<1> QED BY <1>1, <1>6, <1>7, AtRest DEF Assign, loop, IInv

LEMMA EraseKeyIInv == ASSUME IInv, NEW k \in Keys, EraseKey(k) PROVE IInv'
<1>1. PICK e \in Found(k) : EraseSlot(e.slot, e)
  BY DEF EraseKey
<1>2. e.slot \in DOMAIN store /\ store[e.slot].key = k
  BY FoundIsStored DEF IInv
<1>3. store' \in Seq(Pairs) /\ IndexIsStore'
  BY <1>1, <1>2, EraseSlotIndexed DEF IInv, TypeOK, Pairs
<1>4. DistinctKeys(store') /\ index' = IndexOf(store')
  BY <1>3 DEF IndexIsStore, DistinctKeys, IndexOf
<1> QED BY <1>3, <1>4, AtRest DEF EraseKey, loop, IInv

LEMMA ClearIInv == ASSUME IInv, Clear PROVE IInv'
<1>1. store' \in Seq(Pairs) /\ DOMAIN store' = {} /\ index' = {}
  BY EmptySeq DEF Clear
<1>2. DistinctKeys(store') /\ index' = IndexOf(store')
  BY <1>1 DEF DistinctKeys, IndexOf
<1> QED BY <1>1, <1>2, AtRest DEF Clear, loop, IInv

LEMMA BeginEraseIfIInv == ASSUME IInv, NEW P \in SUBSET Keys, BeginEraseIf(P) PROVE IInv'
<1>1. store \in Seq(Pairs) /\ UNCHANGED <<store, index>>
      /\ it' = 1 /\ doomed' = P /\ num_erased' = 0 /\ begun' = KeysOf(store)
  BY DEF BeginEraseIf, IInv, TypeOK, Pairs
<1>2. IndexIsStore'
  BY <1>1 DEF IndexIsStore, IInv
<1>3. TypeOK'
  <2>1. 1 \in 0..(Len(store) + 1) /\ 0 \in Nat
    BY <1>1
  <2>2. KeysOf(store) \subseteq Keys
    BY <1>1, KeysOfTyped
  <2> QED BY <1>1, <2>1, <2>2 DEF TypeOK, IInv
<1>4. LoopInv'
  <2>1. KeysOf(store') = KeysOf(store)
    BY <1>1
  <2>2. KeysOf(store) \ KeysOf(store) = {} /\ Cardinality({}) = 0
    BY FS_EmptySet
  <2>3. 1..(1 - 1) = {}
    OBVIOUS
  <2> QED BY <1>1, <2>1, <2>2, <2>3 DEF LoopInv
<1> QED BY <1>2, <1>3, <1>4 DEF IInv

\* An erasure in the loop: the pair swapped in is tested in the next turn, and the
\* keys that are gone are one more.
LEMMA EraseTurnIInv == ASSUME IInv, EraseTurn PROVE IInv'
<1> DEFINE n == Len(store)
           k == store[it].key
<1>1. store \in Seq(Pairs) /\ n \in Nat /\ DOMAIN store = 1..n /\ it \in 1..n /\ k \in doomed
      /\ num_erased' = num_erased + 1 /\ UNCHANGED <<it, doomed, begun>>
      /\ doomed \subseteq Keys /\ begun \subseteq Keys /\ num_erased \in Nat
  BY DEF EraseTurn, IInv, TypeOK, Pairs
<1>2. PICK e \in Found(k) : EraseSlot(it, e)
  BY DEF EraseTurn
<1>3. /\ store' \in Seq(Pairs) /\ Len(store') = n - 1
      /\ \A j \in 1..(n - 1) : store'[j] = IF j = it THEN store[n] ELSE store[j]
      /\ KeysOf(store') = KeysOf(store) \ {k}
      /\ IndexIsStore'
  BY <1>1, <1>2, EraseSlotIndexed DEF IInv, Pairs
<1>4. TypeOK'
  <2>1. it' \in 0..(Len(store') + 1) /\ num_erased' \in Nat
    BY <1>1, <1>3
  <2>2. index' \subseteq [slot : DOMAIN store', bucket : {Hash[j] : j \in Keys}]
    <3>1. index' = IndexOf(store')
      BY <1>3 DEF IndexIsStore, IndexOf
    <3> QED BY <3>1, <1>3, IndexTyped
  <2> QED BY <2>1, <2>2, <1>1, <1>3 DEF TypeOK, Pairs
<1>5. LoopInv'
  <2>1. /\ \A j \in 1..(it - 1) : store[j].key \notin doomed
        /\ KeysOf(store) \subseteq begun /\ begun \ KeysOf(store) \subseteq doomed
        /\ num_erased = Cardinality(begun \ KeysOf(store))
    BY <1>1 DEF IInv, LoopInv
  <2>2. \A j \in 1..(it - 1) : store'[j].key \notin doomed
    <3> SUFFICES ASSUME NEW j \in 1..(it - 1) PROVE store'[j] = store[j]
      BY <2>1
    <3>1. j \in 1..(n - 1) /\ j # it
      BY <1>1
    <3> QED BY <3>1, <1>3
  <2>3. k \in KeysOf(store)
    BY <1>1 DEF KeysOf
  <2>4. begun \ KeysOf(store') = (begun \ KeysOf(store)) \cup {k}
    BY <1>3, <2>1, <2>3
  <2>5. Cardinality((begun \ KeysOf(store)) \cup {k}) = Cardinality(begun \ KeysOf(store)) + 1
    <3>1. IsFiniteSet(begun \ KeysOf(store))
      BY <1>1, KeysAreFinite, FS_Subset
    <3> QED BY <3>1, <2>3, FS_AddElement
  <2>6. KeysOf(store') \subseteq begun /\ begun \ KeysOf(store') \subseteq doomed
    BY <1>1, <1>3, <2>1, <2>4
  <2>7. num_erased' = Cardinality(begun \ KeysOf(store'))
    BY <1>1, <2>1, <2>4, <2>5
  <2> QED BY <1>1, <2>2, <2>6, <2>7 DEF LoopInv
<1> QED BY <1>3, <1>4, <1>5 DEF IInv

LEMMA SkipTurnIInv == ASSUME IInv, SkipTurn PROVE IInv'
<1>1. store \in Seq(Pairs) /\ Len(store) \in Nat /\ it \in 1..Len(store)
      /\ store[it].key \notin doomed /\ it' = it + 1
      /\ UNCHANGED <<store, index, doomed, num_erased, begun>>
  BY DEF SkipTurn, IInv, TypeOK, Pairs
<1>2. it' \in 0..(Len(store) + 1) /\ it # 0 /\ \A j \in 1..(it' - 1) : j = it \/ j \in 1..(it - 1)
  BY <1>1
<1>3. TypeOK'
  BY <1>1, <1>2 DEF TypeOK, IInv
<1>4. LoopInv'
  <2>1. KeysOf(store') = KeysOf(store)
    BY <1>1
  <2> QED BY <1>1, <1>2, <2>1 DEF LoopInv, IInv
<1>5. IndexIsStore'
  BY <1>1 DEF IndexIsStore, IInv
<1> QED BY <1>3, <1>4, <1>5 DEF IInv

LEMMA EndEraseIfIInv == ASSUME IInv, EndEraseIf PROVE IInv'
<1>1. store \in Seq(Pairs) /\ UNCHANGED <<store, index>>
      /\ it' = 0 /\ doomed' = {} /\ num_erased' = 0 /\ begun' = {}
  BY DEF EndEraseIf, IInv, TypeOK, Pairs
<1>2. IndexIsStore' /\ LoopInv'
  BY <1>1 DEF IndexIsStore, LoopInv, IInv
<1>3. 0 \in 0..(Len(store) + 1)
  BY <1>1
<1>4. TypeOK'
  BY <1>1, <1>3 DEF TypeOK, IInv
<1> QED BY <1>2, <1>4 DEF IInv

LEMMA NextIInv == IInv /\ [Next]_vars => IInv'
<1> SUFFICES ASSUME IInv, [Next]_vars PROVE IInv'
  OBVIOUS
<1>1. CASE UNCHANGED vars
  BY <1>1 DEF vars, IInv, TypeOK, IndexIsStore, LoopInv, KeysOf
<1>2. ASSUME NEW k \in Keys, NEW v \in Values, TryEmplace(k, v) PROVE IInv'
  BY <1>2, TryEmplaceIInv
<1>3. ASSUME NEW k \in Keys, NEW v \in Values, TryEmplaceFails(k, v) PROVE IInv'
  BY <1>3, TryEmplaceFailsIInv
<1>4. ASSUME NEW k \in Keys, NEW v \in Values, Assign(k, v) PROVE IInv'
  BY <1>4, AssignIInv
<1>5. ASSUME NEW k \in Keys, EraseKey(k) PROVE IInv'
  BY <1>5, EraseKeyIInv
<1>6. ASSUME NEW P \in SUBSET Keys, BeginEraseIf(P) PROVE IInv'
  BY <1>6, BeginEraseIfIInv
<1> QED
  BY <1>1, <1>2, <1>3, <1>4, <1>5, <1>6,
     ClearIInv, EraseTurnIInv, SkipTurnIInv, EndEraseIfIInv DEF Next
----------------------------------------------------------------------------
\* Each key is stored once, and the index has every position of the store and no
\* other, in the bucket where a lookup of its key will look.
THEOREM IndexStaysStore == Spec => [](TypeOK /\ IndexIsStore)
<1>1. IInv => TypeOK /\ IndexIsStore
  BY DEF IInv
<1> QED BY <1>1, InitIInv, NextIInv, PTL DEF Spec

\* When erase_if returns it has erased the keys of its predicate and no other,
\* and has counted them.
THEOREM EraseIfErases == Spec => []EraseIfExact
<1>1. ASSUME IInv PROVE EraseIfExact
  <2> SUFFICES ASSUME it = Len(store) + 1
               PROVE  /\ KeysOf(store) = begun \ doomed
                      /\ num_erased = Cardinality(begun \cap doomed)
    BY DEF EraseIfExact
  <2>1. Len(store) \in Nat /\ DOMAIN store = 1..Len(store) /\ it # 0 /\ it - 1 = Len(store)
    BY <1>1 DEF IInv, TypeOK
  <2>2. \A k \in KeysOf(store) : k \notin doomed
    BY <1>1, <2>1 DEF IInv, LoopInv, KeysOf
  <2>3. /\ KeysOf(store) \subseteq begun /\ begun \ KeysOf(store) \subseteq doomed
        /\ num_erased = Cardinality(begun \ KeysOf(store))
    BY <1>1, <2>1 DEF IInv, LoopInv
  <2>4. begun \cap doomed = begun \ KeysOf(store)
    BY <2>2, <2>3
  <2> QED BY <2>2, <2>3, <2>4
<1>2. IInv => EraseIfExact
  BY <1>1
<1> QED BY <1>2, InitIInv, NextIInv, PTL DEF Spec
----------------------------------------------------------------------------
(* What lookups see *)

\* The map that lookups see in a store with different keys and its index.
Lookup(s) ==
    [k \in {j \in Keys : FoundIn(IndexOf(s), s, j) # {}} |->
        s[(CHOOSE e \in FoundIn(IndexOf(s), s, k) : TRUE).slot].value]

\* A function is the map of s.
IsMapOf(f, s) == /\ f = [k \in KeysOf(s) |-> f[k]]
                 /\ \A i \in DOMAIN s : f[s[i].key] = s[i].value

\* Lookups find the value of each key that is stored, and no other key.
LEMMA LookupFinds ==
    ASSUME NEW s \in Seq(Pairs), DistinctKeys(s)
    PROVE  IsMapOf(Lookup(s), s)
<1>1. {j \in Keys : FoundIn(IndexOf(s), s, j) # {}} = KeysOf(s)
  <2>1. ASSUME NEW k \in KeysOf(s) PROVE k \in Keys /\ FoundIn(IndexOf(s), s, k) # {}
    <3>1. PICK i \in DOMAIN s : s[i].key = k
      BY DEF KeysOf
    <3> QED BY <3>1, FoundAtSlot, KeysOfTyped, ZenonT(60)
  <2>2. ASSUME NEW k \in Keys, FoundIn(IndexOf(s), s, k) # {} PROVE k \in KeysOf(s)
    BY <2>2, FoundNowhere
  <2> QED BY <2>1, <2>2
<1>2. ASSUME NEW i \in DOMAIN s PROVE Lookup(s)[s[i].key] = s[i].value
  <2> DEFINE k == s[i].key
             e == [slot |-> i, bucket |-> Hash[k]]
  <2>1. k \in KeysOf(s)
    BY DEF KeysOf
  <2>2. FoundIn(IndexOf(s), s, k) = {e}
    BY FoundAtSlot
  <2>3. (CHOOSE f \in FoundIn(IndexOf(s), s, k) : TRUE) = e
    BY <2>2
  <2>4. Lookup(s)[k] = s[(CHOOSE f \in FoundIn(IndexOf(s), s, k) : TRUE).slot].value
    BY <1>1, <2>1 DEF Lookup
  <2>5. e.slot = i
    OBVIOUS
  <2> HIDE DEF e
  <2> QED BY <2>3, <2>4, <2>5
<1>3. Lookup(s) = [k \in KeysOf(s) |-> Lookup(s)[k]]
  BY <1>1 DEF Lookup
<1> QED BY <1>2, <1>3 DEF IsMapOf

\* Two functions on the same keys with the same values are one map.
LEMMA SameMap ==
    ASSUME NEW D, NEW f, NEW g, f = [k \in D |-> f[k]], g = [k \in D |-> g[k]],
           \A k \in D : f[k] = g[k]
    PROVE  f = g
OBVIOUS

\* Under the invariant lookups see the map of the store.
LEMMA FoundMapIsMap ==
    ASSUME store \in Seq(Pairs), IndexIsStore
    PROVE  IsMapOf(FoundMap, store)
<1>1. FoundMap = Lookup(store)
  BY IndexIsStoreIs DEF FoundMap, Found, Lookup
<1> QED BY <1>1, LookupFinds, IndexIsStoreIs

\* ... and in the next state.
LEMMA FoundMapIsMapNext ==
    ASSUME store' \in Seq(Pairs), IndexIsStore'
    PROVE  IsMapOf(FoundMap', store')
<1>1. DistinctKeys(store') /\ index' = IndexOf(store')
  BY DEF IndexIsStore, DistinctKeys, IndexOf
<1>2. FoundMap' = Lookup(store')
  BY <1>1 DEF FoundMap, Found, Lookup
<1> QED BY <1>1, <1>2, LookupFinds

\* A step that keeps the pairs keeps the map.
LEMMA SamePairsSameMap ==
    ASSUME store \in Seq(Pairs), IndexIsStore, store' = store, index' = index
    PROVE  FoundMap' = FoundMap
BY DEF FoundMap, Found

\* Erasing a position erases its key from the map.
LEMMA EraseSlotErases ==
    ASSUME store \in Seq(Pairs), IndexIsStore, NEW i \in DOMAIN store,
           NEW e \in Found(store[i].key), EraseSlot(i, e)
    PROVE  Map!Erase(store[i].key)
<1> DEFINE n == Len(store)
           k == store[i].key
           f == FoundMap
           g == FoundMap'
           D == KeysOf(store) \ {k}
<1>1. /\ store' \in Seq(Pairs) /\ Len(store') = n - 1 /\ n \in Nat /\ i \in 1..n
      /\ DOMAIN store = 1..n /\ DOMAIN store' = 1..(n - 1)
      /\ \A j \in 1..(n - 1) : store'[j] = IF j = i THEN store[n] ELSE store[j]
      /\ KeysOf(store') = D
      /\ IndexIsStore'
  BY EraseSlotIndexed DEF Pairs
<1>2. IsMapOf(f, store) /\ IsMapOf(g, store')
  BY <1>1, FoundMapIsMap, FoundMapIsMapNext
<1> HIDE DEF f, g
<1>3. ASSUME NEW d \in D PROVE g[d] = f[d]
  <2>1. PICK j \in 1..(n - 1) : store'[j].key = d
    BY <1>1 DEF KeysOf
  <2> DEFINE o == IF j = i THEN n ELSE j
  <2>2. o \in 1..n /\ store'[j] = store[o]
    BY <1>1
  <2> HIDE DEF o
  <2>3. g[d] = store'[j].value
    BY <1>1, <1>2, <2>1 DEF IsMapOf
  <2>4. f[d] = store[o].value
    BY <1>1, <1>2, <2>1, <2>2 DEF IsMapOf
  <2> QED BY <2>2, <2>3, <2>4
<1>4. g = [d \in D |-> g[d]] /\ f = [d \in KeysOf(store) |-> f[d]]
  BY <1>1, <1>2 DEF IsMapOf
<1>5. DOMAIN f = KeysOf(store) /\ k \in KeysOf(store)
  BY <1>4, <1>1 DEF KeysOf
<1>6. g = [d \in DOMAIN f \ {k} |-> f[d]]
  <2> DEFINE h == [d \in D |-> f[d]]
  <2>1. h = [d \in D |-> h[d]] /\ \A d \in D : g[d] = h[d]
    BY <1>3
  <2> HIDE DEF h, D
  <2>2. g = h
    BY <1>4, <2>1, SameMap
  <2> QED BY <2>2, <1>5 DEF h, D
<1> QED BY <1>5, <1>6 DEF f, g, Map!Erase

LEMMA TryEmplaceMaps ==
    ASSUME IInv, IInv', NEW k \in Keys, NEW v \in Values, TryEmplace(k, v)
    PROVE  Map!TryEmplace(k, v)
<1> DEFINE f == FoundMap
           g == FoundMap'
           n == Len(store)
           p == [key |-> k, value |-> v]
<1>1. /\ store \in Seq(Pairs) /\ DistinctKeys(store) /\ IndexIsStore /\ p \in Pairs
      /\ store' \in Seq(Pairs) /\ IndexIsStore' /\ store' = Append(store, p)
  BY IndexIsStoreIs DEF IInv, TypeOK, Pairs, TryEmplace
<1>2. k \notin KeysOf(store)
  BY NotFoundNotStored DEF TryEmplace, IInv
<1>3. KeysOf(store') = KeysOf(store) \cup {k}
  BY <1>1, <1>2, AppendIndexed DEF Pairs
<1>4. /\ n \in Nat /\ DOMAIN store = 1..n /\ DOMAIN store' = 1..(n + 1)
      /\ store'[n + 1] = p /\ \A i \in 1..n : store'[i] = store[i]
  BY <1>1
<1>5. IsMapOf(f, store) /\ IsMapOf(g, store')
  BY <1>1, FoundMapIsMap, FoundMapIsMapNext
<1> HIDE DEF f, g
<1>6. g[k] = v
  <2>1. n + 1 \in DOMAIN store' /\ store'[n + 1].key = k /\ store'[n + 1].value = v
    BY <1>4
  <2> QED BY <2>1, <1>5 DEF IsMapOf
<1>7. ASSUME NEW d \in KeysOf(store) PROVE g[d] = f[d]
  <2>1. PICK i \in 1..n : store[i].key = d
    BY <1>4 DEF KeysOf
  <2>2. i \in DOMAIN store' /\ store'[i] = store[i]
    BY <1>4
  <2>3. g[d] = store'[i].value
    BY <1>5, <2>1, <2>2 DEF IsMapOf
  <2>4. f[d] = store[i].value
    BY <1>4, <1>5, <2>1 DEF IsMapOf
  <2> QED BY <2>2, <2>3, <2>4
<1>8. /\ DOMAIN f = KeysOf(store) /\ k \notin DOMAIN f
      /\ g = [d \in KeysOf(store) \cup {k} |-> g[d]]
  BY <1>2, <1>3, <1>5 DEF IsMapOf
<1>9. g = [d \in DOMAIN f \cup {k} |-> IF d = k THEN v ELSE f[d]]
  BY <1>6, <1>7, <1>8, <1>2
<1> QED BY <1>8, <1>9 DEF f, g, Map!TryEmplace

LEMMA AssignMaps ==
    ASSUME IInv, IInv', NEW k \in Keys, NEW v \in Values, Assign(k, v)
    PROVE  Map!Assign(k, v)
<1> DEFINE f == FoundMap
           g == FoundMap'
<1>1. store \in Seq(Pairs) /\ IndexIsStore /\ store' \in Seq(Pairs) /\ IndexIsStore'
      /\ DistinctKeys(store)
  BY IndexIsStoreIs DEF IInv, TypeOK, Pairs
<1>2. PICK e \in Found(k) : store' = [store EXCEPT ![e.slot].value = v]
  BY DEF Assign
<1> DEFINE i == e.slot
<1>3. i \in DOMAIN store /\ store[i].key = k /\ store[i] \in Pairs
  BY <1>1, FoundIsStored, ElementOfSeq
<1>4. /\ DOMAIN store' = DOMAIN store
      /\ store'[i].key = k /\ store'[i].value = v
      /\ \A j \in DOMAIN store : j # i => store'[j] = store[j]
      /\ \A j \in DOMAIN store : store'[j].key = store[j].key
  <2> DEFINE q == [store[i] EXCEPT !.value = v]
  <2>1. q.key = k /\ q.value = v
    BY <1>3 DEF Pairs
  <2>2. store' = [store EXCEPT ![i] = q]
    BY <1>2
  <2> HIDE DEF q, i
  <2> QED BY <1>1, <1>3, <2>1, <2>2
<1>5. IsMapOf(f, store) /\ IsMapOf(g, store')
  BY <1>1, FoundMapIsMap, FoundMapIsMapNext
<1> HIDE DEF f, g, i
<1>6. KeysOf(store') = KeysOf(store)
  BY <1>4 DEF KeysOf
<1>7. g[k] = v
  BY <1>3, <1>4, <1>5 DEF IsMapOf
<1>8. ASSUME NEW d \in KeysOf(store), d # k PROVE g[d] = f[d]
  <2>1. PICK j \in DOMAIN store : store[j].key = d
    BY DEF KeysOf
  <2>2. store'[j] = store[j]
    BY <1>3, <1>4, <1>8, <2>1
  <2>3. g[d] = store'[j].value /\ f[d] = store[j].value
    BY <1>4, <1>5, <2>1 DEF IsMapOf
  <2> QED BY <2>2, <2>3
<1>9. DOMAIN f = KeysOf(store) /\ g = [d \in KeysOf(store) |-> g[d]]
      /\ k \in KeysOf(store)
  BY <1>3, <1>5, <1>6 DEF IsMapOf, KeysOf
<1>10. g = [f EXCEPT ![k] = v]
  BY <1>5, <1>7, <1>8, <1>9
<1> QED BY <1>9, <1>10 DEF f, g, Map!Assign

LEMMA ClearMaps == ASSUME IInv, IInv', Clear PROVE Map!Clear
<1>1. store' \in Seq(Pairs) /\ IndexIsStore' /\ DOMAIN store' = {}
  BY DEF IInv, TypeOK, Pairs, Clear
<1>2. IsMapOf(FoundMap', store') /\ KeysOf(store') = {}
  BY <1>1, FoundMapIsMapNext DEF KeysOf
<1>3. FoundMap' = [k \in {} |-> 0]
  BY <1>2 DEF IsMapOf
<1> QED BY <1>3 DEF Map!Clear

\* A step of the dense map is a step of the map, or changes nothing in it.
LEMMA StepMaps == IInv /\ IInv' /\ [Next]_vars => [Map!Next]_FoundMap
<1> SUFFICES ASSUME IInv, IInv', [Next]_vars PROVE [Map!Next]_FoundMap
  OBVIOUS
<1> USE DEF Map!Next
<1>1. store \in Seq(Pairs) /\ IndexIsStore
  BY DEF IInv, TypeOK, Pairs
<1>2. ASSUME UNCHANGED <<store, index>> PROVE FoundMap' = FoundMap
  BY <1>1, <1>2, SamePairsSameMap
<1>3. CASE UNCHANGED vars
  BY <1>2, <1>3 DEF vars
<1>4. ASSUME NEW k \in Keys, NEW v \in Values, TryEmplace(k, v) PROVE Map!Next
  BY <1>4, TryEmplaceMaps
<1>5. ASSUME NEW k \in Keys, NEW v \in Values, TryEmplaceFails(k, v) PROVE FoundMap' = FoundMap
  <2>1. [key |-> k, value |-> v] \in Pairs
    BY DEF Pairs
  <2> QED BY <1>1, <1>2, <1>5, <2>1, AppendAndPop DEF TryEmplaceFails
<1>6. ASSUME NEW k \in Keys, NEW v \in Values, Assign(k, v) PROVE Map!Next
  BY <1>6, AssignMaps
<1>7. ASSUME NEW k \in Keys, EraseKey(k) PROVE Map!Next
  <2>1. PICK e \in Found(k) : EraseSlot(e.slot, e)
    BY <1>7 DEF EraseKey
  <2>2. e.slot \in DOMAIN store /\ store[e.slot].key = k
    BY <1>1, FoundIsStored
  <2> QED BY <1>1, <2>1, <2>2, EraseSlotErases
<1>8. ASSUME Clear PROVE Map!Next
  BY <1>8, ClearMaps
<1>9. ASSUME NEW P \in SUBSET Keys, BeginEraseIf(P) PROVE FoundMap' = FoundMap
  BY <1>2, <1>9 DEF BeginEraseIf
<1>10. ASSUME EraseTurn PROVE Map!Next
  <2>1. it \in DOMAIN store /\ store[it].key \in Keys
    <3>1. it \in DOMAIN store
      BY <1>10 DEF EraseTurn
    <3>2. store[it] \in Pairs
      BY <1>1, <3>1, ElementOfSeq
    <3> QED BY <3>1, <3>2 DEF Pairs
  <2>2. PICK e \in Found(store[it].key) : EraseSlot(it, e)
    BY <1>10 DEF EraseTurn
  <2>3. Map!Erase(store[it].key)
    BY <1>1, <2>1, <2>2, EraseSlotErases
  <2> QED BY <2>1, <2>3
<1>11. ASSUME SkipTurn \/ EndEraseIf PROVE FoundMap' = FoundMap
  BY <1>2, <1>11 DEF SkipTurn, EndEraseIf
<1> QED BY <1>3, <1>4, <1>5, <1>6, <1>7, <1>8, <1>9, <1>10, <1>11 DEF Next

\* Every operation is, for lookups, that operation of a map: the dense map
\* implements the map it is used for.
THEOREM DenseMapIsMap == Spec => ImplementsMap
<1>1. Init => Map!Init
  <2> SUFFICES ASSUME Init PROVE FoundMap = [k \in {} |-> 0]
    BY DEF Map!Init
  <2>1. store \in Seq(Pairs) /\ IndexIsStore /\ DOMAIN store = {}
    BY InitIInv DEF IInv, TypeOK, Pairs, Init
  <2>2. IsMapOf(FoundMap, store) /\ KeysOf(store) = {}
    BY <2>1, FoundMapIsMap DEF KeysOf
  <2> QED BY <2>2 DEF IsMapOf
<1> QED BY <1>1, InitIInv, NextIInv, StepMaps, PTL DEF Spec, ImplementsMap, Map!Spec
----------------------------------------------------------------------------
(* The coalescing buffers.  ColumnsOnce and RowIsSum are not inductive:    *)
(* they need to know what the cache holds.  Stamps are at most             *)
(* register_count, so a registration starts with no valid entry (this is   *)
(* where a wrap would break it); while it runs, the entries with its stamp *)
(* and the positions of its row are each other's inverse.                  *)

\* No stamp is from the future.
StampsPast ==
    \A i \in DOMAIN tmp_entry_index_cache : tmp_entry_index_cache[i].stamp <= register_count

\* While a row is registered, a valid cache entry leads to its column's position,
CacheFindsRow ==
    \A i \in DOMAIN tmp_entry_index_cache :
        tmp_entry_index_cache[i].stamp = register_count =>
            /\ tmp_entry_index_cache[i].position \in Row
            /\ tmp_indices[tmp_entry_index_cache[i].position] = i

\* and every column of the row has a valid cache entry.
RowInCache ==
    \A k \in Row : /\ tmp_indices[k] \in DOMAIN tmp_entry_index_cache
                   /\ tmp_entry_index_cache[tmp_indices[k]].stamp = register_count

\* The inductive invariant.
BuffersInv ==
    /\ BuffersTyped
    /\ StampsPast
    /\ entries # <<>> => ~distinct /\ CacheFindsRow /\ RowInCache
    /\ ColumnsOnce
    /\ RowIsSum

\* A function on 1..n is a sequence of length n.
LEMMA FunctionIsSeq ==
    ASSUME NEW S, NEW n \in Nat, NEW f \in [1..n -> S]
    PROVE  f \in Seq(S) /\ Len(f) = n /\ DOMAIN f = 1..n
BY SeqDef

\* The empty buffers of a new model.
LEMMA InitBuffersInv == InitBuffers => BuffersInv
<1> SUFFICES ASSUME InitBuffers PROVE BuffersInv
  OBVIOUS
<1>1. \A S : <<>> \in Seq(S)
  BY EmptySeq
<1>2. BuffersTyped
  <2>1. distinct \in BOOLEAN
    BY DEF InitBuffers
  <2>3. 0 \in 0..MaxRegistrations /\ 0 <= MaxIds
    BY CoalescingAssumption
  <2>2. Len(<<>>) = 0 /\ DOMAIN [i \in {} |-> 0] = {} /\ 0 \in 0..0
    OBVIOUS
  <2> QED BY <1>1, <2>1, <2>2, <2>3 DEF InitBuffers, BuffersTyped
<1>3. StampsPast /\ ColumnsOnce /\ RowIsSum /\ entries = <<>>
  BY DEF InitBuffers, StampsPast, ColumnsOnce, RowIsSum, Row
<1> QED BY <1>2, <1>3 DEF BuffersInv

\* The start of a call: the row is empty, and no new cache entry has a stamp
\* that a later registration could take for its own.
LEMMA PrepareIInv ==
    ASSUME BuffersInv, NEW n \in 0..MaxIds, NEW d \in BOOLEAN, Prepare(n, d) PROVE BuffersInv'
<1> DEFINE C == [stamp : 0..MaxRegistrations, position : Nat]
<1>1. /\ n \in Nat /\ entries = <<>> /\ entries' = <<>> /\ tmp_indices' = <<>>
      /\ tmp_scalars' = <<>> /\ begin' = 0 /\ register_count' = register_count
      /\ distinct' = d /\ DOMAIN totals' = {}
  BY CoalescingAssumption DEF Prepare
<1>2. /\ tmp_entry_index_cache \in Seq(C) /\ Len(tmp_entry_index_cache) \in Nat
      /\ DOMAIN tmp_entry_index_cache = 1..Len(tmp_entry_index_cache)
      /\ register_count \in 0..MaxRegistrations
  BY LenProperties DEF BuffersInv, BuffersTyped
<1>3. /\ tmp_entry_index_cache' \in Seq(C) /\ Len(tmp_entry_index_cache') <= MaxIds
      /\ \A i \in DOMAIN tmp_entry_index_cache' : tmp_entry_index_cache'[i].stamp <= register_count
  <2>1. CASE d
    BY <1>2, <2>1 DEF Prepare, BuffersInv, StampsPast, BuffersTyped
  <2>2. CASE ~d
    <3> DEFINE c == Resized(tmp_entry_index_cache, n)
    <3>1. tmp_entry_index_cache' = c
      BY <2>2 DEF Prepare
    <3>2. c \in [1..n -> C]
      <4>1. ASSUME NEW i \in 1..n, i <= Len(tmp_entry_index_cache)
            PROVE  tmp_entry_index_cache[i] \in C
        <5> HIDE DEF C
        <5>1. tmp_entry_index_cache \in [1..Len(tmp_entry_index_cache) -> C]
          BY <1>2, LenProperties
        <5> QED BY <1>1, <1>2, <4>1, <5>1
      <4>2. [stamp |-> 0, position |-> 0] \in C
        BY CoalescingAssumption
      <4> HIDE DEF C
      <4> QED BY <4>1, <4>2 DEF Resized
    <3>3. ASSUME NEW i \in 1..n PROVE c[i].stamp <= register_count
      <4>1. CASE i <= Len(tmp_entry_index_cache)
        <5>1. i \in DOMAIN tmp_entry_index_cache /\ c[i] = tmp_entry_index_cache[i]
          BY <1>1, <1>2, <4>1 DEF Resized
        <5> QED BY <5>1 DEF BuffersInv, StampsPast
      <4>2. CASE ~(i <= Len(tmp_entry_index_cache))
        BY <1>2, <4>2, CoalescingAssumption DEF Resized
      <4> QED BY <4>1, <4>2
    <3> HIDE DEF c, C
    <3>4. c \in Seq(C) /\ DOMAIN c = 1..n /\ Len(c) = n
      BY <1>1, <3>2, FunctionIsSeq
    <3> QED BY <1>1, <3>1, <3>3, <3>4, CoalescingAssumption
  <2> QED BY <2>1, <2>2
<1>4. BuffersTyped'
  <2>1. \A S : <<>> \in Seq(S)
    BY EmptySeq
  <2>2. Len(tmp_indices') = 0 /\ Len(tmp_scalars') = 0
    BY <1>1
  <2>3. distinct' \in BOOLEAN
    BY <1>1
  <2> QED BY <1>1, <1>2, <1>3, <2>1, <2>2, <2>3 DEF BuffersTyped
<1>5. Row' = {}
  BY <1>1 DEF Row
<1>6. ColumnsOnce' /\ RowIsSum'
  BY <1>1, <1>5 DEF ColumnsOnce, RowIsSum
<1> QED BY <1>1, <1>3, <1>4, <1>6 DEF BuffersInv, StampsPast

\* _register_raw_entries: the caller's promise is that the terms have different
\* columns, and then the copied row is the sum.
LEMMA RegisterRawIInv ==
    ASSUME BuffersInv, NEW terms \in Expressions(1..MaxIds, TermCoefs, MaxTerms),
           IsDistinct(terms), RegisterRaw(terms)
    PROVE  /\ BuffersInv'
           /\ \A k \in 1..begin' : /\ tmp_indices'[k] = tmp_indices[k]
                                   /\ tmp_scalars'[k] = tmp_scalars[k]
<1> DEFINE b == Len(tmp_indices)
           ids == [k \in DOMAIN terms |-> terms[k].var]
           coefs == [k \in DOMAIN terms |-> terms[k].coef]
<1>1. PICK n \in Nat : terms \in [1..n -> [var : 1..MaxIds, coef : TermCoefs]]
  BY CoalescingAssumption DEF Expressions
<1>2. /\ tmp_indices' = tmp_indices \o ids /\ tmp_scalars' = tmp_scalars \o coefs
      /\ begin' = b /\ entries = <<>>
      /\ UNCHANGED <<tmp_entry_index_cache, register_count, distinct, entries>>
  BY DEF RegisterRaw
<1>0. totals' = [i \in VarsOf(terms) |->
                    terms[CHOOSE k \in DOMAIN terms : terms[k].var = i].coef]
  BY DEF RegisterRaw
<1>3. /\ tmp_indices \in Seq(1..MaxIds) /\ tmp_scalars \in Seq(Int) /\ b \in Nat
      /\ Len(tmp_scalars) = b
  BY LenProperties DEF BuffersInv, BuffersTyped
<1>4. \A k \in 1..n : terms[k].var \in 1..MaxIds /\ terms[k].coef \in Int
  BY <1>1, CoalescingAssumption
<1>5. /\ ids \in Seq(1..MaxIds) /\ Len(ids) = n
      /\ coefs \in Seq(Int) /\ Len(coefs) = n
  <2>1. ids \in [1..n -> 1..MaxIds] /\ coefs \in [1..n -> Int]
    BY <1>1, <1>4
  <2> HIDE DEF ids, coefs
  <2> QED BY <2>1, FunctionIsSeq
<1>6. \A k \in 1..n : ids[k] = terms[k].var /\ coefs[k] = terms[k].coef
  BY <1>1
<1> HIDE DEF ids, coefs
<1>7. /\ tmp_indices' \in Seq(1..MaxIds) /\ Len(tmp_indices') = b + n
      /\ tmp_scalars' \in Seq(Int) /\ Len(tmp_scalars') = b + n
  <2>1. tmp_indices' \in Seq(1..MaxIds) /\ Len(tmp_indices') = b + n
    <3>1. tmp_indices \o ids \in Seq(1..MaxIds)
      BY <1>3, <1>5, ConcatProperties
    <3>2. Len(tmp_indices \o ids) = Len(tmp_indices) + Len(ids)
      BY <1>3, <1>5, ConcatProperties
    <3> QED BY <1>2, <1>5, <3>1, <3>2
  <2>2. tmp_scalars' \in Seq(Int) /\ Len(tmp_scalars') = b + n
    BY <1>2, <1>3, <1>5, ConcatProperties
  <2> QED BY <2>1, <2>2
<1>8. \A j \in (b + 1)..(b + n) :
         /\ j - b \in 1..n
         /\ tmp_indices'[j] = terms[j - b].var
         /\ tmp_scalars'[j] = terms[j - b].coef
  <2>1. \A j \in (b + 1)..(b + n) : tmp_indices'[j] = ids[j - b]
    BY <1>2, <1>3, <1>5, ConcatProperties
  <2>3. \A j \in (b + 1)..(b + n) : tmp_scalars'[j] = coefs[j - b]
    <3> HIDE DEF b
    <3> QED BY <1>2, <1>3, <1>5, ConcatProperties, SMTT(60)
  <2>2. \A j \in (b + 1)..(b + n) : j - b \in 1..n
    BY <1>1, <1>3
  <2> QED BY <1>6, <2>1, <2>2, <2>3
<1>9. Row' = (b + 1)..(b + n)
  BY <1>2, <1>7 DEF Row
<1> HIDE DEF b
<1>10. \A j, k \in 1..n : terms[j].var = terms[k].var => j = k
  BY <1>1 DEF IsDistinct
<1>11. BuffersTyped'
  <2>1. DOMAIN totals' \subseteq 1..MaxIds
    BY <1>0, <1>1, <1>4 DEF VarsOf
  <2>2. distinct' \in BOOLEAN
    BY <1>2 DEF BuffersInv, BuffersTyped
  <2>3. begin' \in 0..Len(tmp_indices')
    BY <1>1, <1>2, <1>3, <1>7
  <2> QED BY <1>2, <1>7, <2>1, <2>2, <2>3 DEF BuffersInv, BuffersTyped
<1>12. StampsPast'
  BY <1>2 DEF BuffersInv, StampsPast
<1>13. ColumnsOnce'
  <2> SUFFICES ASSUME NEW j \in Row', NEW k \in Row', tmp_indices'[j] = tmp_indices'[k]
               PROVE  j = k
    BY DEF ColumnsOnce
  <2>1. j - b = k - b
    BY <1>8, <1>9, <1>10
  <2> QED BY <1>3, <1>9, <2>1
<1>14. RowIsSum'
  <2>1. ASSUME NEW k \in Row'
        PROVE  /\ tmp_indices'[k] \in DOMAIN totals'
               /\ tmp_scalars'[k] = totals'[tmp_indices'[k]]
    <3> DEFINE q == k - b
    <3>1. q \in 1..n /\ tmp_indices'[k] = terms[q].var /\ tmp_scalars'[k] = terms[q].coef
      BY <1>8, <1>9
    <3>2. terms[q].var \in VarsOf(terms) /\ q \in DOMAIN terms
      BY <1>1, <3>1 DEF VarsOf
    <3> HIDE DEF q
    <3>3. (CHOOSE p \in DOMAIN terms : terms[p].var = terms[q].var) = q
      BY <1>1, <1>10, <3>1
    <3> QED BY <1>0, <3>1, <3>2, <3>3
  <2>2. ASSUME NEW i \in DOMAIN totals'
        PROVE  \E k \in Row' : i = tmp_indices'[k]
    <3>1. PICK p \in 1..n : i = terms[p].var
      BY <1>0, <1>1 DEF VarsOf
    <3>2. b + p \in Row' /\ (b + p) - b = p
      BY <1>1, <1>3, <1>9
    <3> QED BY <1>8, <1>9, <3>1, <3>2
  <2> QED BY <2>1, <2>2 DEF RowIsSum
<1>15. \A k \in 1..b : tmp_indices'[k] = tmp_indices[k] /\ tmp_scalars'[k] = tmp_scalars[k]
  <2>1. \A k \in 1..b : tmp_indices'[k] = tmp_indices[k]
    BY <1>2, <1>3, <1>5, ConcatProperties DEF b
  <2>2. \A k \in 1..b : tmp_scalars'[k] = tmp_scalars[k]
    BY <1>2, <1>3, <1>5, ConcatProperties
  <2> QED BY <2>1, <2>2
<1> QED BY <1>2, <1>11, <1>12, <1>13, <1>14, <1>15 DEF BuffersInv

\* _register_coalescing_entries starts: the new stamp is on no cache entry.
LEMMA RegisterIInv ==
    ASSUME BuffersInv, NEW terms \in Expressions(DOMAIN tmp_entry_index_cache, TermCoefs, MaxTerms),
           Register(terms)
    PROVE  BuffersInv'
<1>1. /\ register_count \in Nat /\ register_count + 1 <= MaxRegistrations
      /\ register_count' = register_count + 1
  <2>1. register_count \in Nat /\ register_count + 1 <= MaxRegistrations
    BY CoalescingAssumption DEF BuffersInv, BuffersTyped, Register
  <2>2. register_count + 1 \in 0..(CountModulus - 1)
    BY <2>1, CoalescingAssumption, NoWrapAround
  <2>3. (register_count + 1) % CountModulus = register_count + 1
    BY <2>1, <2>2, CoalescingAssumption
  <2> QED BY <2>1, <2>3 DEF Register
<1>2. /\ UNCHANGED <<tmp_entry_index_cache, tmp_indices, tmp_scalars, distinct>>
      /\ ~distinct /\ begin' = Len(tmp_indices) /\ entries' = terms /\ DOMAIN totals' = {}
  BY DEF Register
<1>3. Len(tmp_indices) \in Nat
  BY LenProperties DEF BuffersInv, BuffersTyped
<1>4. Row' = {}
  BY <1>2, <1>3 DEF Row
<1>5. \A i \in DOMAIN tmp_entry_index_cache : tmp_entry_index_cache[i].stamp \in Nat
  <2> DEFINE C == [stamp : 0..MaxRegistrations, position : Nat]
  <2>1. tmp_entry_index_cache \in Seq(C)
    BY DEF BuffersInv, BuffersTyped
  <2> HIDE DEF C
  <2>2. \A i \in DOMAIN tmp_entry_index_cache : tmp_entry_index_cache[i] \in C
    BY <2>1, LenProperties
  <2> QED BY <2>2, CoalescingAssumption DEF C
<1>6. terms \in Seq([var : DOMAIN tmp_entry_index_cache, coef : TermCoefs])
  <2> DEFINE T == [var : DOMAIN tmp_entry_index_cache, coef : TermCoefs]
  <2>1. PICK n \in Nat : terms \in [1..n -> T]
    BY CoalescingAssumption DEF Expressions
  <2> HIDE DEF T
  <2>2. terms \in Seq(T)
    BY <2>1, FunctionIsSeq
  <2> QED BY <2>2 DEF T
<1>7. BuffersTyped'
  <2>1. distinct' \in BOOLEAN
    BY <1>2 DEF BuffersInv, BuffersTyped
  <2>2. register_count' \in 0..MaxRegistrations
    BY <1>1, CoalescingAssumption
  <2> QED BY <1>2, <1>3, <1>6, <2>1, <2>2 DEF BuffersInv, BuffersTyped
<1>8. StampsPast' /\ CacheFindsRow'
  BY <1>1, <1>2, <1>5 DEF BuffersInv, StampsPast, CacheFindsRow
<1>9. RowInCache' /\ ColumnsOnce' /\ RowIsSum'
  BY <1>2, <1>4 DEF RowInCache, ColumnsOnce, RowIsSum
<1> QED BY <1>2, <1>7, <1>8, <1>9 DEF BuffersInv

\* One turn of the loop, when the column is in the row already.
LEMMA AddUpIInv ==
    ASSUME BuffersInv, RegisterEntry, NEW v, v = Head(entries).var,
           NEW c, c = Head(entries).coef, AddUp(v, c)
    PROVE  /\ BuffersInv'
           /\ begin' = begin /\ tmp_indices' = tmp_indices
           /\ \A k \in 1..begin : tmp_scalars'[k] = tmp_scalars[k]
<1> DEFINE T == [var : DOMAIN tmp_entry_index_cache, coef : TermCoefs]
           q == tmp_entry_index_cache[v].position
<1>1. /\ UNCHANGED <<tmp_entry_index_cache, register_count, distinct, begin, tmp_indices>>
      /\ entries' = Tail(entries) /\ entries # <<>> /\ entries \in Seq(T)
      /\ tmp_scalars' = [tmp_scalars EXCEPT ![q] = @ + c]
      /\ totals' = [i \in DOMAIN totals \cup {v} |->
                       (IF i \in DOMAIN totals THEN totals[i] ELSE 0) + (IF i = v THEN c ELSE 0)]
  BY DEF RegisterEntry, AddUp, BuffersInv, BuffersTyped
<1>2. /\ Head(entries) \in T /\ entries' \in Seq(T)
  <2> HIDE DEF T
  <2> QED BY <1>1, HeadTailProperties
<1>3. v \in DOMAIN tmp_entry_index_cache /\ c \in Int
  BY <1>2, CoalescingAssumption
<1>4. q \in Row /\ tmp_indices[q] = v
  BY <1>1, <1>3 DEF BuffersInv, CacheFindsRow, AddUp, Known
<1>5. /\ Row \subseteq 1..Len(tmp_scalars) /\ Row' = Row
      /\ tmp_scalars \in Seq(Int) /\ tmp_scalars \in [1..Len(tmp_scalars) -> Int]
      /\ \A k \in 1..begin : k \in 1..Len(tmp_scalars) /\ k \notin Row
  <2>1. Len(tmp_indices) \in Nat /\ Len(tmp_scalars) = Len(tmp_indices)
        /\ begin \in 0..Len(tmp_indices)
    BY LenProperties DEF BuffersInv, BuffersTyped
  <2>2. tmp_scalars \in Seq(Int) /\ tmp_scalars \in [1..Len(tmp_scalars) -> Int]
    BY LenProperties DEF BuffersInv, BuffersTyped
  <2>3. Row' = Row
    BY <1>1 DEF Row
  <2> QED BY <2>1, <2>2, <2>3 DEF Row
<1> HIDE DEF q
<1>6. /\ tmp_scalars' \in Seq(Int) /\ Len(tmp_scalars') = Len(tmp_scalars)
      /\ tmp_scalars'[q] = tmp_scalars[q] + c
      /\ \A k \in 1..Len(tmp_scalars) : k # q => tmp_scalars'[k] = tmp_scalars[k]
  <2>1. tmp_scalars[q] + c \in Int /\ q \in 1..Len(tmp_scalars)
    BY <1>3, <1>4, <1>5
  <2> QED BY <1>1, <1>5, <2>1, ExceptSeq
<1>7. v \in DOMAIN totals /\ DOMAIN totals' = DOMAIN totals
  <2>1. v \in DOMAIN totals
    BY <1>4 DEF BuffersInv, RowIsSum
  <2> QED BY <1>1, <2>1
<1>8. \A i \in DOMAIN totals : totals[i] \in Int
  BY <1>5 DEF BuffersInv, RowIsSum
<1>9. BuffersTyped'
  <2>1. distinct' \in BOOLEAN
    BY <1>1 DEF BuffersInv, BuffersTyped
  <2> QED BY <1>1, <1>2, <1>6, <1>7, <2>1 DEF BuffersInv, BuffersTyped
<1>10. StampsPast' /\ ~distinct' /\ CacheFindsRow' /\ RowInCache' /\ ColumnsOnce'
  BY <1>1, <1>5 DEF BuffersInv, StampsPast, CacheFindsRow, RowInCache, ColumnsOnce
<1>11. RowIsSum'
  <2>1. ASSUME NEW k \in Row PROVE tmp_scalars'[k] = totals'[tmp_indices[k]]
    <3>1. tmp_indices[k] \in DOMAIN totals /\ tmp_scalars[k] = totals[tmp_indices[k]]
      BY DEF BuffersInv, RowIsSum
    <3>2. CASE k = q
      BY <1>1, <1>3, <1>4, <1>6, <1>7, <1>8, <3>1, <3>2
    <3>3. CASE k # q
      <4>1. tmp_indices[k] # v
        BY <1>4, <3>3 DEF BuffersInv, ColumnsOnce
      <4> QED BY <1>1, <1>5, <1>6, <1>7, <1>8, <3>1, <3>3, <4>1
    <3> QED BY <3>2, <3>3
  <2>2. {tmp_indices'[k] : k \in Row'} = {tmp_indices[k] : k \in Row}
    BY <1>1, <1>5
  <2> QED BY <1>1, <1>5, <1>7, <2>1, <2>2 DEF BuffersInv, RowIsSum
<1>12. \A k \in 1..begin : tmp_scalars'[k] = tmp_scalars[k]
  BY <1>4, <1>5, <1>6
<1> QED BY <1>1, <1>9, <1>10, <1>11, <1>12 DEF BuffersInv

\* One turn of the loop, when the column is new to the row.
LEMMA EmplaceIInv ==
    ASSUME BuffersInv, RegisterEntry, NEW v, v = Head(entries).var,
           NEW c, c = Head(entries).coef, Emplace(v, c)
    PROVE  /\ BuffersInv'
           /\ begin' = begin
           /\ \A k \in 1..begin : /\ tmp_indices'[k] = tmp_indices[k]
                                  /\ tmp_scalars'[k] = tmp_scalars[k]
<1> DEFINE T == [var : DOMAIN tmp_entry_index_cache, coef : TermCoefs]
           C == [stamp : 0..MaxRegistrations, position : Nat]
           n == Len(tmp_indices)
           e == [stamp |-> register_count, position |-> n + 1]
<1>1. /\ UNCHANGED <<register_count, distinct, begin>>
      /\ entries' = Tail(entries) /\ entries # <<>> /\ entries \in Seq(T)
      /\ tmp_entry_index_cache' = [tmp_entry_index_cache EXCEPT ![v] = e]
      /\ tmp_indices' = Append(tmp_indices, v) /\ tmp_scalars' = Append(tmp_scalars, c)
      /\ totals' = [i \in DOMAIN totals \cup {v} |->
                       (IF i \in DOMAIN totals THEN totals[i] ELSE 0) + (IF i = v THEN c ELSE 0)]
  BY DEF RegisterEntry, Emplace, BuffersInv, BuffersTyped
<1>2. Head(entries) \in T /\ Tail(entries) \in Seq(T)
  <2> HIDE DEF T
  <2> QED BY <1>1, HeadTailProperties
<1>3. v \in DOMAIN tmp_entry_index_cache /\ c \in Int
  BY <1>2, CoalescingAssumption
<1>4. /\ tmp_indices \in Seq(1..MaxIds) /\ tmp_scalars \in Seq(Int) /\ n \in Nat
      /\ Len(tmp_scalars) = n /\ begin \in 0..n /\ Row = (begin + 1)..n
      /\ tmp_scalars \in [1..n -> Int]
      /\ tmp_entry_index_cache \in Seq(C) /\ register_count \in 0..MaxRegistrations
      /\ DOMAIN tmp_entry_index_cache = 1..Len(tmp_entry_index_cache)
  BY LenProperties DEF BuffersInv, BuffersTyped, Row
<1>5. /\ tmp_entry_index_cache' \in Seq(C)
      /\ DOMAIN tmp_entry_index_cache' = DOMAIN tmp_entry_index_cache
      /\ tmp_entry_index_cache'[v] = e
      /\ \A i \in DOMAIN tmp_entry_index_cache :
            i # v => tmp_entry_index_cache'[i] = tmp_entry_index_cache[i]
  <2>1. e \in C
    BY <1>4
  <2> HIDE DEF C, e
  <2> QED BY <1>1, <1>3, <1>4, <2>1, ExceptSeq
<1> HIDE DEF C, e, n
<1>6. /\ tmp_indices' \in Seq(1..MaxIds) /\ Len(tmp_indices') = n + 1
      /\ \A k \in 1..n : tmp_indices'[k] = tmp_indices[k]
      /\ tmp_indices'[n + 1] = v
  <2>1. v \in 1..MaxIds
    BY <1>3, <1>4, LenProperties, CoalescingAssumption DEF BuffersInv, BuffersTyped
  <2> QED BY <1>1, <1>4, <2>1, AppendProperties DEF n
<1>7. /\ tmp_scalars' \in Seq(Int) /\ Len(tmp_scalars') = n + 1
      /\ \A k \in 1..n : tmp_scalars'[k] = tmp_scalars[k]
      /\ tmp_scalars'[n + 1] = c
  BY <1>1, <1>3, <1>4, AppendProperties, SMTT(60)
<1>8. Row' = Row \cup {n + 1} /\ Row \subseteq 1..n /\ n + 1 \notin Row
  BY <1>1, <1>4, <1>6 DEF Row
<1>9. \A k \in Row : tmp_indices[k] # v
  BY <1>1 DEF BuffersInv, RowInCache, Emplace, Known
<1>10. v \notin DOMAIN totals /\ DOMAIN totals' = DOMAIN totals \cup {v}
  BY <1>1, <1>9 DEF BuffersInv, RowIsSum
<1>11. BuffersTyped'
  <2>1. distinct' \in BOOLEAN
    BY <1>1 DEF BuffersInv, BuffersTyped
  <2>2. begin' \in 0..Len(tmp_indices')
    BY <1>1, <1>4, <1>6
  <2>3. DOMAIN totals' \subseteq 1..MaxIds
    <3>1. Len(tmp_entry_index_cache) \in Nat /\ Len(tmp_entry_index_cache) <= MaxIds
      BY <1>4, LenProperties DEF BuffersInv, BuffersTyped
    <3>2. v \in 1..MaxIds
      BY <1>3, <1>4, <3>1, CoalescingAssumption
    <3> QED BY <1>10, <3>2 DEF BuffersInv, BuffersTyped
  <2>4. Len(tmp_entry_index_cache') <= MaxIds
    <3>1. Len(tmp_entry_index_cache') = Len(tmp_entry_index_cache)
      BY <1>4, <1>5, LenProperties
    <3> QED BY <3>1 DEF BuffersInv, BuffersTyped
  <2>5. entries' \in Seq([var : DOMAIN tmp_entry_index_cache', coef : TermCoefs])
    BY <1>1, <1>2, <1>5
  <2> QED BY <1>1, <1>4, <1>5, <1>6, <1>7, <2>1, <2>2, <2>3, <2>4, <2>5 DEF BuffersTyped, C
<1>12. StampsPast'
  BY <1>1, <1>4, <1>5 DEF BuffersInv, StampsPast, e
<1>13. ~distinct' /\ CacheFindsRow'
  <2>1. ASSUME NEW i \in DOMAIN tmp_entry_index_cache,
               tmp_entry_index_cache'[i].stamp = register_count
        PROVE  /\ tmp_entry_index_cache'[i].position \in Row'
               /\ tmp_indices'[tmp_entry_index_cache'[i].position] = i
    <3>1. CASE i = v
      BY <1>5, <1>6, <1>8, <3>1 DEF e
    <3>2. CASE i # v
      BY <1>1, <1>5, <1>6, <1>8, <2>1, <3>2 DEF BuffersInv, CacheFindsRow
    <3> QED BY <3>1, <3>2
  <2> QED BY <1>1, <1>5, <2>1 DEF BuffersInv, CacheFindsRow
<1>14. RowInCache'
  <2>1. ASSUME NEW k \in Row'
        PROVE  /\ tmp_indices'[k] \in DOMAIN tmp_entry_index_cache'
               /\ tmp_entry_index_cache'[tmp_indices'[k]].stamp = register_count
    <3>1. CASE k = n + 1
      BY <1>3, <1>5, <1>6, <3>1 DEF e
    <3>2. CASE k \in Row
      BY <1>1, <1>5, <1>6, <1>8, <1>9, <3>2, ZenonT(60) DEF BuffersInv, RowInCache
    <3> QED BY <1>8, <3>1, <3>2
  <2> QED BY <1>1, <2>1 DEF RowInCache
<1>15. ColumnsOnce'
  <2>1. \A k \in Row : tmp_indices'[k] = tmp_indices[k]
    BY <1>6, <1>8
  <2>2. \A j, k \in Row : tmp_indices[j] = tmp_indices[k] => j = k
    BY DEF BuffersInv, ColumnsOnce
  <2>3. \A j, k \in Row \cup {n + 1} : tmp_indices'[j] = tmp_indices'[k] => j = k
    <3>1. \A k \in Row : tmp_indices'[k] # tmp_indices'[n + 1]
      BY <1>6, <1>9, <2>1
    <3> HIDE DEF BuffersInv
    <3> QED BY <2>1, <2>2, <3>1
  <2> QED BY <1>8, <2>3 DEF ColumnsOnce
<1>16. RowIsSum'
  <2>1. \A k \in Row : /\ tmp_indices'[k] = tmp_indices[k] /\ tmp_scalars'[k] = tmp_scalars[k]
                       /\ tmp_indices[k] \in DOMAIN totals
                       /\ tmp_scalars[k] = totals[tmp_indices[k]]
                       /\ tmp_scalars[k] \in Int
    BY <1>4, <1>6, <1>7, <1>8 DEF BuffersInv, RowIsSum
  <2>2. ASSUME NEW k \in Row' PROVE tmp_scalars'[k] = totals'[tmp_indices'[k]]
    <3>1. CASE k = n + 1
      BY <1>1, <1>3, <1>6, <1>7, <1>10, <3>1
    <3>2. CASE k \in Row
      <4>1. /\ tmp_indices'[k] \in DOMAIN totals /\ tmp_indices'[k] # v
            /\ tmp_scalars'[k] = totals[tmp_indices'[k]] /\ tmp_scalars'[k] \in Int
        BY <1>9, <2>1, <3>2
      <4>2. ASSUME NEW i \in DOMAIN totals, i # v, totals[i] \in Int
            PROVE  totals'[i] = totals[i]
        BY <1>1, <1>3, <4>2
      <4> QED BY <4>1, <4>2
    <3> QED BY <1>8, <3>1, <3>2
  <2>3. DOMAIN totals' = {tmp_indices'[k] : k \in Row'}
    <3>1. DOMAIN totals = {tmp_indices[k] : k \in Row}
      BY DEF BuffersInv, RowIsSum
    <3> QED BY <1>6, <1>8, <1>10, <2>1, <3>1
  <2> QED BY <2>2, <2>3 DEF RowIsSum
<1>17. \A k \in 1..begin : k \in 1..n
  BY <1>4
<1> QED BY <1>1, <1>6, <1>7, <1>11, <1>12, <1>13, <1>14, <1>15, <1>16, <1>17 DEF BuffersInv
----------------------------------------------------------------------------
\* Every step keeps the invariant and, unless it drops them, the earlier rows.
LEMMA NextBuffersInv ==
    ASSUME BuffersInv, [NextBuffers]_bufferVars
    PROVE  /\ BuffersInv'
           /\ \/ tmp_indices' = <<>>
              \/ \A k \in 1..begin' : /\ tmp_indices'[k] = tmp_indices[k]
                                      /\ tmp_scalars'[k] = tmp_scalars[k]
<1>1. ASSUME NEW n \in 0..MaxIds, NEW d \in BOOLEAN, Prepare(n, d)
      PROVE  BuffersInv' /\ tmp_indices' = <<>>
  BY <1>1, PrepareIInv DEF Prepare
<1>2. ASSUME NEW terms \in Expressions(1..MaxIds, TermCoefs, MaxTerms),
             IsDistinct(terms), RegisterRaw(terms)
      PROVE  /\ BuffersInv'
             /\ \A k \in 1..begin' : /\ tmp_indices'[k] = tmp_indices[k]
                                     /\ tmp_scalars'[k] = tmp_scalars[k]
  BY <1>2, RegisterRawIInv
<1>3. ASSUME NEW terms \in Expressions(DOMAIN tmp_entry_index_cache, TermCoefs, MaxTerms),
             Register(terms)
      PROVE  BuffersInv' /\ UNCHANGED <<tmp_indices, tmp_scalars>>
  BY <1>3, RegisterIInv DEF Register
<1>4. ASSUME RegisterEntry
      PROVE  /\ BuffersInv'
             /\ \A k \in 1..begin' : /\ tmp_indices'[k] = tmp_indices[k]
                                     /\ tmp_scalars'[k] = tmp_scalars[k]
  <2> DEFINE v == Head(entries).var
             c == Head(entries).coef
  <2>1. AddUp(v, c) \/ Emplace(v, c)
    BY <1>4 DEF RegisterEntry
  <2> HIDE DEF v, c
  <2>2. v = Head(entries).var /\ c = Head(entries).coef
    BY DEF v, c
  <2> QED BY <1>4, <2>1, <2>2, AddUpIInv, EmplaceIInv
<1>5. CASE UNCHANGED bufferVars
  <2>1. /\ UNCHANGED <<tmp_entry_index_cache, register_count, tmp_indices, tmp_scalars>>
        /\ UNCHANGED <<distinct, begin, entries, totals>>
    BY <1>5 DEF bufferVars, buffers
  <2>2. BuffersTyped' /\ Row' = Row
    BY <2>1 DEF BuffersInv, BuffersTyped, Row
  <2>3. StampsPast' /\ (entries' # <<>> => ~distinct' /\ CacheFindsRow' /\ RowInCache')
    BY <2>1, <2>2 DEF BuffersInv, StampsPast, CacheFindsRow, RowInCache
  <2>4. ColumnsOnce' /\ RowIsSum'
    BY <2>1, <2>2 DEF BuffersInv, ColumnsOnce, RowIsSum
  <2> QED BY <2>1, <2>2, <2>3, <2>4 DEF BuffersInv
<1> QED BY <1>1, <1>2, <1>3, <1>4, <1>5 DEF NextBuffers

\* Whatever expressions are registered, in whatever calls and with whatever
\* repetitions, each row names each column once, with the sum of its terms.
THEOREM RowsAreSums == BuffersSpec => [](BuffersTyped /\ ColumnsOnce /\ RowIsSum)
<1>1. BuffersInv /\ [NextBuffers]_bufferVars => BuffersInv'
  BY NextBuffersInv
<1>2. BuffersInv => BuffersTyped /\ ColumnsOnce /\ RowIsSum
  BY DEF BuffersInv
<1> QED BY InitBuffersInv, <1>1, <1>2, PTL DEF BuffersSpec

\* No registration writes into the rows registered before it in the same call.
THEOREM RowsKept == BuffersSpec => EarlierRowsKept
<1>1. BuffersInv /\ [NextBuffers]_bufferVars => BuffersInv'
  BY NextBuffersInv
<1>2. BuffersInv /\ [NextBuffers]_bufferVars =>
         [tmp_indices' # <<>> =>
             \A k \in 1..begin' : /\ tmp_indices'[k] = tmp_indices[k]
                                  /\ tmp_scalars'[k] = tmp_scalars[k]]_bufferVars
  BY NextBuffersInv
<1> QED BY InitBuffersInv, <1>1, <1>2, PTL DEF BuffersSpec, EarlierRowsKept
=============================================================================
