----------------------- MODULE RemappingModel_proofs -----------------------
(***************************************************************************)
(* Facts about the renumbering that a removal makes, for every number of   *)
(* columns and every set of removed ones.                                  *)
(***************************************************************************)
EXTENDS RemappingModel, FiniteSetTheorems, SequenceTheorems, WellFoundedInduction, TLAPS

\* A set of integers between a and b has at most b - a + 1 elements.
LEMMA SubsetOfInterval ==
    ASSUME NEW a \in Int, NEW b \in Int, a <= b + 1, NEW S, \A x \in S : x \in a..b
    PROVE  IsFiniteSet(S) /\ Cardinality(S) \in 0..(b - a + 1)
<1>1. S \in SUBSET (a..b)
  OBVIOUS
<1>2. IsFiniteSet(a..b) /\ Cardinality(a..b) = b - a + 1
  <2>1. a > b => b - a + 1 = 0
    OBVIOUS
  <2> QED BY <2>1, FS_Interval
<1>3. IsFiniteSet(S) /\ Cardinality(S) <= b - a + 1
  BY <1>1, <1>2, FS_Subset
<1>4. Cardinality(S) \in Nat
  BY <1>3, FS_CardinalityType
<1> QED BY <1>3, <1>4

\* The removed columns above position i.
Above(i, D) == {d \in D : d > i}

\* Below a position i of 1..n there are at most i - 1 removed columns; without i,
\* the removed columns are those below it and those above it.
LEMMA RemovedBelow ==
    ASSUME NEW n \in Nat, NEW D, \A d \in D : d \in 1..n, NEW i \in 1..n
    PROVE  /\ IsFiniteSet(D)
           /\ Cardinality(D) \in 0..n
           /\ IsFiniteSet(Below(i, D))
           /\ Cardinality(Below(i, D)) \in 0..(i - 1)
           /\ Cardinality(Above(i, D)) \in 0..(n - i)
           /\ i \notin D => Cardinality(D) = Cardinality(Below(i, D)) + Cardinality(Above(i, D))
<1>1. IsFiniteSet(D) /\ Cardinality(D) \in 0..n
  BY SubsetOfInterval
<1>2. IsFiniteSet(Below(i, D)) /\ Cardinality(Below(i, D)) \in 0..(i - 1)
  <2>1. \A d \in Below(i, D) : d \in 1..(i - 1)
    BY DEF Below
  <2> QED BY <2>1, SubsetOfInterval
<1>3. IsFiniteSet(Above(i, D)) /\ Cardinality(Above(i, D)) \in 0..(n - i)
  <2>1. \A d \in Above(i, D) : d \in (i + 1)..n
    BY DEF Above
  <2> QED BY <2>1, SubsetOfInterval
<1>4. ASSUME i \notin D
      PROVE  Cardinality(D) = Cardinality(Below(i, D)) + Cardinality(Above(i, D))
  <2>1. D = Below(i, D) \cup Above(i, D)
    BY <1>4 DEF Below, Above
  <2>2. Below(i, D) \cap Above(i, D) = {}
    BY DEF Below, Above
  <2>3. Cardinality(Below(i, D) \cap Above(i, D)) = 0
    BY <2>2, FS_EmptySet
  <2> QED BY <2>1, <2>3, <1>2, <1>3, FS_Union
<1> QED BY <1>1, <1>2, <1>3, <1>4

\* The new ids of the surviving columns are positions of the shorter numbering.
LEMMA NewIdRange ==
    ASSUME NEW n \in Nat, NEW D, \A d \in D : d \in 1..n, NEW i \in 1..n, i \notin D
    PROVE  NewId(i, D) \in 1..(n - Cardinality(D)) /\ NewId(i, D) \in Int
<1> DEFINE b == Cardinality(Below(i, D))
           a == Cardinality(Above(i, D))
<1>1. b \in 0..(i - 1) /\ a \in 0..(n - i) /\ Cardinality(D) = b + a
  BY RemovedBelow
<1>2. NewId(i, D) = i - b
  BY DEF NewId
<1> HIDE DEF a, b
<1> QED BY <1>1, <1>2

\* The renumbering keeps the order of the columns, so it gives no id twice.
LEMMA NewIdIncreasing ==
    ASSUME NEW n \in Nat, NEW D, \A d \in D : d \in 1..n,
           NEW i \in 1..n, NEW j \in 1..n, i \notin D, i < j
    PROVE  NewId(i, D) < NewId(j, D)
<1> DEFINE M == {d \in D : i < d /\ d < j}
<1>1. Below(j, D) = Below(i, D) \cup M
  BY DEF Below
<1>2. Below(i, D) \cap M = {}
  BY DEF Below
<1>3. IsFiniteSet(M) /\ Cardinality(M) \in 0..(j - i - 1)
  <2>1. \A d \in M : d \in (i + 1)..(j - 1)
    OBVIOUS
  <2> HIDE DEF M
  <2> QED BY <2>1, SubsetOfInterval
<1>4. IsFiniteSet(Below(i, D)) /\ Cardinality(Below(i, D)) \in 0..(i - 1)
  BY RemovedBelow
<1> HIDE DEF M
<1>5. Cardinality(Below(j, D)) = Cardinality(Below(i, D)) + Cardinality(M)
  <2>1. Cardinality(Below(i, D) \cap M) = 0
    BY <1>2, FS_EmptySet
  <2>2. Cardinality(Below(i, D) \cup M) = Cardinality(Below(i, D)) + Cardinality(M) - 0
    BY <1>3, <1>4, <2>1, FS_Union
  <2> QED BY <1>1, <1>3, <1>4, <2>2
<1> QED BY <1>3, <1>4, <1>5 DEF NewId

\* Every position of the shorter numbering is the new id of a surviving column.
LEMMA NewIdOnto ==
    ASSUME NEW n \in Nat, NEW D, \A d \in D : d \in 1..n,
           NEW k \in 1..(n - Cardinality(D))
    PROVE  \E i \in (1..n) \ D : NewId(i, D) = k
<1> DEFINE S == (1..n) \ D
           T == 1..(n - Cardinality(D))
           f == [i \in S |-> NewId(i, D)]
<1>1. IsFiniteSet(1..n) /\ Cardinality(1..n) = n
  BY FS_Interval
<1>2. IsFiniteSet(D) /\ Cardinality(D) \in 0..n
  BY SubsetOfInterval
<1>3. IsFiniteSet(S) /\ Cardinality(S) = n - Cardinality(D)
  <2>1. (1..n) \cap D = D
    OBVIOUS
  <2>2. /\ IsFiniteSet((1..n) \ D)
        /\ Cardinality((1..n) \ D) = Cardinality(1..n) - Cardinality((1..n) \cap D)
    BY <1>1, FS_Difference
  <2> QED BY <1>1, <2>1, <2>2
<1>4. IsFiniteSet(T) /\ Cardinality(T) = n - Cardinality(D)
  BY <1>2, FS_Interval
<1>5. f \in [S -> T]
  BY NewIdRange
<1>6. ASSUME NEW a \in S, NEW b \in S, f[a] = f[b] PROVE a = b
  <2>1. f[a] = NewId(a, D) /\ f[b] = NewId(b, D)
    OBVIOUS
  <2>2. NewId(a, D) \in Int /\ NewId(b, D) \in Int
    BY NewIdRange
  <2>3. ~(a < b)
    BY <1>6, <2>1, <2>2, NewIdIncreasing
  <2>4. ~(b < a)
    BY <1>6, <2>1, <2>2, NewIdIncreasing
  <2> QED BY <2>3, <2>4
<1>7. f \in Injection(S, T)
  <2> HIDE DEF f, S, T
  <2>1. DOMAIN f = S
    BY <1>5
  <2> QED BY <1>5, <1>6, <2>1 DEF Injection, IsInjective
<1>8. f \in Surjection(S, T)
  <2> HIDE DEF f, S, T
  <2> QED BY <1>3, <1>4, <1>7, FS_Injection
<1>9. \E i \in S : f[i] = k
  <2> HIDE DEF f, S
  <2> QED BY <1>8 DEF Surjection
<1> QED BY <1>9

\* OldId undoes NewId: the column at a new position is the one that moved there.
LEMMA OldIdInverse ==
    ASSUME NEW n \in Nat, NEW D, \A d \in D : d \in 1..n
    PROVE  /\ \A k \in 1..(n - Cardinality(D)) :
                 /\ OldId(k, n, D) \in 1..n
                 /\ OldId(k, n, D) \notin D
                 /\ NewId(OldId(k, n, D), D) = k
           /\ \A i \in (1..n) \ D : OldId(NewId(i, D), n, D) = i
<1>1. ASSUME NEW k \in 1..(n - Cardinality(D))
      PROVE  OldId(k, n, D) \in (1..n) \ D /\ NewId(OldId(k, n, D), D) = k
  BY NewIdOnto DEF OldId
<1>2. ASSUME NEW i \in (1..n) \ D PROVE OldId(NewId(i, D), n, D) = i
  <2> DEFINE j == OldId(NewId(i, D), n, D)
  <2>1. NewId(i, D) \in 1..(n - Cardinality(D)) /\ NewId(i, D) \in Int
    BY NewIdRange
  <2>2. j \in (1..n) \ D /\ NewId(j, D) = NewId(i, D)
    BY <2>1, <1>1
  <2> HIDE DEF j
  <2>3. ~(i < j)
    BY <2>1, <2>2, NewIdIncreasing
  <2>4. ~(j < i)
    BY <2>1, <2>2, NewIdIncreasing
  <2>5. j = i
    BY <2>2, <2>3, <2>4
  <2> QED BY <2>5 DEF j
<1> QED BY <1>1, <1>2

\* A function on 1..n is a sequence of length n.
LEMMA SeqIntro ==
    ASSUME NEW S, NEW n \in Nat, NEW f \in [1..n -> S]
    PROVE  f \in Seq(S) /\ Len(f) = n /\ DOMAIN f = 1..n
BY SeqDef

\* What the deletion of columns D leaves: each surviving column, at its new id.
LEMMA CompactedColumns ==
    ASSUME NEW S, NEW s \in Seq(S), NEW D, \A d \in D : d \in 1..Len(s)
    PROVE  /\ Compacted(s, D) \in Seq(S)
           /\ Len(Compacted(s, D)) = Len(s) - Cardinality(D)
           /\ \A i \in 1..Len(s) : i \notin D =>
                 NewId(i, D) \in 1..(Len(s) - Cardinality(D)) /\ Compacted(s, D)[NewId(i, D)] = s[i]
<1> DEFINE n == Len(s)
           m == n - Cardinality(D)
<1>1. s \in [1..n -> S] /\ n \in Nat
  BY LenProperties
<1>2. m \in Nat
  <2>1. Cardinality(D) \in 0..n
    BY <1>1, SubsetOfInterval
  <2> QED BY <1>1, <2>1
<1>3. \A k \in 1..m : OldId(k, n, D) \in 1..n
  BY <1>1, OldIdInverse
<1>4. Compacted(s, D) = [k \in 1..m |-> s[OldId(k, n, D)]]
  BY DEF Compacted
<1>5. Compacted(s, D) \in [1..m -> S]
  BY <1>1, <1>3, <1>4
<1>6. Compacted(s, D) \in Seq(S) /\ Len(Compacted(s, D)) = m
  BY <1>2, <1>5, SeqIntro
<1>7. ASSUME NEW i \in 1..n, i \notin D
      PROVE  NewId(i, D) \in 1..m /\ Compacted(s, D)[NewId(i, D)] = s[i]
  <2>1. NewId(i, D) \in 1..m
    BY <1>1, <1>7, NewIdRange
  <2>2. OldId(NewId(i, D), n, D) = i
    BY <1>1, <1>7, OldIdInverse
  <2> QED BY <1>4, <2>1, <2>2
<1> QED BY <1>6, <1>7
----------------------------------------------------------------------------
(* Maps that agree with each other on n columns and the handles H that a   *)
(* client holds.  Not every column has a handle in H, and handles may lead *)
(* nowhere: what agrees is that a held handle and its column lead to each  *)
(* other, that no other column leads to a held handle, and that a handle   *)
(* on the free list is free: neither held nor a column's, and there once.  *)

Ids == Nat  \* what the vectors hold

AgreeMaps(nat, hs, free, n, H) ==
    /\ n \in Nat /\ nat \in Seq(Ids) /\ hs \in Seq(Ids) /\ free \in Seq(Ids)
    /\ n <= Len(hs)
    /\ \A h \in H : h \in DOMAIN nat /\ nat[h] \in 1..n /\ hs[nat[h]] = h
    /\ \A i \in 1..n : /\ hs[i] \in DOMAIN nat
                       /\ hs[i] \in H => nat[hs[i]] = i
                       /\ \A k \in DOMAIN free : free[k] # hs[i]
    /\ \A k \in DOMAIN free : free[k] \in DOMAIN nat /\ free[k] \notin H
    /\ \A j, k \in DOMAIN free : free[j] = free[k] => j = k

Agree(on, nat, hs, free, n, H) ==
    /\ on \in BOOLEAN
    /\ on => AgreeMaps(nat, hs, free, n, H)
    /\ ~on => nat = <<>> /\ hs = <<>> /\ free = <<>> /\ n \in Nat /\ \A h \in H : h \in 1..n

\* One new column, which the handles T are made to lead to, one of which it leads back
\* to: T is taken from the free list or new.
OneMore(nat, hs, free, n, H, nat2, hs2, free2, T, h) ==
    /\ nat2 \in Seq(Ids) /\ hs2 \in Seq(Ids) /\ free2 \in Seq(Ids) /\ h \in T
    /\ \A g \in T : g \notin H /\ g \in DOMAIN nat2 /\ nat2[g] = n + 1
    /\ \A g \in T : \A i \in 1..n : hs[i] # g
    /\ \A g \in DOMAIN nat : g \in DOMAIN nat2 /\ (g \notin T => nat2[g] = nat[g])
    /\ n + 1 <= Len(hs2) /\ hs2[n + 1] = h /\ \A i \in 1..n : hs2[i] = hs[i]
    /\ Len(free2) <= Len(free)
    /\ \A k \in 1..Len(free2) : free2[k] = free[k] /\ free[k] \notin T

LEMMA AgreeOneMore ==
    ASSUME NEW nat, NEW hs, NEW free, NEW n, NEW H, AgreeMaps(nat, hs, free, n, H),
           NEW nat2, NEW hs2, NEW free2, NEW T, NEW h,
           OneMore(nat, hs, free, n, H, nat2, hs2, free2, T, h)
    PROVE  AgreeMaps(nat2, hs2, free2, n + 1, H) /\ AgreeMaps(nat2, hs2, free2, n + 1, H \cup {h})
<1> USE DEF OneMore
<1>1. /\ n \in Nat /\ nat \in Seq(Ids) /\ hs \in Seq(Ids) /\ free \in Seq(Ids)
      /\ \A g \in H : g \in DOMAIN nat /\ nat[g] \in 1..n /\ hs[nat[g]] = g
      /\ \A i \in 1..n : /\ hs[i] \in DOMAIN nat
                         /\ hs[i] \in H => nat[hs[i]] = i
                         /\ \A k \in DOMAIN free : free[k] # hs[i]
      /\ \A k \in DOMAIN free : free[k] \in DOMAIN nat /\ free[k] \notin H
      /\ \A j, k \in DOMAIN free : free[j] = free[k] => j = k
  BY DEF AgreeMaps
<1>2. /\ DOMAIN free2 = 1..Len(free2) /\ DOMAIN free = 1..Len(free)
      /\ Len(free2) \in Nat /\ Len(free) \in Nat
  BY <1>1, LenProperties
<1>3. \A k \in DOMAIN free2 : k \in DOMAIN free
  BY <1>2
<1>4. SUFFICES ASSUME NEW G \in {H, H \cup {h}} PROVE AgreeMaps(nat2, hs2, free2, n + 1, G)
  OBVIOUS
<1>5. \A g \in G : g \in H \/ g = h
  OBVIOUS
<1>6. ASSUME NEW g \in G
      PROVE  g \in DOMAIN nat2 /\ nat2[g] \in 1..(n + 1) /\ hs2[nat2[g]] = g
  <2>1. CASE g \in H
    <3>1. g \in DOMAIN nat /\ nat[g] \in 1..n /\ g \notin T
      BY <1>1, <2>1
    <3>2. g \in DOMAIN nat2 /\ nat2[g] = nat[g] /\ hs2[nat[g]] = g
      BY <1>1, <2>1, <3>1
    <3> QED BY <1>1, <3>1, <3>2
  <2>2. CASE g = h
    BY <1>1, <2>2
  <2> QED BY <1>5, <2>1, <2>2
<1>7. ASSUME NEW i \in 1..(n + 1)
      PROVE  /\ hs2[i] \in DOMAIN nat2
             /\ hs2[i] \in G => nat2[hs2[i]] = i
             /\ \A k \in DOMAIN free2 : free2[k] # hs2[i]
  <2>1. CASE i \in 1..n
    <3>1. /\ hs2[i] = hs[i] /\ hs[i] \in DOMAIN nat /\ hs[i] \notin T
          /\ \A k \in DOMAIN free : free[k] # hs[i]
      BY <1>1, <2>1
    <3>2. hs[i] \in DOMAIN nat2 /\ nat2[hs[i]] = nat[hs[i]]
      BY <3>1
    <3>3. hs[i] \in G => nat[hs[i]] = i
      BY <1>1, <1>5, <2>1, <3>1
    <3> QED BY <1>2, <1>3, <3>1, <3>2, <3>3
  <2>2. CASE i = n + 1
    BY <1>2, <2>2
  <2> QED BY <1>1, <2>1, <2>2
<1>8. \A k \in DOMAIN free2 : free2[k] \in DOMAIN nat2 /\ free2[k] \notin G
  BY <1>1, <1>2, <1>3, <1>5
<1>9. \A j, k \in DOMAIN free2 : free2[j] = free2[k] => j = k
  BY <1>1, <1>2, <1>3
<1> QED BY <1>1, <1>6, <1>7, <1>8, <1>9 DEF AgreeMaps

\* The maps that the compaction loop starts from agree, and are those that the model
\* reads.
LEMMA AgreeStarting ==
    ASSUME NEW n, NEW H,
           Agree(remap_ids, native_ids_map, handle_ids_map, free_var_handles, n, H)
    PROVE  /\ AgreeMaps(NativeIds(n), HandleIds(n), free_var_handles, n, H)
           /\ \A h \in H : /\ NativeIds(n)[h] = NativeId(h)
                           /\ NativeId(h) \in 1..n
                           /\ VarHandle(NativeId(h)) = h
                           /\ remap_ids => h \in DOMAIN native_ids_map
           /\ \A i \in 1..n : /\ HandleIds(n)[i] = VarHandle(i)
                              /\ VarHandle(i) \in H => NativeId(VarHandle(i)) = i
                              /\ remap_ids => i \in DOMAIN handle_ids_map
<1>1. CASE remap_ids
  <2>1. NativeIds(n) = native_ids_map /\ HandleIds(n) = handle_ids_map
        /\ AgreeMaps(native_ids_map, handle_ids_map, free_var_handles, n, H)
    BY <1>1 DEF NativeIds, HandleIds, Agree
  <2>2. n \in Nat /\ n <= Len(handle_ids_map) /\ handle_ids_map \in Seq(Ids)
    BY <2>1 DEF AgreeMaps
  <2>3. \A i \in 1..n : i \in DOMAIN handle_ids_map
    BY <2>2, LenProperties
  <2> QED BY <1>1, <2>1, <2>3 DEF AgreeMaps, NativeId, VarHandle
<1>2. CASE ~remap_ids
  <2> DEFINE id == [i \in 1..n |-> i]
  <2>1. NativeIds(n) = id /\ HandleIds(n) = id
    BY <1>2 DEF NativeIds, HandleIds
  <2>2. free_var_handles = <<>> /\ n \in Nat /\ \A h \in H : h \in 1..n
    BY <1>2 DEF Agree
  <2>3. id \in Seq(Ids) /\ Len(id) = n /\ DOMAIN id = 1..n /\ \A i \in 1..n : id[i] = i
    BY <2>2, SeqIntro DEF Ids
  <2>4. free_var_handles \in Seq(Ids) /\ DOMAIN free_var_handles = {}
    BY <2>2
  <2> HIDE DEF id
  <2>5. AgreeMaps(id, id, free_var_handles, n, H)
    BY <2>2, <2>3, <2>4 DEF AgreeMaps
  <2> QED BY <1>2, <2>1, <2>2, <2>3, <2>5 DEF NativeId, VarHandle
<1> QED BY <1>1, <1>2 DEF Agree

\* _new_var_handle gives a new column a handle that nobody holds and that is no
\* column's, and moves neither a handle nor a column.
LEMMA NewVarHandleAgrees ==
    ASSUME NEW n, NEW H,
           Agree(remap_ids, native_ids_map, handle_ids_map, free_var_handles, n, H),
           NewVarHandle(n + 1, ExtendedHandleIdsMap(1)), NEW h, h = NewHandleId(n + 1)
    PROVE  /\ h \notin H
           /\ Agree(remap_ids', native_ids_map', handle_ids_map', free_var_handles', n + 1, H)
           /\ Agree(remap_ids', native_ids_map', handle_ids_map', free_var_handles', n + 1,
                    H \cup {h})
           /\ remap_ids' = remap_ids
           /\ NativeId(h)' = n + 1 /\ \A g \in H : NativeId(g)' = NativeId(g)
           /\ VarHandle(n + 1)' = h /\ \A i \in 1..n : VarHandle(i)' = VarHandle(i)
<1>1. CASE ~remap_ids
  <2>1. h = n + 1 /\ UNCHANGED remapping /\ n \in Nat /\ \A g \in H : g \in 1..n
    BY <1>1 DEF Agree, NewHandleId, NewVarHandle
  <2> QED BY <1>1, <2>1 DEF Agree, NativeId, VarHandle, remapping
<1>2. CASE remap_ids
  <2> DEFINE L == Len(handle_ids_map)
             m == Len(free_var_handles)
             ext == handle_ids_map \o [k \in 1..1 |-> 1]
  <2>1. AgreeMaps(native_ids_map, handle_ids_map, free_var_handles, n, H)
    BY <1>2 DEF Agree
  <2>2. /\ n \in Nat /\ native_ids_map \in Seq(Ids) /\ handle_ids_map \in Seq(Ids)
        /\ free_var_handles \in Seq(Ids) /\ n <= L
        /\ L \in Nat /\ DOMAIN handle_ids_map = 1..L
        /\ m \in Nat /\ DOMAIN free_var_handles = 1..m
        /\ DOMAIN native_ids_map = 1..Len(native_ids_map) /\ Len(native_ids_map) \in Nat
    BY <2>1, LenProperties DEF AgreeMaps
  <2>3. /\ \A g \in H : g \in DOMAIN native_ids_map /\ native_ids_map[g] \in 1..n
        /\ \A i \in 1..n : /\ handle_ids_map[i] \in DOMAIN native_ids_map
                           /\ \A k \in 1..m : free_var_handles[k] # handle_ids_map[i]
        /\ \A k \in 1..m : free_var_handles[k] \in DOMAIN native_ids_map
                           /\ free_var_handles[k] \notin H
        /\ \A j, k \in 1..m : free_var_handles[j] = free_var_handles[k] => j = k
    BY <2>1, <2>2 DEF AgreeMaps
  <2>4. /\ ext \in Seq(Ids) /\ Len(ext) = L + 1 /\ n + 1 \in 1..Len(ext)
        /\ \A i \in 1..n : ext[i] = handle_ids_map[i]
    <3>1. [k \in 1..1 |-> 1] \in Seq(Ids) /\ Len([k \in 1..1 |-> 1]) = 1
      BY SeqIntro DEF Ids
    <3> HIDE DEF ext, L
    <3>2. ext \in Seq(Ids) /\ Len(ext) = L + 1
      BY <2>2, <3>1, ConcatProperties DEF ext, L
    <3>3. \A i \in 1..n : ext[i] = handle_ids_map[i]
      BY <2>2, <3>1, ConcatProperties DEF ext, L
    <3> QED BY <2>2, <3>2, <3>3
  <2>5. ExtendedHandleIdsMap(1) = ext
    BY <1>2 DEF ExtendedHandleIdsMap
  <2>6. /\ remap_ids' = remap_ids /\ handle_ids_map' = [ext EXCEPT ![n + 1] = h]
        /\ free_var_handles = <<>> => /\ h = Len(native_ids_map) + 1
                                      /\ native_ids_map' = Append(native_ids_map, n + 1)
                                      /\ free_var_handles' = free_var_handles
        /\ free_var_handles # <<>> => /\ h = free_var_handles[m]
                                      /\ native_ids_map' = [native_ids_map EXCEPT ![h] = n + 1]
                                      /\ free_var_handles' = SubSeq(free_var_handles, 1, m - 1)
    BY <1>2, <2>5 DEF NewVarHandle, NewHandleId
  <2> HIDE DEF ext, L, m
  <2>7. /\ native_ids_map' \in Seq(Ids) /\ h \in Ids /\ h \notin H
        /\ h \in DOMAIN native_ids_map' /\ native_ids_map'[h] = n + 1
        /\ \A i \in 1..n : handle_ids_map[i] # h
        /\ \A g \in DOMAIN native_ids_map :
              g \in DOMAIN native_ids_map' /\ (g # h => native_ids_map'[g] = native_ids_map[g])
        /\ free_var_handles' \in Seq(Ids) /\ Len(free_var_handles') <= Len(free_var_handles)
        /\ \A k \in 1..Len(free_var_handles') :
              free_var_handles'[k] = free_var_handles[k] /\ free_var_handles[k] # h
    <3>1. CASE free_var_handles = <<>>
      <4>1. h = Len(native_ids_map) + 1 /\ native_ids_map' = Append(native_ids_map, n + 1)
            /\ free_var_handles' = free_var_handles /\ m = 0 /\ Len(free_var_handles') = m
        BY <2>6, <3>1 DEF m
      <4>2. /\ native_ids_map' \in Seq(Ids) /\ Len(native_ids_map') = h
            /\ native_ids_map'[h] = n + 1
            /\ \A g \in 1..Len(native_ids_map) : native_ids_map'[g] = native_ids_map[g]
        <5>1. n + 1 \in Ids
          BY <2>2 DEF Ids
        <5> QED BY <2>2, <4>1, <5>1, AppendProperties
      <4>3. DOMAIN native_ids_map' = 1..h /\ h \in Ids /\ h \notin DOMAIN native_ids_map
            /\ h \in DOMAIN native_ids_map'
        BY <2>2, <4>1, <4>2, LenProperties DEF Ids
      <4>4. \A g \in DOMAIN native_ids_map : g \in DOMAIN native_ids_map'
        BY <2>2, <4>1, <4>3
      <4> QED BY <2>2, <2>3, <4>1, <4>2, <4>3, <4>4 DEF m
    <3>2. CASE free_var_handles # <<>>
      <4>1. /\ h = free_var_handles[m] /\ native_ids_map' = [native_ids_map EXCEPT ![h] = n + 1]
            /\ free_var_handles' = SubSeq(free_var_handles, 1, m - 1)
        BY <2>6, <3>2
      <4>2. m >= 1 /\ m \in 1..m
        <5>1. m # 0
          BY <2>2, <3>2, EmptySeq DEF m
        <5> QED BY <2>2, <5>1
      <4>3. h \in DOMAIN native_ids_map /\ h \notin H /\ h \in Ids
        BY <2>2, <2>3, <4>1, <4>2 DEF Ids
      <4>4. /\ native_ids_map' \in Seq(Ids) /\ Len(native_ids_map') = Len(native_ids_map)
            /\ native_ids_map'[h] = n + 1
            /\ \A g \in DOMAIN native_ids_map : g # h => native_ids_map'[g] = native_ids_map[g]
        <5>1. n + 1 \in Ids
          BY <2>2 DEF Ids
        <5> QED BY <2>2, <4>1, <4>3, <5>1, ExceptSeq
      <4>5. DOMAIN native_ids_map' = DOMAIN native_ids_map
        BY <4>1
      <4>6. /\ free_var_handles' \in Seq(Ids) /\ Len(free_var_handles') = m - 1
            /\ \A k \in 1..(m - 1) : free_var_handles'[k] = free_var_handles[k]
        <5>1. \A k \in 1..(m - 1) : free_var_handles[k] \in Ids
          BY <2>2, LenProperties DEF m
        <5>2. /\ SubSeq(free_var_handles, 1, m - 1) \in Seq(Ids)
              /\ Len(SubSeq(free_var_handles, 1, m - 1)) = m - 1
              /\ \A k \in 1..(m - 1) : SubSeq(free_var_handles, 1, m - 1)[k] = free_var_handles[k]
          BY <2>2, <4>2, <5>1, SubSeqProperties
        <5> QED BY <4>1, <5>2
      <4>7. \A k \in 1..(m - 1) : k \in 1..m /\ k # m /\ free_var_handles[k] # h
        BY <2>2, <2>3, <4>1, <4>2
      <4>8. \A i \in 1..n : handle_ids_map[i] # h
        BY <2>3, <4>1, <4>2
      <4>9. /\ Len(free_var_handles') <= Len(free_var_handles)
            /\ \A k \in 1..Len(free_var_handles') :
                  free_var_handles'[k] = free_var_handles[k] /\ free_var_handles[k] # h
        <5>1. 1..Len(free_var_handles') = 1..(m - 1)
          BY <4>6
        <5>2. Len(free_var_handles') <= Len(free_var_handles)
          BY <2>2, <4>6 DEF m
        <5> QED BY <4>6, <4>7, <5>1, <5>2
      <4>10. /\ h \in DOMAIN native_ids_map'
             /\ \A g \in DOMAIN native_ids_map :
                   g \in DOMAIN native_ids_map' /\ (g # h => native_ids_map'[g] = native_ids_map[g])
        <5> DEFINE nat2 == native_ids_map'
        <5>1. DOMAIN nat2 = DOMAIN native_ids_map
              /\ \A g \in DOMAIN native_ids_map : g # h => nat2[g] = native_ids_map[g]
          BY <4>4, <4>5
        <5> HIDE DEF nat2
        <5>2. h \in DOMAIN nat2 /\ \A g \in DOMAIN native_ids_map :
                 g \in DOMAIN nat2 /\ (g # h => nat2[g] = native_ids_map[g])
          BY <4>3, <5>1
        <5> QED BY <5>2 DEF nat2
      <4>11. native_ids_map' \in Seq(Ids) /\ native_ids_map'[h] = n + 1
             /\ free_var_handles' \in Seq(Ids)
        BY <4>4, <4>6
      <4> QED BY <4>3, <4>8, <4>9, <4>10, <4>11
    <3> QED BY <3>1, <3>2
  <2>8. /\ handle_ids_map' \in Seq(Ids) /\ Len(handle_ids_map') = Len(ext)
        /\ handle_ids_map'[n + 1] = h
        /\ \A i \in 1..n : handle_ids_map'[i] = handle_ids_map[i]
    BY <2>2, <2>4, <2>6, <2>7, ExceptSeq
  <2>9. n + 1 <= Len(handle_ids_map')
    BY <2>4, <2>8
  <2>10. /\ AgreeMaps(native_ids_map', handle_ids_map', free_var_handles', n + 1, H)
         /\ AgreeMaps(native_ids_map', handle_ids_map', free_var_handles', n + 1, H \cup {h})
    <3> DEFINE T == {h}
    <3>1. OneMore(native_ids_map, handle_ids_map, free_var_handles, n, H,
                  native_ids_map', handle_ids_map', free_var_handles', T, h)
      BY <2>7, <2>8, <2>9 DEF OneMore
    <3> QED BY <2>1, <3>1, AgreeOneMore
  <2> QED BY <1>2, <2>2, <2>3, <2>6, <2>7, <2>8, <2>10 DEF Agree, NativeId, VarHandle
<1> QED BY <1>1, <1>2 DEF Agree

\* _new_var_handle_range gives new columns handles that nobody holds, and moves neither a
\* handle nor a column.
LEMMA NewVarHandleRangeAgrees ==
    ASSUME NEW n, NEW H,
           Agree(remap_ids, native_ids_map, handle_ids_map, free_var_handles, n, H),
           NEW count \in Nat, NEW extended, remap_ids => extended = ExtendedHandleIdsMap(count),
           NewVarHandleRange(n, count, extended), NEW first, first = FirstOfHandleRange(n)
    PROVE  /\ first \in Nat \ {0}
           /\ \A k \in 1..count : first + (k - 1) \notin H
           /\ Agree(remap_ids', native_ids_map', handle_ids_map', free_var_handles', n + count,
                    H \cup first..(first + count - 1))
           /\ remap_ids' = remap_ids
           /\ \A k \in 1..count : /\ NativeId(first + (k - 1))' = n + k
                                  /\ VarHandle(n + k)' = first + (k - 1)
           /\ \A g \in H : NativeId(g)' = NativeId(g)
           /\ \A i \in 1..n : VarHandle(i)' = VarHandle(i)
<1> DEFINE new == first..(first + count - 1)
           G == H \cup new
<1>1. CASE ~remap_ids
  <2>1. first = n + 1 /\ UNCHANGED remapping /\ n \in Nat /\ \A g \in H : g \in 1..n
    BY <1>1 DEF Agree, FirstOfHandleRange, NewVarHandleRange
  <2>2. \A g \in G : g \in 1..(n + count)
    BY <2>1
  <2>3. n + count \in Nat /\ first \in Nat \ {0} /\ \A k \in 1..count : first + (k - 1) \notin H
    BY <2>1
  <2>4. \A k \in 1..count : first + (k - 1) = n + k
    BY <2>1
  <2> HIDE DEF new
  <2>5. native_ids_map = <<>> /\ handle_ids_map = <<>> /\ free_var_handles = <<>>
    BY <1>1 DEF Agree
  <2>6. Agree(remap_ids', native_ids_map', handle_ids_map', free_var_handles', n + count, G)
    <3> HIDE DEF G
    <3> QED BY <1>1, <2>1, <2>2, <2>3, <2>5 DEF Agree, remapping
  <2> QED BY <1>1, <2>1, <2>3, <2>4, <2>6 DEF new, NativeId, VarHandle, remapping
<1>2. CASE remap_ids
  <2> DEFINE N == Len(native_ids_map)
             L == Len(handle_ids_map)
             more == [k \in 1..count |-> n + k]
             ones == [k \in 1..count |-> 1]
             nat2 == native_ids_map'
             hs2 == handle_ids_map'
  <2>1. AgreeMaps(native_ids_map, handle_ids_map, free_var_handles, n, H)
    BY <1>2 DEF Agree
  <2>2. /\ n \in Nat /\ native_ids_map \in Seq(Ids) /\ handle_ids_map \in Seq(Ids)
        /\ free_var_handles \in Seq(Ids) /\ n <= L
        /\ L \in Nat /\ N \in Nat /\ DOMAIN native_ids_map = 1..N
    BY <2>1, LenProperties DEF AgreeMaps
  <2>3. /\ first = N + 1 /\ first \in Nat \ {0} /\ first \in Ids
        /\ \A k \in 1..count : first + (k - 1) \in Ids
        /\ new = (N + 1)..(N + count)
    BY <1>2, <2>2 DEF FirstOfHandleRange, Ids
  <2>4. extended = handle_ids_map \o ones /\ nat2 = native_ids_map \o more
        /\ hs2 = [i \in 1..Len(extended) |->
                     IF i \in (n + 1)..(n + count) THEN first + (i - n - 1) ELSE extended[i]]
        /\ remap_ids' = remap_ids /\ free_var_handles' = free_var_handles
    BY <1>2, <2>3 DEF ExtendedHandleIdsMap, NewVarHandleRange
  <2>5. more \in Seq(Ids) /\ Len(more) = count /\ ones \in Seq(Ids) /\ Len(ones) = count
        /\ \A k \in 1..count : more[k] = n + k
    <3>1. \A k \in 1..count : n + k \in Ids /\ 1 \in Ids
      BY <2>2 DEF Ids
    <3>2. more \in [1..count -> Ids] /\ ones \in [1..count -> Ids]
      BY <3>1
    <3> QED BY <3>2, SeqIntro
  <2> HIDE DEF N, L, more, ones, nat2, hs2
  <2>6. /\ nat2 \in Seq(Ids) /\ Len(nat2) = N + count
        /\ \A g \in 1..(N + count) : nat2[g] = IF g <= N THEN native_ids_map[g] ELSE more[g - N]
    <3>1. native_ids_map \in Seq(Ids) /\ more \in Seq(Ids) /\ Len(native_ids_map) = N /\ Len(more) = count
      BY <2>2, <2>5 DEF N
    <3>2. nat2 = native_ids_map \o more
      BY <2>4
    <3> QED BY <3>1, <3>2, ConcatProperties
  <2>7. /\ extended \in Seq(Ids) /\ Len(extended) = L + count
        /\ \A i \in 1..(L + count) : extended[i] = IF i <= L THEN handle_ids_map[i] ELSE ones[i - L]
    <3>1. handle_ids_map \in Seq(Ids) /\ ones \in Seq(Ids) /\ Len(handle_ids_map) = L /\ Len(ones) = count
      BY <2>2, <2>5 DEF L
    <3>2. extended = handle_ids_map \o ones
      BY <2>4
    <3> QED BY <3>1, <3>2, ConcatProperties
  <2>8. /\ DOMAIN nat2 = 1..(N + count)
        /\ \A g \in 1..N : nat2[g] = native_ids_map[g] /\ g \in DOMAIN nat2
        /\ \A k \in 1..count : first + (k - 1) \in DOMAIN nat2 /\ nat2[first + (k - 1)] = n + k
    <3>1. DOMAIN nat2 = 1..(N + count)
      BY <2>2, <2>6, LenProperties
    <3>2. \A g \in 1..N : nat2[g] = native_ids_map[g] /\ g \in 1..(N + count)
      BY <2>2, <2>6
    <3>3. ASSUME NEW k \in 1..count
          PROVE  first + (k - 1) \in 1..(N + count) /\ nat2[first + (k - 1)] = n + k
      <4>1. first + (k - 1) = N + k /\ N + k \in 1..(N + count) /\ ~(N + k <= N)
            /\ (N + k) - N = k
        BY <2>2, <2>3
      <4>2. nat2[N + k] = more[(N + k) - N]
        BY <2>6, <4>1
      <4> QED BY <2>5, <4>1, <4>2
    <3> QED BY <3>1, <3>2, <3>3
  <2>9. /\ hs2 \in Seq(Ids) /\ Len(hs2) = L + count
        /\ \A i \in 1..n : hs2[i] = handle_ids_map[i]
        /\ \A k \in 1..count : hs2[n + k] = first + (k - 1)
    <3>1. ASSUME NEW i \in 1..(L + count)
          PROVE  /\ i \in (n + 1)..(n + count) => hs2[i] = first + (i - n - 1) /\ hs2[i] \in Ids
                 /\ i \notin (n + 1)..(n + count) => hs2[i] = extended[i] /\ hs2[i] \in Ids
      <4>1. extended[i] \in Ids
        BY <2>2, <2>7, LenProperties
      <4>2. i \in (n + 1)..(n + count) => first + (i - n - 1) \in Ids
        BY <2>2, <2>3 DEF Ids
      <4> QED BY <2>4, <2>7, <4>1, <4>2
    <3>2. hs2 = [i \in 1..(L + count) |-> hs2[i]] /\ \A i \in 1..(L + count) : hs2[i] \in Ids
      BY <2>4, <2>7, <3>1
    <3>3. hs2 \in [1..(L + count) -> Ids] /\ L + count \in Nat
      BY <2>2, <3>2
    <3>4. hs2 \in Seq(Ids) /\ Len(hs2) = L + count
      BY <3>3, SeqIntro
    <3>5. ASSUME NEW i \in 1..n PROVE hs2[i] = handle_ids_map[i]
      <4>1. i \in 1..(L + count) /\ i \notin (n + 1)..(n + count) /\ i <= L
        BY <2>2
      <4> QED BY <2>7, <3>1, <4>1
    <3>6. ASSUME NEW k \in 1..count PROVE hs2[n + k] = first + (k - 1)
      <4>1. n + k \in 1..(L + count) /\ n + k \in (n + 1)..(n + count) /\ (n + k) - n - 1 = k - 1
        BY <2>2
      <4> QED BY <3>1, <4>1
    <3> QED BY <3>4, <3>5, <3>6
  <2>10. /\ \A h \in H : h \in 1..N /\ native_ids_map[h] \in 1..n
                         /\ handle_ids_map[native_ids_map[h]] = h
         /\ \A i \in 1..n : /\ handle_ids_map[i] \in 1..N
                            /\ handle_ids_map[i] \in H => native_ids_map[handle_ids_map[i]] = i
                            /\ \A k \in DOMAIN free_var_handles :
                                  free_var_handles[k] # handle_ids_map[i]
         /\ \A k \in DOMAIN free_var_handles :
               free_var_handles[k] \in 1..N /\ free_var_handles[k] \notin H
         /\ \A j, k \in DOMAIN free_var_handles :
               free_var_handles[j] = free_var_handles[k] => j = k
    BY <2>1, <2>2 DEF AgreeMaps
  <2>11. \A g \in G : g \in H \/ \E k \in 1..count : g = first + (k - 1)
    <3>1. ASSUME NEW g \in new PROVE \E k \in 1..count : g = first + (k - 1)
      <4>1. g - first + 1 \in 1..count /\ g = first + ((g - first + 1) - 1)
        BY <2>3
      <4> QED BY <4>1
    <3> QED BY <3>1
  <2>12. \A k \in 1..count : first + (k - 1) \notin 1..N /\ first + (k - 1) \in new
    BY <2>2, <2>3
  <2>13. \A g \in 1..N : g \in G => g \in H
    BY <2>11, <2>12
  <2>14. ASSUME NEW g \in G
         PROVE  g \in DOMAIN nat2 /\ nat2[g] \in 1..(n + count) /\ hs2[nat2[g]] = g
    <3>1. CASE g \in H
      <4>1. g \in 1..N /\ nat2[g] = native_ids_map[g] /\ native_ids_map[g] \in 1..n
        BY <2>8, <2>10, <3>1
      <4>2. nat2[g] \in 1..(n + count)
        BY <2>2, <4>1
      <4> QED BY <2>8, <2>9, <2>10, <3>1, <4>1, <4>2
    <3>2. ASSUME NEW k \in 1..count, g = first + (k - 1)
          PROVE  g \in DOMAIN nat2 /\ nat2[g] \in 1..(n + count) /\ hs2[nat2[g]] = g
      <4>1. n + k \in 1..(n + count)
        BY <2>2
      <4> QED BY <2>8, <2>9, <3>2, <4>1
    <3> QED BY <2>11, <3>1, <3>2
  <2>15. ASSUME NEW i \in 1..(n + count)
         PROVE  /\ hs2[i] \in DOMAIN nat2
                /\ hs2[i] \in G => nat2[hs2[i]] = i
                /\ \A k \in DOMAIN free_var_handles : free_var_handles[k] # hs2[i]
    <3>1. CASE i \in 1..n
      <4>1. hs2[i] = handle_ids_map[i] /\ handle_ids_map[i] \in 1..N
        BY <2>9, <2>10, <3>1
      <4>2. hs2[i] \in G => nat2[hs2[i]] = i
        BY <2>8, <2>10, <2>13, <3>1, <4>1
      <4> QED BY <2>8, <2>10, <3>1, <4>1, <4>2
    <3>2. CASE i \notin 1..n
      <4>1. PICK k \in 1..count : i = n + k
        <5>1. i - n \in 1..count /\ i = n + (i - n)
          BY <2>2, <3>2
        <5> QED BY <5>1
      <4>2. hs2[i] = first + (k - 1) /\ first + (k - 1) \notin 1..N
        BY <2>9, <2>12, <4>1
      <4> QED BY <2>8, <2>10, <4>1, <4>2
    <3> QED BY <3>1, <3>2
  <2>16. \A k \in DOMAIN free_var_handles :
            free_var_handles[k] \in DOMAIN nat2 /\ free_var_handles[k] \notin G
    BY <2>8, <2>10, <2>13
  <2>17. n + count \in Nat /\ n + count <= Len(hs2)
    BY <2>2, <2>9
  <2> HIDE DEF G, new
  <2>18. AgreeMaps(nat2, hs2, free_var_handles, n + count, G)
    BY <2>2, <2>6, <2>9, <2>10, <2>14, <2>15, <2>16, <2>17 DEF AgreeMaps
  <2>19. Agree(remap_ids', native_ids_map', handle_ids_map', free_var_handles', n + count, G)
    BY <1>2, <2>4, <2>18 DEF Agree, nat2, hs2
  <2>20. \A g \in H : nat2[g] = native_ids_map[g]
    BY <2>8, <2>10
  <2>21. \A k \in 1..count : first + (k - 1) \notin H
    BY <2>10, <2>12
  <2> QED BY <1>2, <2>3, <2>4, <2>8, <2>9, <2>19, <2>20, <2>21
          DEF NativeId, VarHandle, nat2, hs2, G, new
<1> QED BY <1>1, <1>2 DEF Agree

\* An entry more at the end of the handle map, for a column that the solver refuses, is
\* nowhere looked up.
LeftOver ==
    /\ handle_ids_map' = ExtendedHandleIdsMap(1)
    /\ UNCHANGED <<remap_ids, native_ids_map, free_var_handles>>

LEMMA LeftOverAgrees ==
    ASSUME NEW n, NEW H,
           Agree(remap_ids, native_ids_map, handle_ids_map, free_var_handles, n, H),
           LeftOver
    PROVE  /\ Agree(remap_ids', native_ids_map', handle_ids_map', free_var_handles', n, H)
           /\ \A g : NativeId(g)' = NativeId(g)
           /\ \A i \in 1..n : VarHandle(i)' = VarHandle(i)
<1>1. CASE ~remap_ids
  BY <1>1 DEF LeftOver, Agree, ExtendedHandleIdsMap, NativeId, VarHandle
<1>2. CASE remap_ids
  <2> DEFINE one == [k \in 1..1 |-> 1]
             hs2 == handle_ids_map'
  <2>1. AgreeMaps(native_ids_map, handle_ids_map, free_var_handles, n, H)
    BY <1>2 DEF Agree
  <2>2. n \in Nat /\ handle_ids_map \in Seq(Ids) /\ n <= Len(handle_ids_map)
        /\ Len(handle_ids_map) \in Nat
    BY <2>1, LenProperties DEF AgreeMaps
  <2>3. hs2 = handle_ids_map \o one
    BY <1>2 DEF LeftOver, ExtendedHandleIdsMap
  <2>4. one \in Seq(Ids) /\ Len(one) = 1
    BY SeqIntro DEF Ids
  <2> HIDE DEF one, hs2
  <2>5. /\ hs2 \in Seq(Ids) /\ Len(hs2) = Len(handle_ids_map) + 1
        /\ \A i \in 1..(Len(handle_ids_map) + 1) :
              hs2[i] = IF i <= Len(handle_ids_map) THEN handle_ids_map[i]
                       ELSE one[i - Len(handle_ids_map)]
    <3>1. /\ hs2 \in Seq(Ids) /\ Len(hs2) = Len(handle_ids_map) + Len(one)
          /\ \A i \in 1..(Len(handle_ids_map) + Len(one)) :
                hs2[i] = IF i <= Len(handle_ids_map) THEN handle_ids_map[i]
                         ELSE one[i - Len(handle_ids_map)]
      BY <2>2, <2>3, <2>4, ConcatProperties
    <3> QED BY <2>4, <3>1
  <2>6. \A i \in 1..n : hs2[i] = handle_ids_map[i]
    BY <2>2, <2>5
  <2>7. n <= Len(hs2)
    BY <2>2, <2>5
  <2>8. AgreeMaps(native_ids_map, hs2, free_var_handles, n, H)
    BY <2>1, <2>5, <2>6, <2>7 DEF AgreeMaps
  <2> QED BY <1>2, <2>6, <2>8 DEF LeftOver, Agree, NativeId, VarHandle, hs2
<1> QED BY <1>1, <1>2 DEF Agree

\* There are finitely many handles that agree.
LEMMA HeldFinite ==
    ASSUME NEW n, NEW H,
           Agree(remap_ids, native_ids_map, handle_ids_map, free_var_handles, n, H)
    PROVE  Cardinality(H) \in Nat
<1>1. CASE remap_ids
  <2>1. native_ids_map \in Seq(Ids) /\ \A h \in H : h \in DOMAIN native_ids_map
    BY <1>1 DEF Agree, AgreeMaps
  <2>2. Len(native_ids_map) \in Nat /\ \A h \in H : h \in 1..Len(native_ids_map)
    BY <2>1, LenProperties
  <2> QED BY <2>2, SubsetOfInterval
<1>2. CASE ~remap_ids
  <2>1. n \in Nat /\ \A h \in H : h \in 1..n
    BY <1>2 DEF Agree
  <2> QED BY <2>1, SubsetOfInterval
<1> QED BY <1>1, <1>2 DEF Agree
----------------------------------------------------------------------------
(* Removals *)

\* A set of positions that is not empty has a greatest one.
LEMMA GreatestPosition ==
    ASSUME NEW n \in Nat, NEW S, S \subseteq 1..n, S # {}
    PROVE  \E i \in S : \A j \in S : j <= i
<1> DEFINE T == {n - i : i \in S}
<1>1. T \subseteq Nat /\ T # {}
  <2>1. \A i \in S : n - i \in Nat
    OBVIOUS
  <2>2. \A x \in T : x \in Nat
    BY <2>1
  <2>3. T # {}
    OBVIOUS
  <2> HIDE DEF T
  <2> QED BY <2>2, <2>3
<1> HIDE DEF T
<1>2. \E x \in T : \A y \in T : ~(<<y, x>> \in OpToRel(<, Nat))
  BY <1>1, WFMin, NatLessThanWellFounded
<1>3. PICK x \in T : \A y \in T : ~(<<y, x>> \in OpToRel(<, Nat))
  BY <1>2
<1>4. \A y \in T : ~(y < x)
  <2> SUFFICES ASSUME NEW y \in T, y < x PROVE FALSE
    OBVIOUS
  <2>1. <<y, x>> \in Nat \X Nat /\ <<y, x>>[1] < <<y, x>>[2]
    BY <1>1
  <2> QED BY <1>3, <2>1 DEF OpToRel
<1>5. PICK i \in S : x = n - i
  BY DEF T
<1>6. ASSUME NEW j \in S PROVE j <= i
  <2>1. n - j \in T
    BY DEF T
  <2>2. ~(n - j < n - i)
    BY <1>4, <1>5, <2>1
  <2> QED BY <2>2
<1> QED BY <1>6

\* Handles to remove: held ones, each once.
Doomed(doomed, m, H) ==
    /\ m \in Nat /\ doomed \in [1..m -> H]
    /\ \A j, k \in 1..m : doomed[j] = doomed[k] => j = k

\* They have as many columns as they are, which no other held handle leads to.
LEMMA RemovedAgree ==
    ASSUME NEW n, NEW H,
           Agree(remap_ids, native_ids_map, handle_ids_map, free_var_handles, n, H),
           NEW m, NEW doomed, Doomed(doomed, m, H),
           NEW D, D = {NativeId(doomed[k]) : k \in DOMAIN doomed}
    PROVE  /\ m \in Nat /\ DOMAIN doomed = 1..m /\ Len(doomed) = m
           /\ \A d \in D : d \in 1..n
           /\ Cardinality(D) = m /\ m <= n /\ n \in Nat
           /\ \A h \in H : NativeId(h) \in D <=> h \in {doomed[k] : k \in DOMAIN doomed}
<1> DEFINE f == [k \in 1..m |-> NativeId(doomed[k])]
<1>1. /\ m \in Nat /\ doomed \in [1..m -> H] /\ DOMAIN doomed = 1..m /\ Len(doomed) = m
      /\ \A j, k \in 1..m : doomed[j] = doomed[k] => j = k
      /\ \A k \in 1..m : doomed[k] \in H
  <2>1. /\ m \in Nat /\ doomed \in [1..m -> H]
        /\ \A j, k \in 1..m : doomed[j] = doomed[k] => j = k
    BY DEF Doomed
  <2> QED BY <2>1, SeqIntro
<1>2. \A h \in H : NativeId(h) \in 1..n /\ VarHandle(NativeId(h)) = h
  BY AgreeStarting
<1>3. n \in Nat
  BY DEF Agree, AgreeMaps
<1>4. \A d \in D : d \in 1..n
  BY <1>1, <1>2
<1>5. \A h \in H : NativeId(h) \in D <=> h \in {doomed[k] : k \in DOMAIN doomed}
  BY <1>1, <1>2
<1>6. Cardinality(D) = m
  <2>1. f \in [1..m -> D]
    BY <1>1
  <2>2. ASSUME NEW j \in 1..m, NEW k \in 1..m, f[j] = f[k] PROVE j = k
    <3>1. NativeId(doomed[j]) = NativeId(doomed[k])
      BY <2>2
    <3>2. doomed[j] = doomed[k]
      BY <1>1, <1>2, <3>1
    <3> QED BY <1>1, <3>2
  <2>3. ASSUME NEW d \in D PROVE \E k \in 1..m : f[k] = d
    BY <1>1
  <2>4. DOMAIN f = 1..m
    OBVIOUS
  <2> HIDE DEF f
  <2>5. f \in Bijection(1..m, D)
    BY <2>1, <2>2, <2>3, <2>4 DEF Bijection, Injection, Surjection, IsInjective
  <2> QED BY <1>1, <2>5, FS_CountingElements DEF ExistsBijection
<1>7. m <= n
  BY <1>3, <1>4, <1>6, SubsetOfInterval
<1> QED BY <1>1, <1>3, <1>4, <1>5, <1>6, <1>7

\* What removing doomed handles leaves of maps that agree.  A surviving handle follows
\* its column to its new id.
LEMMA RemoveHandlesAgree ==
    ASSUME NEW n, NEW H,
           Agree(remap_ids, native_ids_map, handle_ids_map, free_var_handles, n, H),
           NEW m, NEW doomed, Doomed(doomed, m, H),
           NEW D, D = {NativeId(doomed[k]) : k \in DOMAIN doomed},
           RemoveHandles(doomed, n, D), NEW X, X = {doomed[k] : k \in DOMAIN doomed}
    PROVE  /\ Agree(remap_ids', native_ids_map', handle_ids_map', free_var_handles',
                    n - m, H \ X)
           /\ \A h \in H \ X : NativeId(h)' = NewId(NativeId(h), D)
           /\ \A i \in 1..n : i \notin D => VarHandle(NewId(i, D))' = VarHandle(i)
<1> DEFINE nat == NativeIds(n)
           hs == HandleIds(n)
           free == free_var_handles
           nat2 == native_ids_map'
           hs2 == handle_ids_map'
           free2 == free_var_handles'
           kept == n - m
<1>1. /\ m \in Nat /\ DOMAIN doomed = 1..m /\ Len(doomed) = m
      /\ \A d \in D : d \in 1..n
      /\ Cardinality(D) = m /\ m <= n /\ n \in Nat
      /\ \A h \in H : NativeId(h) \in D <=> h \in X
  BY RemovedAgree
<1>2. /\ AgreeMaps(nat, hs, free, n, H)
      /\ \A h \in H : nat[h] = NativeId(h) /\ NativeId(h) \in 1..n
      /\ \A i \in 1..n : hs[i] = VarHandle(i)
  BY AgreeStarting
<1>3. /\ remap_ids' = TRUE /\ nat2 = CompactedNativeIds(n, D) /\ hs2 = CompactedHandleIds(n, D)
      /\ free2 = free \o doomed
  BY DEF RemoveHandles
<1>4. kept \in Nat /\ \A i \in 1..n : i \notin D => NewId(i, D) \in 1..kept
  <2>1. n \in Nat /\ kept \in Nat /\ kept = n - Cardinality(D)
    BY <1>1
  <2> HIDE DEF kept
  <2>2. ASSUME NEW i \in 1..n, i \notin D PROVE NewId(i, D) \in 1..(n - Cardinality(D))
    BY <1>1, <2>2, NewIdRange
  <2> QED BY <2>1, <2>2
<1>5. /\ \A k \in 1..kept : OldId(k, n, D) \in 1..n /\ OldId(k, n, D) \notin D
                            /\ NewId(OldId(k, n, D), D) = k
      /\ \A i \in 1..n : i \notin D => OldId(NewId(i, D), n, D) = i
  BY <1>1, OldIdInverse
<1>6. /\ doomed \in [1..m -> H] /\ \A k \in 1..m : doomed[k] \in X /\ doomed[k] \in H
      /\ \A j, k \in 1..m : doomed[j] = doomed[k] => j = k
      /\ \A h \in X : \E k \in 1..m : doomed[k] = h
  BY <1>1 DEF Doomed
<1> HIDE DEF nat, hs, nat2, hs2, free2
<1>7. /\ nat \in Seq(Ids) /\ hs \in Seq(Ids) /\ free \in Seq(Ids) /\ n <= Len(hs)
      /\ Len(nat) \in Nat /\ DOMAIN nat = 1..Len(nat) /\ Len(hs) \in Nat /\ DOMAIN hs = 1..Len(hs)
      /\ Len(free) \in Nat /\ DOMAIN free = 1..Len(free)
      /\ \A h \in H : h \in DOMAIN nat /\ nat[h] \in 1..n /\ hs[nat[h]] = h
      /\ \A i \in 1..n : /\ hs[i] \in DOMAIN nat
                         /\ hs[i] \in H => nat[hs[i]] = i
                         /\ \A k \in DOMAIN free : free[k] # hs[i]
      /\ \A k \in DOMAIN free : free[k] \in DOMAIN nat /\ free[k] \notin H
      /\ \A j, k \in DOMAIN free : free[j] = free[k] => j = k
  BY <1>2, LenProperties DEF AgreeMaps
<1>8. /\ nat2 = [h \in DOMAIN nat |->
                    IF ColumnsOf(h, n, D) = {} THEN nat[h]
                    ELSE NewId(CHOOSE i \in ColumnsOf(h, n, D) :
                                  \A j \in ColumnsOf(h, n, D) : j <= i, D)]
      /\ \A h \in DOMAIN nat : ColumnsOf(h, n, D) = {i \in (1..n) \ D : hs[i] = h}
  BY <1>3 DEF CompactedNativeIds, ColumnsOf, nat, hs
<1>9. ASSUME NEW h \in DOMAIN nat
      PROVE  nat2[h] \in Ids /\ (h \in H \ X => nat2[h] = NewId(NativeId(h), D))
  <2> DEFINE S == ColumnsOf(h, n, D)
             last == CHOOSE i \in S : \A j \in S : j <= i
  <2>1. S = {i \in (1..n) \ D : hs[i] = h} /\ nat2[h] = IF S = {} THEN nat[h] ELSE NewId(last, D)
    BY <1>8
  <2>2. S # {} => last \in S
    <3>1. S \subseteq 1..n
      BY <2>1
    <3> HIDE DEF S
    <3> QED BY <1>1, <3>1, GreatestPosition
  <2> HIDE DEF last, S
  <2>3. nat2[h] \in Ids
    <3>1. nat[h] \in Ids
      BY <1>7, ElementOfSeq
    <3>2. S # {} => NewId(last, D) \in Ids
      BY <1>4, <2>1, <2>2 DEF Ids
    <3> QED BY <2>1, <3>1, <3>2
  <2>4. ASSUME h \in H \ X PROVE nat2[h] = NewId(NativeId(h), D)
    <3>1. NativeId(h) \in (1..n) \ D /\ hs[NativeId(h)] = h
      BY <1>1, <1>2, <1>7, <2>4
    <3>2. \A i \in S : i = NativeId(h)
      BY <1>2, <1>7, <2>1, <2>4
    <3>3. NativeId(h) \in S
      BY <2>1, <3>1
    <3>4. last = NativeId(h)
      BY <2>2, <3>2, <3>3
    <3> QED BY <2>1, <3>3, <3>4
  <2> QED BY <2>3, <2>4
<1>10. nat2 \in Seq(Ids) /\ DOMAIN nat2 = DOMAIN nat
  <2>1. DOMAIN nat2 = 1..Len(nat) /\ nat2 = [h \in 1..Len(nat) |-> nat2[h]]
    BY <1>7, <1>8
  <2>2. nat2 \in [1..Len(nat) -> Ids]
    BY <1>7, <1>9, <2>1
  <2> QED BY <1>7, <2>1, <2>2, SeqIntro
<1> HIDE DEF kept
<1>11. /\ hs2 \in Seq(Ids) /\ Len(hs2) = Len(hs) - m /\ kept <= Len(hs2)
       /\ \A k \in 1..kept : hs2[k] = hs[OldId(k, n, D)]
  <2>1. Len(hs) - m \in Nat /\ kept <= Len(hs) - m
    BY <1>1, <1>7 DEF kept
  <2>2. hs2 = [k \in 1..(Len(hs) - m) |-> hs[IF k <= kept THEN OldId(k, n, D) ELSE k]]
    BY <1>1, <1>3 DEF CompactedHandleIds, hs, kept
  <2>3. ASSUME NEW k \in 1..(Len(hs) - m)
        PROVE  /\ hs[IF k <= kept THEN OldId(k, n, D) ELSE k] \in Ids
               /\ k <= kept => hs2[k] = hs[OldId(k, n, D)]
    <3>1. CASE k <= kept
      <4>1. k \in 1..kept
        BY <1>4, <2>1, <3>1
      <4>2. OldId(k, n, D) \in 1..Len(hs)
        <5>1. OldId(k, n, D) \in 1..n
          BY <1>5, <4>1
        <5>2. n \in Nat /\ n <= Len(hs) /\ Len(hs) \in Nat
          BY <1>1, <1>7
        <5> QED BY <5>1, <5>2
      <4>3. hs[OldId(k, n, D)] \in Ids
        BY <1>7, <4>2, ElementOfSeq
      <4>4. hs2[k] = hs[OldId(k, n, D)]
        BY <2>2, <3>1
      <4> QED BY <3>1, <4>3, <4>4
    <3>2. CASE ~(k <= kept)
      <4>1. k \in 1..Len(hs)
        BY <1>1, <1>7
      <4> QED BY <1>7, <3>2, <4>1, ElementOfSeq
    <3> QED BY <3>1, <3>2
  <2>4. hs2 \in [1..(Len(hs) - m) -> Ids]
    BY <2>2, <2>3
  <2>5. hs2 \in Seq(Ids) /\ Len(hs2) = Len(hs) - m
    BY <2>1, <2>4, SeqIntro
  <2>6. \A k \in 1..kept : k \in 1..(Len(hs) - m) /\ k <= kept
    BY <1>4, <2>1
  <2> QED BY <2>1, <2>3, <2>5, <2>6
<1>12. /\ free2 \in Seq(Ids) /\ DOMAIN free2 = 1..(Len(free) + m)
       /\ \A k \in 1..Len(free) : free2[k] = free[k]
       /\ \A k \in 1..(Len(free) + m) : k \in 1..Len(free) \/ k - Len(free) \in 1..m
       /\ \A k \in 1..(Len(free) + m) :
             k - Len(free) \in 1..m => free2[k] = doomed[k - Len(free)]
  <2>1. doomed \in Seq(Ids)
    <3>1. \A k \in 1..m : doomed[k] \in Ids
      BY <1>6, <1>7 DEF Ids
    <3>2. doomed \in [1..m -> Ids]
      BY <1>6, <3>1
    <3> QED BY <1>1, <3>2, SeqIntro
  <2>2. /\ free2 \in Seq(Ids) /\ Len(free2) = Len(free) + m
        /\ \A k \in 1..(Len(free) + m) :
              free2[k] = IF k <= Len(free) THEN free[k] ELSE doomed[k - Len(free)]
    <3>1. /\ free_var_handles \in Seq(Ids) /\ doomed \in Seq(Ids) /\ Len(doomed) = m
          /\ free2 = free_var_handles \o doomed
      BY <1>1, <1>3, <1>7, <2>1
    <3> QED BY <3>1, ConcatProperties
  <2>3. DOMAIN free2 = 1..(Len(free) + m)
    BY <2>2, LenProperties
  <2> QED BY <1>1, <1>7, <2>2, <2>3
<1>13. ASSUME NEW h \in H \ X
       PROVE  h \in DOMAIN nat2 /\ nat2[h] \in 1..kept /\ hs2[nat2[h]] = h
  <2>1. NativeId(h) \in 1..n /\ NativeId(h) \notin D /\ hs[NativeId(h)] = h /\ h \in DOMAIN nat
    BY <1>1, <1>2, <1>7
  <2>2. nat2[h] = NewId(NativeId(h), D) /\ NewId(NativeId(h), D) \in 1..kept
    BY <1>4, <1>9, <2>1
  <2>3. hs2[nat2[h]] = hs[NativeId(h)]
    BY <1>5, <1>11, <2>1, <2>2
  <2> QED BY <1>10, <2>1, <2>2, <2>3
<1>14. ASSUME NEW k \in 1..kept
       PROVE  /\ hs2[k] \in DOMAIN nat2
              /\ hs2[k] \in H \ X => nat2[hs2[k]] = k
              /\ \A j \in DOMAIN free2 : free2[j] # hs2[k]
  <2> DEFINE i == OldId(k, n, D)
  <2>1. i \in 1..n /\ i \notin D /\ NewId(i, D) = k /\ hs2[k] = hs[i]
    BY <1>5, <1>11
  <2> HIDE DEF i
  <2>2. hs[i] \in H => NativeId(hs[i]) = i
    BY <1>2, <1>7, <2>1
  <2>3. hs[i] \in DOMAIN nat /\ hs[i] \notin X
    BY <1>1, <1>6, <1>7, <2>1, <2>2
  <2>4. \A j \in 1..Len(free) : free2[j] # hs[i]
    BY <1>7, <1>12, <2>1
  <2>5. \A j \in DOMAIN free2 : j - Len(free) \in 1..m => free2[j] # hs[i]
    BY <1>6, <1>12, <2>3
  <2> QED BY <1>9, <1>10, <1>12, <2>1, <2>2, <2>3, <2>4, <2>5
<1>15. \A k \in DOMAIN free2 : free2[k] \in DOMAIN nat2 /\ free2[k] \notin H \ X
  BY <1>6, <1>7, <1>10, <1>12
<1>16. ASSUME NEW j \in DOMAIN free2, NEW k \in DOMAIN free2, free2[j] = free2[k] PROVE j = k
  <2>1. CASE j \in 1..Len(free) /\ k \in 1..Len(free)
    BY <1>7, <1>12, <1>16, <2>1
  <2>2. CASE j - Len(free) \in 1..m /\ k - Len(free) \in 1..m
    <3>1. doomed[j - Len(free)] = doomed[k - Len(free)]
      BY <1>12, <1>16, <2>2
    <3>2. j - Len(free) = k - Len(free)
      BY <1>6, <2>2, <3>1
    <3> QED BY <1>7, <1>12, <3>2
  <2>3. CASE \/ j \in 1..Len(free) /\ k - Len(free) \in 1..m
             \/ k \in 1..Len(free) /\ j - Len(free) \in 1..m
    BY <1>6, <1>7, <1>12, <1>16, <2>3
  <2> QED BY <1>12, <2>1, <2>2, <2>3
<1>17. AgreeMaps(nat2, hs2, free2, kept, H \ X)
  BY <1>4, <1>10, <1>11, <1>12, <1>13, <1>14, <1>15, <1>16 DEF AgreeMaps, kept
<1>18. Agree(remap_ids', native_ids_map', handle_ids_map', free_var_handles', n - m, H \ X)
  BY <1>3, <1>17 DEF Agree, nat2, hs2, free2, kept
<1>19. \A h \in H \ X : NativeId(h)' = NewId(NativeId(h), D)
  BY <1>3, <1>7, <1>9 DEF NativeId, nat2
<1>20. ASSUME NEW i \in 1..n, i \notin D PROVE VarHandle(NewId(i, D))' = VarHandle(i)
  <2>1. NewId(i, D) \in 1..kept /\ hs2[NewId(i, D)] = hs[i]
    BY <1>4, <1>5, <1>11, <1>20 DEF kept
  <2> QED BY <1>2, <1>3, <2>1 DEF VarHandle, hs2
<1> QED BY <1>18, <1>19, <1>20

\* Deleting the last columns of a model that does not remap changes no number.
TailRemoved(n, m, D) == ~(remap_ids \/ \E d \in D : d <= n - m) /\ UNCHANGED remapping

LEMMA TailRemovalAgree ==
    ASSUME NEW n, NEW H,
           Agree(remap_ids, native_ids_map, handle_ids_map, free_var_handles, n, H),
           NEW m, NEW doomed, Doomed(doomed, m, H),
           NEW D, D = {NativeId(doomed[k]) : k \in DOMAIN doomed},
           TailRemoved(n, m, D), NEW X, X = {doomed[k] : k \in DOMAIN doomed}
    PROVE  /\ Agree(remap_ids', native_ids_map', handle_ids_map', free_var_handles',
                    n - m, H \ X)
           /\ \A h \in H \ X : NativeId(h)' = NewId(NativeId(h), D)
           /\ \A i \in 1..n : i \notin D => VarHandle(NewId(i, D))' = VarHandle(i)
<1> DEFINE kept == n - m
<1>1. /\ m \in Nat /\ \A d \in D : d \in 1..n
      /\ Cardinality(D) = m /\ m <= n /\ n \in Nat
      /\ \A h \in H : NativeId(h) \in D <=> h \in X
  <2>1. /\ m \in Nat /\ \A d \in D : d \in 1..n
        /\ Cardinality(D) = m /\ m <= n /\ n \in Nat
        /\ \A h \in H : NativeId(h) \in D <=> h \in {doomed[k] : k \in DOMAIN doomed}
    BY RemovedAgree
  <2> QED BY <2>1
<1>2. kept \in Nat /\ kept <= n /\ n - (kept + 1) + 1 = m /\ \A d \in D : ~(d <= kept)
  BY <1>1 DEF TailRemoved
<1>3. /\ \A h \in H : h \in 1..n /\ NativeId(h) = h /\ NativeId(h)' = h
      /\ \A i : VarHandle(i) = i /\ VarHandle(i)' = i
      /\ native_ids_map' = <<>> /\ handle_ids_map' = <<>> /\ free_var_handles' = <<>>
      /\ remap_ids' = FALSE
  BY DEF TailRemoved, Agree, NativeId, VarHandle, remapping
<1> HIDE DEF kept
<1>4. D = (kept + 1)..n
  <2>1. D \in SUBSET ((kept + 1)..n)
    BY <1>1, <1>2
  <2>2. IsFiniteSet((kept + 1)..n) /\ Cardinality((kept + 1)..n) = m
    <3>1. /\ kept + 1 \in Int /\ n \in Int
          /\ m = IF kept + 1 > n THEN 0 ELSE n - (kept + 1) + 1
      BY <1>1, <1>2
    <3> QED BY <3>1, FS_Interval
  <2> QED BY <1>1, <2>1, <2>2, FS_Subset
<1>5. \A i \in 1..n : i \notin D => i \in 1..kept /\ NewId(i, D) = i
  <2> SUFFICES ASSUME NEW i \in 1..n, i \notin D PROVE i \in 1..kept /\ NewId(i, D) = i
    OBVIOUS
  <2>1. i \in 1..kept
    <3>1. i \notin (kept + 1)..n /\ n \in Nat /\ kept \in Nat
      BY <1>1, <1>2, <1>4
    <3> QED BY <3>1
  <2>2. Below(i, D) = {}
    BY <1>2, <1>4, <2>1 DEF Below
  <2> QED BY <2>1, <2>2, FS_EmptySet DEF NewId
<1>6. \A h \in H \ X : h \in 1..kept /\ NewId(NativeId(h), D) = h
  BY <1>1, <1>3, <1>5
<1>7. Agree(remap_ids', native_ids_map', handle_ids_map', free_var_handles', kept, H \ X)
  BY <1>2, <1>3, <1>6 DEF Agree
<1> QED BY <1>3, <1>5, <1>6, <1>7 DEF kept
=============================================================================
