------------------------- MODULE HighsModel_proofs -------------------------
(***************************************************************************)
(* The maps of the HiGHS model stay each other's inverse in every          *)
(* reachable state, and the model keeps the promise of LinearModel, for    *)
(* all values of the constants.                                            *)
(*                                                                         *)
(* No part of the invariant is inductive alone.  That a removal keeps the  *)
(* maps inverse needs their bounds; that add_variable gives out a handle   *)
(* the client does not hold needs the free list to be exactly the handles  *)
(* that are not held; and that the list stays so after a removal needs the *)
(* maps to be inverse.                                                     *)
(***************************************************************************)
EXTENDS HighsModel, RemappingModel_proofs

\* The inductive invariant.
IInv == TypeOK /\ LookupsInBounds /\ MapsInverse /\ NoHandleLost

\* The empty model: nothing is remapped, nothing is held.
LEMMA InitIInv == Init => IInv
<1> SUFFICES ASSUME Init PROVE IInv
  OBVIOUS
<1> USE DEF Init, InitRemapping
<1>1. TypeOK
  <2>1. remap_ids \in BOOLEAN /\ held \subseteq 1..MaxHandles
    OBVIOUS
  <2>2. \A S : <<>> \in Seq(S)
    BY EmptySeq
  <2> QED BY <2>1, <2>2 DEF TypeOK
<1>2. LookupsInBounds
  BY BoundsAssumption DEF LookupsInBounds
<1>3. MapsInverse
  BY DEF MapsInverse
<1>4. NoHandleLost
  BY DEF NoHandleLost
<1> QED BY <1>1, <1>2, <1>3, <1>4 DEF IInv

\* add_variable and add_column: the handle given out was not held, by the free list
\* or by being fresh, and no held handle moves.
LEMMA AddOneIInv ==
    ASSUME IInv, NEW p, NEW coefs, Column(p, coefs) \in ColumnType,
           NEW h, AddOne(p, coefs, h)
    PROVE  /\ IInv'
           /\ h \in (1..MaxHandles) \ held
           /\ NativeId(h)' = Len(cols) + 1
           /\ \A g \in held : NativeId(g)' = NativeId(g)
<1> DEFINE n == Len(cols)
<1> USE DEF IInv
<1>0. /\ h = NewHandleId(n + 1)
      /\ n \in Nat /\ n + 1 <= MaxColumns /\ h <= MaxHandles
      /\ cols \in Seq(ColumnType) /\ cols' = Append(cols, Column(p, coefs))
      /\ held' = held \cup {h} /\ rows' = rows
      /\ NewVarHandle(n + 1, ExtendedHandleIdsMap(1))
  BY DEF AddOne, TypeOK
<1>1. /\ cols' \in Seq(ColumnType') /\ Len(cols') = n + 1 /\ DOMAIN cols' = 1..(n + 1)
      /\ DOMAIN cols = 1..n
  <2>1. ColumnType' = ColumnType
    BY <1>0 DEF ColumnType
  <2> QED BY <1>0, <2>1
<1>2. CASE ~remap_ids
  <2>1. h = n + 1 /\ UNCHANGED remapping /\ held = 1..n
    BY <1>0, <1>1, <1>2 DEF NewHandleId, NewVarHandle, MapsInverse, NativeId, VarHandle
  <2>2. TypeOK'
    BY <1>0, <1>1, <2>1 DEF TypeOK, remapping, RowType
  <2>3. LookupsInBounds'
    BY <1>0, <1>1, <1>2, <2>1 DEF LookupsInBounds, remapping
  <2>4. MapsInverse'
    BY <1>0, <1>1, <1>2, <2>1 DEF MapsInverse, NativeId, VarHandle, remapping
  <2>5. NoHandleLost'
    BY <1>2, <2>1 DEF NoHandleLost, remapping
  <2>6. /\ h \in (1..MaxHandles) \ held /\ NativeId(h)' = n + 1
        /\ \A g \in held : NativeId(g)' = NativeId(g)
    BY <1>0, <1>2, <2>1, BoundsAssumption DEF NativeId, remapping
  <2> QED BY <2>2, <2>3, <2>4, <2>5, <2>6
<1>3. CASE remap_ids
  <2> DEFINE ext == handle_ids_map \o [k \in 1..1 |-> 1]
  <2>1. /\ ext \in Seq(1..MaxHandles) /\ Len(ext) = Len(handle_ids_map) + 1
        /\ n + 1 \in 1..Len(ext)
        /\ \A i \in 1..n : ext[i] = handle_ids_map[i]
    <3>1. [k \in 1..1 |-> 1] \in Seq(1..MaxHandles) /\ Len([k \in 1..1 |-> 1]) = 1
      BY SeqIntro, BoundsAssumption
    <3>2. Len(handle_ids_map) >= n /\ handle_ids_map \in Seq(1..MaxHandles)
      BY <1>1, <1>3, <1>0 DEF TypeOK, LookupsInBounds
    <3> HIDE DEF ext
    <3>3. ext \in Seq(1..MaxHandles) /\ Len(ext) = Len(handle_ids_map) + 1
      BY <3>1, <3>2, ConcatProperties DEF ext
    <3>4. \A i \in 1..n : ext[i] = handle_ids_map[i]
      BY <3>1, <3>2, ConcatProperties DEF ext
    <3> QED BY <3>2, <3>3, <3>4, <1>0
  <2>2. ExtendedHandleIdsMap(1) = ext
    BY <1>3 DEF ExtendedHandleIdsMap
  <2> HIDE DEF ext
  <2>3. handle_ids_map' = [ext EXCEPT ![n + 1] = h] /\ remap_ids' = remap_ids
    BY <1>0, <1>3, <2>2 DEF NewVarHandle
  <2>4. /\ h \in 1..MaxHandles /\ h \notin held
        /\ native_ids_map' \in Seq(1..MaxColumns) /\ Len(native_ids_map') <= MaxHandles
        /\ DOMAIN native_ids_map' = DOMAIN native_ids_map \cup {h}
        /\ native_ids_map'[h] = n + 1
        /\ \A g \in DOMAIN native_ids_map : g # h => native_ids_map'[g] = native_ids_map[g]
        /\ free_var_handles' \in Seq(1..MaxHandles)
        /\ NoHandleLost'
    <3>0. /\ native_ids_map \in Seq(1..MaxColumns) /\ free_var_handles \in Seq(1..MaxHandles)
          /\ held \subseteq DOMAIN native_ids_map /\ Len(native_ids_map) <= MaxHandles
          /\ n + 1 \in 1..MaxColumns
      BY <1>0, <1>3 DEF TypeOK, LookupsInBounds
    <3>1. CASE free_var_handles = <<>>
      <4>1. /\ h = Len(native_ids_map) + 1
            /\ native_ids_map' = Append(native_ids_map, n + 1)
            /\ free_var_handles' = free_var_handles
        BY <1>0, <1>3, <3>1 DEF NewVarHandle, NewHandleId
      <4>2. h \notin held /\ h \in 1..MaxHandles
        BY <1>0, <3>0, <4>1
      <4>3. /\ native_ids_map' \in Seq(1..MaxColumns) /\ Len(native_ids_map') = h
            /\ native_ids_map'[h] = n + 1
            /\ \A g \in DOMAIN native_ids_map : native_ids_map'[g] = native_ids_map[g]
        BY <3>0, <4>1, AppendProperties
      <4>4. DOMAIN native_ids_map' = DOMAIN native_ids_map \cup {h}
        BY <3>0, <4>1, <4>3
      <4>5. NoHandleLost'
        BY <1>0, <1>3, <3>1, <4>1, <4>4, <4>2 DEF NoHandleLost
      <4> QED BY <1>0, <3>0, <4>1, <4>2, <4>3, <4>4, <4>5
    <3>2. CASE free_var_handles # <<>>
      <4> DEFINE m == Len(free_var_handles)
      <4>1. /\ h = free_var_handles[m]
            /\ native_ids_map' = [native_ids_map EXCEPT ![h] = n + 1]
            /\ free_var_handles' = SubSeq(free_var_handles, 1, m - 1)
        BY <1>0, <1>3, <3>2 DEF NewVarHandle, NewHandleId
      <4>2. m \in Nat /\ m >= 1 /\ \A k \in 1..m : free_var_handles[k] \in 1..MaxHandles
        <5>1. free_var_handles \in [1..m -> 1..MaxHandles] /\ m \in Nat
          BY <3>0, LenProperties
        <5>2. m # 0
          BY <3>0, <3>2
        <5> HIDE DEF m
        <5> QED BY <5>1, <5>2
      <4>3. h \in DOMAIN native_ids_map \ held /\ h \in 1..MaxHandles
        <5>1. m \in DOMAIN free_var_handles
          BY <3>0, <4>2
        <5>2. h \in {free_var_handles[k] : k \in DOMAIN free_var_handles}
          BY <4>1, <5>1
        <5>3. h \in 1..MaxHandles
          BY <4>1, <4>2
        <5> QED BY <1>3, <5>2, <5>3 DEF NoHandleLost
      <4>4. /\ native_ids_map' \in Seq(1..MaxColumns)
            /\ Len(native_ids_map') = Len(native_ids_map)
            /\ DOMAIN native_ids_map' = DOMAIN native_ids_map
            /\ native_ids_map'[h] = n + 1
            /\ \A g \in DOMAIN native_ids_map : g # h => native_ids_map'[g] = native_ids_map[g]
        BY <3>0, <4>1, <4>3, ExceptSeq
      <4>5. /\ free_var_handles' \in Seq(1..MaxHandles) /\ Len(free_var_handles') = m - 1
            /\ DOMAIN free_var_handles' = 1..(m - 1)
            /\ \A k \in 1..(m - 1) : free_var_handles'[k] = free_var_handles[k]
        <5>2. /\ SubSeq(free_var_handles, 1, m - 1) \in Seq(1..MaxHandles)
              /\ Len(SubSeq(free_var_handles, 1, m - 1)) = m - 1
              /\ \A k \in 1..(m - 1) :
                    SubSeq(free_var_handles, 1, m - 1)[k] = free_var_handles[k]
          <6> HIDE DEF m
          <6> QED BY <4>2, SubSeqProperties
        <5> QED BY <4>1, <5>2, LenProperties
      <4>6. NoHandleLost'
        <5>1. \A j, k \in 1..m : free_var_handles[j] = free_var_handles[k] => j = k
          BY <1>3, <3>0 DEF NoHandleLost
        <5>2. \A j, k \in DOMAIN free_var_handles' :
                 free_var_handles'[j] = free_var_handles'[k] => j = k
          BY <4>2, <4>5, <5>1
        <5>3. {free_var_handles[k] : k \in 1..m} = DOMAIN native_ids_map \ held
          BY <1>3, <3>0 DEF NoHandleLost
        <5>4. {free_var_handles'[k] : k \in 1..(m - 1)} = DOMAIN native_ids_map \ (held \cup {h})
          <6>1. ASSUME NEW k \in 1..(m - 1)
                PROVE  free_var_handles'[k] \in DOMAIN native_ids_map \ (held \cup {h})
            BY <4>1, <4>2, <4>5, <5>1, <5>3
          <6>2. ASSUME NEW g \in DOMAIN native_ids_map \ (held \cup {h})
                PROVE  \E k \in 1..(m - 1) : g = free_var_handles'[k]
            <7>1. PICK k \in 1..m : g = free_var_handles[k]
              BY <5>3
            <7>2. k # m
              BY <7>1, <4>1
            <7> QED BY <7>1, <7>2, <4>2, <4>5
          <6> QED BY <6>1, <6>2
        <5> QED BY <1>0, <2>3, <4>4, <4>5, <5>2, <5>4 DEF NoHandleLost
      <4> QED BY <3>0, <4>3, <4>4, <4>5, <4>6
    <3> QED BY <3>1, <3>2
  <2>5. /\ handle_ids_map' \in Seq(1..MaxHandles) /\ Len(handle_ids_map') = Len(ext)
        /\ handle_ids_map'[n + 1] = h
        /\ \A i \in 1..n : handle_ids_map'[i] = handle_ids_map[i]
    BY <1>0, <2>1, <2>3, <2>4, ExceptSeq
  <2>6. TypeOK'
    <3>1. remap_ids' \in BOOLEAN
      BY <2>3 DEF TypeOK
    <3>2. held' \subseteq 1..MaxHandles
      BY <1>0, <2>4 DEF TypeOK
    <3>3. rows' \in Seq(RowType')
      BY <1>0 DEF TypeOK, RowType
    <3> QED BY <1>1, <2>4, <2>5, <3>1, <3>2, <3>3 DEF TypeOK
  <2>7. LookupsInBounds'
    <3>1. Len(cols') <= Len(handle_ids_map')
      BY <1>0, <1>1, <2>1, <2>5
    <3>2. held' \subseteq DOMAIN native_ids_map'
      BY <1>0, <1>3, <2>4 DEF LookupsInBounds
    <3> QED BY <1>0, <1>1, <1>3, <2>3, <2>4, <3>1, <3>2 DEF LookupsInBounds
  <2>8. MapsInverse'
    <3>1. ASSUME NEW g \in held
          PROVE  /\ native_ids_map'[g] = native_ids_map[g] /\ native_ids_map[g] \in 1..n
                 /\ handle_ids_map'[native_ids_map[g]] = g
      BY <1>1, <1>3, <2>4, <2>5 DEF MapsInverse, LookupsInBounds, NativeId, VarHandle
    <3>2. ASSUME NEW i \in 1..n
          PROVE  handle_ids_map'[i] \in held /\ native_ids_map'[handle_ids_map'[i]] = i
      <4>1. handle_ids_map[i] \in held /\ native_ids_map[handle_ids_map[i]] = i
        BY <1>1, <1>3 DEF MapsInverse, NativeId, VarHandle
      <4>2. handle_ids_map'[i] = handle_ids_map[i]
        BY <2>5
      <4>3. native_ids_map'[handle_ids_map[i]] = native_ids_map[handle_ids_map[i]]
        <5>1. handle_ids_map[i] \in DOMAIN native_ids_map
          BY <4>1, <1>3 DEF LookupsInBounds
        <5>2. handle_ids_map[i] # h
          BY <4>1, <2>4
        <5> HIDE DEF IInv
        <5> QED BY <5>1, <5>2, <2>4
      <4> HIDE DEF IInv
      <4> QED BY <4>1, <4>2, <4>3
    <3> QED BY <1>0, <1>1, <1>3, <2>3, <2>4, <2>5, <3>1, <3>2 DEF MapsInverse, NativeId, VarHandle
  <2>9. NativeId(h)' = n + 1 /\ \A g \in held : NativeId(g)' = NativeId(g)
    BY <1>3, <2>3, <2>4 DEF NativeId, LookupsInBounds
  <2> QED BY <2>4, <2>6, <2>7, <2>8, <2>9
<1> QED BY <1>2, <1>3

\* add_variables: a range of fresh handles for the new columns at the end.
LEMMA AddVariablesIInv ==
    ASSUME IInv, NEW p \in Params, NEW count \in Nat \ {0}, AddVariables(count, p),
           NEW first, first = FirstOfHandleRange(Len(cols))
    PROVE  /\ IInv'
           /\ first \in 1..MaxHandles
           /\ \A g \in first..(first + count - 1) :
                 g \notin held /\ NativeId(g)' = Len(cols) + 1 + (g - first)
           /\ \A g \in held : NativeId(g)' = NativeId(g)
<1> DEFINE n == Len(cols)
           added == [k \in 1..count |-> Column(p, Zeros)]
<1> USE DEF IInv
<1>0. /\ n \in Nat /\ n + count <= MaxColumns /\ first + count - 1 <= MaxHandles
      /\ cols \in Seq(ColumnType) /\ cols' = cols \o added
      /\ held' = held \cup first..(first + count - 1) /\ rows' = rows
      /\ NewVarHandleRange(n, count, ExtendedHandleIdsMap(count))
  BY DEF AddVariables, TypeOK
<1>1. /\ cols' \in Seq(ColumnType') /\ Len(cols') = n + count
      /\ DOMAIN cols' = 1..(n + count) /\ DOMAIN cols = 1..n
  <2>1. ColumnType' = ColumnType
    BY <1>0 DEF ColumnType
  <2>2. Column(p, Zeros) \in ColumnType
    BY DataAssumption DEF Column, ColumnType, Zeros
  <2>3. added \in Seq(ColumnType) /\ Len(added) = count
    BY <2>2, SeqIntro
  <2> HIDE DEF added
  <2>4. cols' \in Seq(ColumnType) /\ Len(cols') = n + count
    BY <1>0, <2>3, ConcatProperties
  <2> QED BY <1>0, <2>1, <2>4, LenProperties
<1>2. CASE ~remap_ids
  <2>1. first = n + 1 /\ UNCHANGED remapping /\ held = 1..n
    BY <1>0, <1>1, <1>2 DEF FirstOfHandleRange, NewVarHandleRange, MapsInverse, NativeId, VarHandle
  <2>2. held' = 1..(n + count)
    BY <1>0, <2>1
  <2>3. TypeOK'
    <3>1. remap_ids' \in BOOLEAN
      BY <2>1 DEF TypeOK, remapping
    <3>2. held' \subseteq 1..MaxHandles
      BY <1>0, <2>1, <2>2, BoundsAssumption
    <3>3. /\ native_ids_map' \in Seq(1..MaxColumns) /\ handle_ids_map' \in Seq(1..MaxHandles)
          /\ free_var_handles' \in Seq(1..MaxHandles) /\ rows' \in Seq(RowType')
      BY <1>0, <2>1 DEF TypeOK, remapping, RowType
    <3> QED BY <1>1, <3>1, <3>2, <3>3 DEF TypeOK
  <2>4. LookupsInBounds'
    BY <1>0, <1>1, <1>2, <2>1 DEF LookupsInBounds, remapping
  <2>5. MapsInverse'
    BY <1>0, <1>1, <1>2, <2>1, <2>2 DEF MapsInverse, NativeId, VarHandle, remapping
  <2>6. NoHandleLost'
    BY <1>2, <2>1 DEF NoHandleLost, remapping
  <2>7. /\ first \in 1..MaxHandles
        /\ \A g \in first..(first + count - 1) : g \notin held /\ NativeId(g)' = n + 1 + (g - first)
        /\ \A g \in held : NativeId(g)' = NativeId(g)
    BY <1>0, <1>2, <2>1, BoundsAssumption DEF NativeId, remapping
  <2> QED BY <2>3, <2>4, <2>5, <2>6, <2>7
<1>3. CASE remap_ids
  <2> DEFINE L == Len(native_ids_map)
             ext == handle_ids_map \o [k \in 1..count |-> 1]
             ids == [k \in 1..count |-> n + k]
  <2>1. /\ ext \in Seq(1..MaxHandles) /\ Len(ext) >= n + count
        /\ Len(ext) \in Nat
        /\ \A i \in 1..n : ext[i] = handle_ids_map[i]
        /\ \A i \in 1..Len(ext) : ext[i] \in 1..MaxHandles
    <3>1. /\ [k \in 1..count |-> 1] \in Seq(1..MaxHandles)
          /\ Len([k \in 1..count |-> 1]) = count
      BY SeqIntro, BoundsAssumption
    <3>2. Len(handle_ids_map) >= n /\ handle_ids_map \in Seq(1..MaxHandles)
      BY <1>3 DEF TypeOK, LookupsInBounds
    <3> HIDE DEF ext
    <3>3. ext \in Seq(1..MaxHandles) /\ Len(ext) = Len(handle_ids_map) + count
      BY <3>1, <3>2, ConcatProperties DEF ext
    <3>4. \A i \in 1..n : ext[i] = handle_ids_map[i]
      BY <3>1, <3>2, ConcatProperties DEF ext
    <3>5. ext \in [1..Len(ext) -> 1..MaxHandles] /\ Len(ext) \in Nat
      BY <3>3, LenProperties
    <3> QED BY <1>0, <3>2, <3>3, <3>4, <3>5
  <2>2. ExtendedHandleIdsMap(count) = ext
    BY <1>3 DEF ExtendedHandleIdsMap
  <2> HIDE DEF ext
  <2>3. /\ first = L + 1 /\ native_ids_map' = native_ids_map \o ids
        /\ handle_ids_map' = [i \in 1..Len(ext) |->
              IF i \in (n + 1)..(n + count) THEN first + (i - n - 1) ELSE ext[i]]
        /\ remap_ids' = remap_ids /\ free_var_handles' = free_var_handles
    BY <1>0, <1>3, <2>2 DEF NewVarHandleRange, FirstOfHandleRange
  <2>4. /\ native_ids_map \in Seq(1..MaxColumns) /\ L \in Nat
        /\ DOMAIN native_ids_map = 1..L /\ held \subseteq 1..L
    BY <1>3, LenProperties DEF TypeOK, LookupsInBounds
  <2>5. /\ native_ids_map' \in Seq(1..MaxColumns) /\ Len(native_ids_map') = L + count
        /\ DOMAIN native_ids_map' = 1..(L + count)
        /\ \A h \in 1..L : native_ids_map'[h] = native_ids_map[h]
        /\ \A h \in (L + 1)..(L + count) : native_ids_map'[h] = n + (h - L)
    <3>1. \A k \in 1..count : n + k \in 1..MaxColumns
      BY <1>0, BoundsAssumption
    <3>2. ids \in Seq(1..MaxColumns) /\ Len(ids) = count
      BY <3>1, SeqIntro
    <3>3. \A k \in 1..count : ids[k] = n + k
      OBVIOUS
    <3> HIDE DEF ids
    <3>4. native_ids_map' \in Seq(1..MaxColumns) /\ Len(native_ids_map') = L + count
      BY <2>3, <2>4, <3>2, ConcatProperties
    <3>5. /\ \A h \in 1..L : native_ids_map'[h] = native_ids_map[h]
          /\ \A h \in (L + 1)..(L + count) : native_ids_map'[h] = ids[h - L]
      BY <2>3, <2>4, <3>2, ConcatProperties
    <3> QED BY <2>4, <3>3, <3>4, <3>5, LenProperties
  <2>6. /\ handle_ids_map' \in Seq(1..MaxHandles) /\ Len(handle_ids_map') = Len(ext)
        /\ \A i \in 1..n : handle_ids_map'[i] = handle_ids_map[i]
        /\ \A i \in (n + 1)..(n + count) : handle_ids_map'[i] = L + (i - n)
    <3>0. ASSUME NEW i \in 1..Len(ext)
          PROVE  (IF i \in (n + 1)..(n + count) THEN first + (i - n - 1) ELSE ext[i])
                     \in 1..MaxHandles
      <4>1. CASE i \in (n + 1)..(n + count)
        <5>1. first \in Nat /\ first >= 1
          BY <2>3, <2>4
        <5> HIDE DEF n
        <5> QED BY <4>1, <5>1, <1>0, BoundsAssumption
      <4>2. CASE i \notin (n + 1)..(n + count)
        BY <4>2, <2>1
      <4> QED BY <4>1, <4>2
    <3>1. handle_ids_map' \in [1..Len(ext) -> 1..MaxHandles]
      BY <2>3, <3>0
    <3>2. handle_ids_map' \in Seq(1..MaxHandles) /\ Len(handle_ids_map') = Len(ext)
      BY <2>1, <3>1, SeqIntro
    <3>3. \A i \in 1..n : handle_ids_map'[i] = handle_ids_map[i]
      BY <1>0, <2>1, <2>3
    <3>4. \A i \in (n + 1)..(n + count) : handle_ids_map'[i] = L + (i - n)
      BY <1>0, <2>1, <2>3, <2>4
    <3> QED BY <3>2, <3>3, <3>4
  <2> HIDE DEF L
  <2>7. held' = held \cup (L + 1)..(L + count)
    BY <1>0, <2>3, <2>4
  <2>8. TypeOK'
    <3>1. remap_ids' \in BOOLEAN
      BY <2>3 DEF TypeOK
    <3>2. held' \subseteq 1..MaxHandles
      <4>1. \A g \in (L + 1)..(L + count) : g \in 1..MaxHandles
        BY <1>0, <2>3, <2>4, BoundsAssumption
      <4> QED BY <2>7, <4>1 DEF TypeOK
    <3>3. rows' \in Seq(RowType') /\ free_var_handles' \in Seq(1..MaxHandles)
      BY <1>0, <2>3 DEF TypeOK, RowType
    <3> QED BY <1>1, <2>5, <2>6, <3>1, <3>2, <3>3 DEF TypeOK
  <2>9. LookupsInBounds'
    <3>1. held' \subseteq DOMAIN native_ids_map'
      BY <2>4, <2>5, <2>7
    <3> QED BY <1>0, <1>1, <1>3, <2>1, <2>3, <2>4, <2>5, <2>6, <3>1 DEF LookupsInBounds
  <2>10. MapsInverse'
    <3>1. ASSUME NEW g \in held
          PROVE  /\ native_ids_map'[g] = native_ids_map[g] /\ native_ids_map[g] \in 1..n
                 /\ handle_ids_map'[native_ids_map[g]] = g
      BY <1>1, <1>3, <2>4, <2>5, <2>6 DEF MapsInverse, NativeId, VarHandle
    <3>2. ASSUME NEW g \in (L + 1)..(L + count)
          PROVE  native_ids_map'[g] \in 1..(n + count) /\ handle_ids_map'[native_ids_map'[g]] = g
      <4>1. native_ids_map'[g] = n + (g - L)
        BY <2>5
      <4>2. n + (g - L) \in (n + 1)..(n + count) /\ L + ((n + (g - L)) - n) = g
        BY <1>0, <2>4
      <4>3. handle_ids_map'[n + (g - L)] = g
        BY <2>6, <4>2
      <4> QED BY <1>0, <4>1, <4>2, <4>3
    <3>3. ASSUME NEW i \in 1..n
          PROVE  handle_ids_map'[i] \in held /\ native_ids_map'[handle_ids_map'[i]] = i
      BY <1>1, <1>3, <2>4, <2>5, <2>6 DEF MapsInverse, NativeId, VarHandle
    <3>4. ASSUME NEW i \in (n + 1)..(n + count)
          PROVE  /\ handle_ids_map'[i] \in (L + 1)..(L + count)
                 /\ native_ids_map'[handle_ids_map'[i]] = i
      BY <1>0, <2>4, <2>5, <2>6
    <3>5. \A g \in held' : native_ids_map'[g] \in 1..(n + count)
                           /\ handle_ids_map'[native_ids_map'[g]] = g
      BY <1>0, <2>7, <3>1, <3>2
    <3>6. \A i \in 1..(n + count) : handle_ids_map'[i] \in held'
                                   /\ native_ids_map'[handle_ids_map'[i]] = i
      BY <1>0, <2>7, <3>3, <3>4
    <3> QED BY <1>1, <1>3, <2>3, <3>5, <3>6 DEF MapsInverse, NativeId, VarHandle
  <2>11. NoHandleLost'
    <3>1. DOMAIN native_ids_map' \ held' = DOMAIN native_ids_map \ held
      BY <2>4, <2>5, <2>7
    <3> QED BY <1>3, <2>3, <3>1 DEF NoHandleLost
  <2>12. /\ first \in 1..MaxHandles
         /\ \A g \in first..(first + count - 1) : g \notin held /\ NativeId(g)' = n + 1 + (g - first)
         /\ \A g \in held : NativeId(g)' = NativeId(g)
    <3>1. first \in 1..MaxHandles
      BY <1>0, <2>3, <2>4, BoundsAssumption
    <3>2. ASSUME NEW g \in first..(first + count - 1)
          PROVE  g \notin held /\ NativeId(g)' = n + 1 + (g - first)
      <4>1. g \in (L + 1)..(L + count) /\ n + 1 + (g - first) = n + (g - L)
        BY <1>0, <2>3, <2>4
      <4> QED BY <1>3, <2>3, <2>4, <2>5, <4>1 DEF NativeId
    <3>3. \A g \in held : NativeId(g)' = NativeId(g)
      BY <1>3, <2>3, <2>4, <2>5 DEF NativeId
    <3> QED BY <3>1, <3>2, <3>3
  <2> QED BY <2>8, <2>9, <2>10, <2>11, <2>12
<1> QED BY <1>2, <1>3

\* The columns of the handles of a removal: as many as the handles, and those
\* of no other handle.
LEMMA RemovedColumns ==
    ASSUME IInv, NEW doomed \in Removals,
           NEW D, D = {NativeId(doomed[k]) : k \in DOMAIN doomed}
    PROVE  /\ Len(doomed) \in Nat \ {0} /\ DOMAIN doomed = 1..Len(doomed)
           /\ doomed \in Seq(held) /\ doomed \in Seq(1..MaxHandles)
           /\ \A j, k \in 1..Len(doomed) : doomed[j] = doomed[k] => j = k
           /\ \A d \in D : d \in 1..Len(cols)
           /\ Cardinality(D) = Len(doomed) /\ Len(doomed) <= Len(cols)
           /\ \A h \in held : NativeId(h) \in D <=> h \in {doomed[k] : k \in DOMAIN doomed}
<1> DEFINE m == Len(doomed)
           f == [k \in 1..m |-> NativeId(doomed[k])]
<1> USE DEF IInv
<1>1. Cardinality(held) \in Nat
  <2>1. \A h \in held : h \in 1..MaxHandles
    BY DEF TypeOK
  <2> QED BY <2>1, BoundsAssumption, SubsetOfInterval
<1>2. PICK l \in 1..Cardinality(held) :
          /\ doomed \in [1..l -> held]
          /\ \A j, k \in 1..l : doomed[j] = doomed[k] => j = k
  BY DEF Removals
<1>3. doomed \in Seq(held) /\ m = l /\ m \in Nat \ {0} /\ DOMAIN doomed = 1..m
  BY <1>1, <1>2, SeqIntro
<1>4. \A k \in 1..m : doomed[k] \in held
  BY <1>2, <1>3
<1>5. doomed \in Seq(1..MaxHandles)
  <2>1. doomed \in [1..m -> 1..MaxHandles]
    BY <1>2, <1>3 DEF TypeOK
  <2> HIDE DEF m
  <2> QED BY <1>3, <2>1, SeqIntro
<1> HIDE DEF m
<1>6. DOMAIN cols = 1..Len(cols) /\ Len(cols) \in Nat
  BY LenProperties DEF TypeOK
<1>7. \A h \in held : NativeId(h) \in 1..Len(cols) /\ VarHandle(NativeId(h)) = h
  BY <1>6 DEF MapsInverse
<1>8. \A d \in D : d \in 1..Len(cols)
  BY <1>3, <1>4, <1>7
<1>9. \A h \in held : NativeId(h) \in D <=> h \in {doomed[k] : k \in DOMAIN doomed}
  BY <1>3, <1>4, <1>7
<1>10. Cardinality(D) = m
  <2>1. f \in [1..m -> D]
    BY <1>3
  <2>2. ASSUME NEW j \in 1..m, NEW k \in 1..m, f[j] = f[k] PROVE j = k
    <3>1. NativeId(doomed[j]) = NativeId(doomed[k])
      BY <2>2
    <3>2. doomed[j] = doomed[k]
      BY <1>4, <1>7, <3>1
    <3> QED BY <1>2, <1>3, <3>2
  <2>3. ASSUME NEW d \in D PROVE \E k \in 1..m : f[k] = d
    BY <1>3
  <2>4. DOMAIN f = 1..m
    OBVIOUS
  <2> HIDE DEF f
  <2>5. f \in Bijection(1..m, D)
    BY <2>1, <2>2, <2>3, <2>4 DEF Bijection, Injection, Surjection, IsInjective
  <2> QED BY <1>3, <2>5, FS_CountingElements DEF ExistsBijection
<1>11. m <= Len(cols)
  BY <1>6, <1>8, <1>10, SubsetOfInterval
<1> QED BY <1>2, <1>3, <1>5, <1>8, <1>9, <1>10, <1>11 DEF m

\* The maps that the compaction loop starts from: those of the model, or the
\* identity when it did not remap.
LEMMA StartingMaps ==
    ASSUME IInv, NEW n, n = Len(cols)
    PROVE  /\ n \in Nat /\ n <= MaxColumns
           /\ NativeIds(n) \in Seq(1..MaxColumns) /\ Len(NativeIds(n)) <= MaxHandles
           /\ held \subseteq DOMAIN NativeIds(n)
           /\ HandleIds(n) \in Seq(1..MaxHandles) /\ n <= Len(HandleIds(n))
           /\ \A h \in held : /\ NativeIds(n)[h] = NativeId(h)
                              /\ NativeIds(n)[h] \in 1..n
                              /\ HandleIds(n)[NativeIds(n)[h]] = h
           /\ \A i \in 1..n : HandleIds(n)[i] \in held /\ NativeIds(n)[HandleIds(n)[i]] = i
           /\ {free_var_handles[k] : k \in DOMAIN free_var_handles} = DOMAIN NativeIds(n) \ held
           /\ \A j, k \in DOMAIN free_var_handles :
                 free_var_handles[j] = free_var_handles[k] => j = k
<1> USE DEF IInv
<1>1. n \in Nat /\ n <= MaxColumns /\ DOMAIN cols = 1..n
  BY LenProperties DEF TypeOK, LookupsInBounds
<1>2. CASE remap_ids
  <2>1. NativeIds(n) = native_ids_map /\ HandleIds(n) = handle_ids_map
    BY <1>2 DEF NativeIds, HandleIds
  <2>2. n <= Len(handle_ids_map)
    BY <1>1, <1>2 DEF LookupsInBounds
  <2>3. /\ \A h \in held : /\ native_ids_map[h] = NativeId(h)
                           /\ native_ids_map[h] \in 1..n
                           /\ handle_ids_map[native_ids_map[h]] = h
        /\ \A i \in 1..n : handle_ids_map[i] \in held /\ native_ids_map[handle_ids_map[i]] = i
    BY <1>1, <1>2 DEF MapsInverse, NativeId, VarHandle
  <2> QED BY <1>1, <1>2, <2>1, <2>2, <2>3 DEF TypeOK, LookupsInBounds, NoHandleLost
<1>3. CASE ~remap_ids
  <2> DEFINE id == [i \in 1..n |-> i]
  <2>1. NativeIds(n) = id /\ HandleIds(n) = id
    BY <1>3 DEF NativeIds, HandleIds
  <2>2. held = 1..n /\ \A h \in held : NativeId(h) = h
    BY <1>1, <1>3 DEF MapsInverse, NativeId, VarHandle
  <2>3. n <= MaxHandles
    <3>1. n # 0 => n \in held
      BY <1>1, <2>2
    <3> QED BY <1>1, <3>1, BoundsAssumption DEF TypeOK
  <2>4. \A i \in 1..n : i \in 1..MaxColumns /\ i \in 1..MaxHandles
    BY <1>1, <2>3, BoundsAssumption
  <2>5. id \in Seq(1..MaxColumns) /\ id \in Seq(1..MaxHandles) /\ Len(id) = n /\ DOMAIN id = 1..n
    BY <1>1, <2>4, SeqIntro
  <2>6. \A i \in 1..n : id[i] = i
    OBVIOUS
  <2> HIDE DEF id
  <2>7. free_var_handles = <<>>
    BY <1>3 DEF LookupsInBounds
  <2> QED BY <1>1, <2>1, <2>2, <2>3, <2>5, <2>6, <2>7
<1> QED BY <1>2, <1>3

\* The maps after the compaction loop.  The handles of surviving columns follow
\* them to their new ids; the other entries stay what they were.
LEMMA CompactedMaps ==
    ASSUME IInv, NEW n, n = Len(cols), NEW D, NEW H,
           \A h \in held : NativeId(h) \in D <=> h \in H
    PROVE  /\ DOMAIN CompactedNativeIds(n, D) = DOMAIN NativeIds(n)
           /\ \A h \in held \ H : CompactedNativeIds(n, D)[h] = NewId(NativeId(h), D)
           /\ \A h \in DOMAIN NativeIds(n) :
                 h \notin held \ H => CompactedNativeIds(n, D)[h] = NativeIds(n)[h]
<1>1. /\ n \in Nat /\ held \subseteq DOMAIN NativeIds(n)
      /\ \A h \in held : /\ NativeIds(n)[h] = NativeId(h)
                         /\ NativeIds(n)[h] \in 1..n
                         /\ HandleIds(n)[NativeIds(n)[h]] = h
      /\ \A i \in 1..n : HandleIds(n)[i] \in held /\ NativeIds(n)[HandleIds(n)[i]] = i
  BY StartingMaps
<1>2. \A h \in held : NativeId(h) \in D <=> h \in H
  OBVIOUS
<1>3. ASSUME NEW h \in held \ H PROVE ColumnsOf(h, n, D) = {NativeId(h)}
  <2>1. NativeId(h) \in (1..n) \ D /\ HandleIds(n)[NativeId(h)] = h
    BY <1>1, <1>2
  <2>2. \A i \in (1..n) \ D : HandleIds(n)[i] = h => i = NativeId(h)
    BY <1>1
  <2> QED BY <2>1, <2>2 DEF ColumnsOf
<1>4. ASSUME NEW h \in DOMAIN NativeIds(n), h \notin held \ H PROVE ColumnsOf(h, n, D) = {}
  <2>1. ASSUME NEW i \in (1..n) \ D, HandleIds(n)[i] = h PROVE FALSE
    <3>1. h \in held /\ NativeId(h) = i
      BY <1>1, <2>1
    <3> QED BY <1>2, <1>4, <2>1, <3>1
  <2> QED BY <2>1 DEF ColumnsOf
<1>5. ASSUME NEW h \in held \ H
      PROVE  CompactedNativeIds(n, D)[h] = NewId(NativeId(h), D)
  <2> DEFINE last == CHOOSE i \in ColumnsOf(h, n, D) : \A j \in ColumnsOf(h, n, D) : j <= i
  <2>1. NativeId(h) \in 1..n
    BY <1>1
  <2>2. last = NativeId(h)
    <3>0. NativeId(h) <= NativeId(h)
      BY <1>1, <2>1
    <3>1. \E i \in ColumnsOf(h, n, D) : \A j \in ColumnsOf(h, n, D) : j <= i
      BY <1>3, <3>0
    <3>2. last \in ColumnsOf(h, n, D)
      BY <3>1
    <3> HIDE DEF last
    <3> QED BY <3>2, <1>3
  <2>3. ColumnsOf(h, n, D) # {} /\ h \in DOMAIN NativeIds(n)
    BY <1>1, <1>3
  <2>4. CompactedNativeIds(n, D)[h] = NewId(last, D)
    BY <2>3 DEF CompactedNativeIds
  <2> HIDE DEF last
  <2> QED BY <2>2, <2>4
<1>6. ASSUME NEW h \in DOMAIN NativeIds(n), h \notin held \ H
      PROVE  CompactedNativeIds(n, D)[h] = NativeIds(n)[h]
  BY <1>4, <1>6 DEF CompactedNativeIds
<1>7. DOMAIN CompactedNativeIds(n, D) = DOMAIN NativeIds(n)
  BY DEF CompactedNativeIds
<1> QED BY <1>5, <1>6, <1>7

\* A removal keeps the invariant, and the column of every surviving handle.
LEMMA RemoveVariablesIInv ==
    ASSUME IInv, NEW doomed \in Removals, RemoveVariables(doomed)
    PROVE  /\ IInv'
           /\ \A h \in held' : cols'[NativeId(h)'] = cols[NativeId(h)]
<1> DEFINE n == Len(cols)
           m == Len(doomed)
           D == {NativeId(doomed[k]) : k \in DOMAIN doomed}
           H == {doomed[k] : k \in DOMAIN doomed}
           NI == NativeIds(n)
           HI == HandleIds(n)
<1>0. /\ cols' = Compacted(cols, D) /\ held' = held \ H /\ rows' = rows
      /\ IF remap_ids \/ \E d \in D : d <= n - m
         THEN RemoveHandles(doomed, n, D)
         ELSE UNCHANGED remapping
  BY DEF RemoveVariables
<1>1. /\ m \in Nat \ {0} /\ DOMAIN doomed = 1..m
      /\ doomed \in Seq(held) /\ doomed \in Seq(1..MaxHandles)
      /\ \A j, k \in 1..m : doomed[j] = doomed[k] => j = k
      /\ \A d \in D : d \in 1..n
      /\ Cardinality(D) = m /\ m <= n
      /\ \A h \in held : NativeId(h) \in D <=> h \in H
  BY RemovedColumns
<1> DEFINE kept == n - m
<1>2. /\ n \in Nat /\ n <= MaxColumns
      /\ NI \in Seq(1..MaxColumns) /\ Len(NI) <= MaxHandles
      /\ held \subseteq DOMAIN NI
      /\ HI \in Seq(1..MaxHandles) /\ n <= Len(HI)
      /\ \A h \in held : NI[h] = NativeId(h) /\ NativeId(h) \in 1..n /\ HI[NativeId(h)] = h
      /\ \A i \in 1..n : HI[i] \in held /\ NativeId(HI[i]) = i
      /\ {free_var_handles[k] : k \in DOMAIN free_var_handles} = DOMAIN NI \ held
      /\ \A j, k \in DOMAIN free_var_handles :
            free_var_handles[j] = free_var_handles[k] => j = k
  BY StartingMaps
<1>3. DOMAIN cols = 1..n /\ cols \in Seq(ColumnType) /\ TypeOK /\ LookupsInBounds /\ MapsInverse
  BY LenProperties DEF IInv, TypeOK
<1>a. /\ DOMAIN CompactedNativeIds(n, D) = DOMAIN NI
      /\ \A h \in held \ H : CompactedNativeIds(n, D)[h] = NewId(NativeId(h), D)
      /\ \A h \in DOMAIN NI : h \notin held \ H => CompactedNativeIds(n, D)[h] = NI[h]
  <2>1. (\A h \in held : NativeId(h) \in D <=> h \in H) /\ n = Len(cols)
    BY <1>1
  <2> HIDE DEF D, H, n
  <2>2. DOMAIN CompactedNativeIds(n, D) = DOMAIN NI
    BY DEF CompactedNativeIds
  <2>3. ASSUME NEW h \in held \ H PROVE CompactedNativeIds(n, D)[h] = NewId(NativeId(h), D)
    BY <2>1, CompactedMaps
  <2>4. ASSUME NEW h \in DOMAIN NI, h \notin held \ H PROVE CompactedNativeIds(n, D)[h] = NI[h]
    BY <2>1, <2>4, CompactedMaps
  <2> QED BY <2>2, <2>3, <2>4
<1>b. /\ Compacted(cols, D) \in Seq(ColumnType)
      /\ Len(Compacted(cols, D)) = n - Cardinality(D)
      /\ \A i \in 1..n : i \notin D =>
            NewId(i, D) \in 1..(n - Cardinality(D)) /\ Compacted(cols, D)[NewId(i, D)] = cols[i]
  <2>1. (\A d \in D : d \in 1..Len(cols)) /\ cols \in Seq(ColumnType)
    BY <1>1, <1>3
  <2> HIDE DEF D
  <2> QED BY <2>1, CompactedColumns
<1> HIDE DEF n, m, D, H, NI, HI
<1>4. /\ cols' \in Seq(ColumnType') /\ Len(cols') = kept /\ kept \in Nat /\ kept <= MaxColumns
      /\ DOMAIN cols' = 1..kept
      /\ \A i \in 1..n : i \notin D => NewId(i, D) \in 1..kept /\ cols'[NewId(i, D)] = cols[i]
  <2>1. /\ cols' \in Seq(ColumnType) /\ Len(cols') = kept
        /\ \A i \in 1..n : i \notin D => NewId(i, D) \in 1..kept /\ cols'[NewId(i, D)] = cols[i]
    BY <1>0, <1>1, <1>b
  <2>2. ColumnType' = ColumnType
    BY <1>0 DEF ColumnType
  <2>3. kept \in Nat /\ kept <= MaxColumns
    BY <1>1, <1>2, BoundsAssumption, SMTT(60)
  <2> QED BY <2>1, <2>2, <2>3, LenProperties
<1>5. held' \subseteq 1..MaxHandles /\ rows' \in Seq(RowType')
  <2>1. held' \subseteq 1..MaxHandles
    BY <1>0, <1>3 DEF TypeOK
  <2>2. rows' = rows
    BY <1>0
  <2> QED BY <1>3, <2>1, <2>2 DEF TypeOK, RowType
<1>6. CASE ~remap_ids /\ \A d \in D : ~(d <= kept)
  <2>1. UNCHANGED remapping
    BY <1>0, <1>6
  <2>2. held = 1..n /\ \A h \in held : NativeId(h) = h
    BY <1>2, <1>3, <1>6 DEF MapsInverse, NativeId, VarHandle
  <2>3. D = (kept + 1)..n
    <3>1. D \in SUBSET ((kept + 1)..n)
      BY <1>1, <1>2, <1>4, <1>6
    <3>2. IsFiniteSet((kept + 1)..n) /\ Cardinality((kept + 1)..n) = m
      <4>1. kept + 1 \in Int /\ n \in Int /\ ~(kept + 1 > n) /\ n - (kept + 1) + 1 = m
        BY <1>1, <1>2, <1>4
      <4> HIDE DEF kept
      <4> QED BY <4>1, FS_Interval
    <3> QED BY <1>1, <3>1, <3>2, FS_Subset
  <2>4. held' = 1..kept
    BY <1>0, <1>1, <1>2, <1>4, <2>2, <2>3, SMTT(60)
  <2>5. TypeOK'
    <3>1. /\ remap_ids' \in BOOLEAN /\ native_ids_map' \in Seq(1..MaxColumns)
          /\ handle_ids_map' \in Seq(1..MaxHandles) /\ free_var_handles' \in Seq(1..MaxHandles)
      BY <1>3, <2>1 DEF TypeOK, remapping
    <3> QED BY <1>4, <1>5, <3>1 DEF TypeOK
  <2>6. LookupsInBounds'
    BY <1>1, <1>2, <1>3, <1>4, <1>6, <2>1, BoundsAssumption DEF LookupsInBounds, remapping
  <2>7. MapsInverse' /\ NoHandleLost'
    BY <1>4, <1>6, <2>1, <2>4 DEF MapsInverse, NoHandleLost, NativeId, VarHandle, remapping
  <2>8. ASSUME NEW h \in held' PROVE cols'[NativeId(h)'] = cols[NativeId(h)]
    <3>1. NativeId(h) = h /\ NativeId(h)' = h /\ h \in 1..n /\ h \notin D
      BY <1>1, <1>2, <1>4, <1>6, <2>1, <2>2, <2>3, <2>4 DEF NativeId, remapping
    <3>2. Below(h, D) = {}
      BY <1>2, <1>4, <2>3, <2>4 DEF Below
    <3>3. NewId(h, D) = h
      BY <3>1, <3>2, FS_EmptySet DEF NewId
    <3> QED BY <1>4, <3>1, <3>3
  <2> QED BY <2>5, <2>6, <2>7, <2>8 DEF IInv
<1>7. CASE remap_ids \/ \E d \in D : d <= kept
  <2>1. /\ remap_ids' = TRUE
        /\ native_ids_map' = CompactedNativeIds(n, D)
        /\ handle_ids_map' = CompactedHandleIds(n, D)
        /\ free_var_handles' = free_var_handles \o doomed
    BY <1>0, <1>7 DEF RemoveHandles
  <2>2. /\ DOMAIN native_ids_map' = DOMAIN NI
        /\ \A h \in held \ H : native_ids_map'[h] = NewId(NativeId(h), D)
        /\ \A h \in DOMAIN NI : h \notin held \ H => native_ids_map'[h] = NI[h]
    BY <2>1, <1>a
  <2>3. native_ids_map' \in Seq(1..MaxColumns) /\ Len(native_ids_map') = Len(NI)
    <3>1. DOMAIN NI = 1..Len(NI) /\ Len(NI) \in Nat /\ NI \in [1..Len(NI) -> 1..MaxColumns]
      BY <1>2, LenProperties
    <3>2. ASSUME NEW h \in 1..Len(NI) PROVE native_ids_map'[h] \in 1..MaxColumns
      <4>1. CASE h \in held \ H
        <5>1. NativeId(h) \in 1..n /\ NativeId(h) \notin D
          BY <1>1, <1>2, <4>1
        <5>2. native_ids_map'[h] \in 1..kept
          BY <1>4, <2>2, <4>1, <5>1
        <5> HIDE DEF kept
        <5> QED BY <1>4, <5>2, BoundsAssumption
      <4>2. CASE h \notin held \ H
        BY <2>2, <3>1, <4>2
      <4> QED BY <4>1, <4>2
    <3>3. native_ids_map' = [h \in DOMAIN native_ids_map' |-> native_ids_map'[h]]
      BY <2>1 DEF CompactedNativeIds
    <3>4. native_ids_map' \in [1..Len(NI) -> 1..MaxColumns]
      BY <2>2, <3>1, <3>2, <3>3
    <3> QED BY <3>1, <3>4, SeqIntro
  <2>4. /\ handle_ids_map' \in Seq(1..MaxHandles) /\ Len(handle_ids_map') = Len(HI) - m
        /\ kept <= Len(HI) - m
        /\ \A k \in 1..kept : handle_ids_map'[k] = HI[OldId(k, n, D)]
    <3>1. /\ HI \in [1..Len(HI) -> 1..MaxHandles] /\ Len(HI) \in Nat
          /\ Len(HI) - m \in Nat /\ kept <= Len(HI) - m
      <4>1. HI \in [1..Len(HI) -> 1..MaxHandles] /\ Len(HI) \in Nat
        BY <1>2, LenProperties
      <4> QED BY <1>1, <1>2, <4>1
    <3>2. handle_ids_map' = [k \in 1..(Len(HI) - m) |->
                                HI[IF k <= kept THEN OldId(k, n, D) ELSE k]]
      BY <1>1, <2>1 DEF CompactedHandleIds, HI
    <3>3. \A k \in 1..kept : OldId(k, n, D) \in 1..n
      BY <1>1, <1>2, OldIdInverse
    <3>4. ASSUME NEW k \in 1..(Len(HI) - m)
          PROVE  HI[IF k <= kept THEN OldId(k, n, D) ELSE k] \in 1..MaxHandles
      <4>1. CASE k <= kept
        BY <1>2, <1>4, <3>1, <3>3, <4>1
      <4>2. CASE ~(k <= kept)
        <5>1. k \in 1..Len(HI)
          <6>1. m \in Nat
            BY <1>1
          <6> HIDE DEF m
          <6> QED BY <3>1, <6>1
        <5>2. HI[k] \in 1..MaxHandles
          BY <3>1, <5>1
        <5> QED BY <4>2, <5>2
      <4> QED BY <4>1, <4>2
    <3>5. handle_ids_map' \in [1..(Len(HI) - m) -> 1..MaxHandles]
      BY <3>2, <3>4
    <3>6. \A k \in 1..kept : handle_ids_map'[k] = HI[OldId(k, n, D)]
      BY <1>4, <3>1, <3>2
    <3> QED BY <3>1, <3>5, <3>6, SeqIntro
  <2>5. /\ free_var_handles' \in Seq(1..MaxHandles)
        /\ \A j, k \in DOMAIN free_var_handles' :
              free_var_handles'[j] = free_var_handles'[k] => j = k
        /\ {free_var_handles'[k] : k \in DOMAIN free_var_handles'} = DOMAIN NI \ (held \ H)
    <3> DEFINE l == Len(free_var_handles)
    <3>1. free_var_handles \in Seq(1..MaxHandles) /\ l \in Nat /\ DOMAIN free_var_handles = 1..l
      BY <1>3, LenProperties DEF TypeOK
    <3> HIDE DEF l
    <3>2. /\ free_var_handles' \in Seq(1..MaxHandles) /\ DOMAIN free_var_handles' = 1..(l + m)
          /\ \A k \in 1..l : free_var_handles'[k] = free_var_handles[k]
          /\ \A k \in (l + 1)..(l + m) : free_var_handles'[k] = doomed[k - l]
      <4>1. free_var_handles' \in Seq(1..MaxHandles) /\ Len(free_var_handles') = l + m
        BY <1>1, <2>1, <3>1, ConcatProperties DEF l, m
      <4>2. /\ \A k \in 1..l : free_var_handles'[k] = free_var_handles[k]
            /\ \A k \in (l + 1)..(l + m) : free_var_handles'[k] = doomed[k - l]
        BY <1>1, <2>1, <3>1, ConcatProperties DEF l, m
      <4> QED BY <4>1, <4>2, LenProperties
    <3>3. \A k \in 1..l : free_var_handles'[k] \in DOMAIN NI \ held
      BY <1>2, <3>1, <3>2, SMTT(60)
    <3>4. \A k \in (l + 1)..(l + m) : k - l \in 1..m /\ free_var_handles'[k] \in H /\ H \subseteq held
      <4>1. \A k \in 1..m : doomed[k] \in H /\ doomed[k] \in held
        BY <1>1, LenProperties DEF H
      <4>2. H \subseteq held
        BY <1>1, <4>1 DEF H
      <4>3. \A k \in (l + 1)..(l + m) : k - l \in 1..m
        BY <1>1, <3>1
      <4> QED BY <3>2, <4>1, <4>2, <4>3
    <3>5. ASSUME NEW j \in 1..(l + m), NEW k \in 1..(l + m),
                 free_var_handles'[j] = free_var_handles'[k]
          PROVE  j = k
      <4>1. CASE j \in 1..l /\ k \in 1..l
        BY <1>2, <3>1, <3>2, <3>5, <4>1
      <4>2. CASE j \in (l + 1)..(l + m) /\ k \in (l + 1)..(l + m)
        <5>1. doomed[j - l] = doomed[k - l] /\ j - l \in 1..m /\ k - l \in 1..m
          BY <3>2, <3>4, <3>5, <4>2
        <5>2. j - l = k - l
          BY <1>1, <5>1
        <5> QED BY <3>1, <5>2
      <4>3. CASE \/ j \in 1..l /\ k \in (l + 1)..(l + m)
                 \/ j \in (l + 1)..(l + m) /\ k \in 1..l
        BY <3>3, <3>4, <3>5, <4>3
      <4> QED BY <1>1, <3>1, <4>1, <4>2, <4>3
    <3>6. ASSUME NEW g \in DOMAIN NI \ (held \ H)
          PROVE  \E k \in 1..(l + m) : free_var_handles'[k] = g
      <4>1. CASE g \notin held
        <5>1. PICK k \in 1..l : free_var_handles[k] = g
          BY <1>2, <3>1, <4>1
        <5> QED BY <1>1, <3>1, <3>2, <5>1
      <4>2. CASE g \in H
        <5>1. PICK k \in 1..m : doomed[k] = g
          BY <1>1, <4>2 DEF H
        <5>2. l + k \in (l + 1)..(l + m) /\ (l + k) - l = k /\ l + k \in 1..(l + m)
          BY <1>1, <3>1
        <5> QED BY <3>2, <5>1, <5>2
      <4> QED BY <3>6, <4>1, <4>2
    <3>7. ASSUME NEW k \in 1..(l + m) PROVE free_var_handles'[k] \in DOMAIN NI \ (held \ H)
      <4>1. k \in 1..l \/ k \in (l + 1)..(l + m)
        BY <1>1, <3>1
      <4> QED BY <1>2, <3>3, <3>4, <4>1
    <3> QED BY <3>2, <3>5, <3>6, <3>7
  <2>6. TypeOK'
    BY <1>4, <1>5, <2>1, <2>3, <2>4, <2>5 DEF TypeOK
  <2>7. LookupsInBounds'
    BY <1>0, <1>1, <1>2, <1>4, <2>1, <2>2, <2>3, <2>4, BoundsAssumption DEF LookupsInBounds
  <2>8. ASSUME NEW h \in held'
        PROVE  /\ NativeId(h)' = NewId(NativeId(h), D) /\ NativeId(h)' \in DOMAIN cols'
               /\ VarHandle(NativeId(h))' = h
               /\ cols'[NativeId(h)'] = cols[NativeId(h)]
    <3> DEFINE i == NativeId(h)
    <3>1. h \in held \ H /\ i \in 1..n /\ i \notin D /\ HI[i] = h
      BY <1>0, <1>1, <1>2
    <3>2. NativeId(h)' = NewId(i, D) /\ NewId(i, D) \in 1..kept
      BY <1>4, <2>1, <2>2, <3>1 DEF NativeId
    <3>3. OldId(NewId(i, D), n, D) = i
      BY <1>1, <1>2, <3>1, OldIdInverse
    <3>4. handle_ids_map'[NewId(i, D)] = h
      BY <2>4, <3>1, <3>2, <3>3
    <3> QED BY <1>4, <2>1, <3>1, <3>2, <3>4 DEF VarHandle
  <2>9. ASSUME NEW k \in DOMAIN cols'
        PROVE  VarHandle(k)' \in held' /\ NativeId(VarHandle(k))' = k
    <3> DEFINE i == OldId(k, n, D)
    <3>1. i \in 1..n /\ i \notin D /\ NewId(i, D) = k
      BY <1>1, <1>2, <1>4, OldIdInverse
    <3> HIDE DEF i
    <3>2. HI[i] \in held /\ NativeId(HI[i]) = i /\ HI[i] \notin H
      BY <1>1, <1>2, <3>1
    <3>3. VarHandle(k)' = HI[i]
      BY <1>4, <2>1, <2>4 DEF VarHandle, i
    <3>4. native_ids_map'[HI[i]] = k
      BY <2>2, <3>1, <3>2
    <3> QED BY <1>0, <2>1, <3>2, <3>3, <3>4 DEF NativeId
  <2>10. MapsInverse'
    BY <2>8, <2>9 DEF MapsInverse
  <2>11. NoHandleLost'
    BY <1>0, <2>2, <2>5 DEF NoHandleLost
  <2> QED BY <2>6, <2>7, <2>8, <2>10, <2>11 DEF IInv
<1> QED BY <1>6, <1>7

\* A step that leaves the maps and the number of columns alone keeps the
\* invariant when what it writes has the right type.
LEMMA DataStepIInv ==
    ASSUME IInv, UNCHANGED <<remapping, held>>,
           cols' \in Seq(ColumnType'), Len(cols') = Len(cols), rows' \in Seq(RowType)
    PROVE  IInv'
<1>1. DOMAIN cols' = DOMAIN cols
  <2>1. cols \in Seq(ColumnType)
    BY DEF IInv, TypeOK
  <2> QED BY <2>1, LenProperties
<1>2. RowType' = RowType
  BY DEF RowType
<1>3. TypeOK'
  <2>1. rows' \in Seq(RowType')
    BY <1>2
  <2> QED BY <2>1 DEF IInv, TypeOK, remapping
<1>4. LookupsInBounds'
  BY DEF IInv, LookupsInBounds, remapping
<1>5. MapsInverse'
  BY <1>1 DEF IInv, MapsInverse, NativeId, VarHandle, remapping
<1>6. NoHandleLost'
  BY DEF IInv, NoHandleLost, remapping
<1> QED BY <1>3, <1>4, <1>5, <1>6 DEF IInv

\* A refused column leaves one entry over at the end of the handle map, beyond the
\* columns, where nothing looks it up.
LEMMA AddVariableFailsIInv ==
    ASSUME IInv, AddVariableFails PROVE IInv'
<1>1. CASE ~remap_ids
  <2>1. UNCHANGED <<remapping, held>> /\ cols' = cols /\ rows' = rows
    BY <1>1 DEF AddVariableFails, ExtendedHandleIdsMap, remapping
  <2>2. ColumnType' = ColumnType
    BY <2>1 DEF ColumnType
  <2> QED BY <2>1, <2>2, DataStepIInv DEF IInv, TypeOK
<1>2. CASE remap_ids
  <2> DEFINE more == [k \in 1..1 |-> 1]
             n == Len(cols)
  <2>1. /\ handle_ids_map' = handle_ids_map \o more
        /\ UNCHANGED <<remap_ids, native_ids_map, free_var_handles, cols, rows, held>>
    BY <1>2 DEF AddVariableFails, ExtendedHandleIdsMap
  <2>2. more \in Seq(1..MaxHandles) /\ Len(more) = 1
    BY SeqIntro, BoundsAssumption
  <2> HIDE DEF more
  <2>3. /\ handle_ids_map \in Seq(1..MaxHandles) /\ Len(handle_ids_map) \in Nat
        /\ n \in Nat /\ DOMAIN cols = 1..n /\ n <= Len(handle_ids_map)
    BY <1>2, LenProperties DEF IInv, TypeOK, LookupsInBounds
  <2>4. /\ handle_ids_map' \in Seq(1..MaxHandles) /\ Len(handle_ids_map') = Len(handle_ids_map) + 1
        /\ \A i \in 1..n : handle_ids_map'[i] = handle_ids_map[i]
    <3> HIDE DEF n
    <3>1. handle_ids_map' \in Seq(1..MaxHandles) /\ Len(handle_ids_map') = Len(handle_ids_map) + 1
      BY <2>1, <2>2, <2>3, ConcatProperties
    <3>2. \A i \in 1..n : handle_ids_map'[i] = handle_ids_map[i]
      BY <2>1, <2>2, <2>3, ConcatProperties
    <3> QED BY <3>1, <3>2
  <2> HIDE DEF n
  <2>5. TypeOK'
    <3>1. ColumnType' = ColumnType /\ RowType' = RowType
      BY <2>1 DEF ColumnType, RowType
    <3> QED BY <2>1, <2>4, <3>1 DEF IInv, TypeOK
  <2>6. LookupsInBounds'
    BY <1>2, <2>1, <2>3, <2>4 DEF IInv, LookupsInBounds, n
  <2>7. MapsInverse'
    <3>1. \A h \in held : NativeId(h)' = NativeId(h) /\ NativeId(h) \in 1..n
      BY <2>1, <2>3 DEF IInv, MapsInverse, NativeId
    <3>2. \A i \in 1..n : VarHandle(i)' = VarHandle(i)
      BY <1>2, <2>1, <2>4 DEF VarHandle
    <3>3. \A i \in 1..n : VarHandle(i) \in held /\ NativeId(VarHandle(i)) = i
      BY <2>3 DEF IInv, MapsInverse
    <3>4. \A h \in held : VarHandle(NativeId(h)) = h
      BY DEF IInv, MapsInverse
    <3>5. \A h \in held' : NativeId(h)' \in DOMAIN cols' /\ VarHandle(NativeId(h))' = h
      <4> SUFFICES ASSUME NEW h \in held
                   PROVE  NativeId(h)' \in DOMAIN cols' /\ VarHandle(NativeId(h))' = h
        BY <2>1
      <4>1. VarHandle(NativeId(h))' = handle_ids_map'[NativeId(h)]
        BY <1>2, <2>1 DEF VarHandle, NativeId
      <4>2. handle_ids_map[NativeId(h)] = h
        BY <1>2, <3>4 DEF VarHandle
      <4> QED BY <2>1, <2>3, <2>4, <3>1, <4>1, <4>2
    <3>6. \A i \in DOMAIN cols' : VarHandle(i)' \in held' /\ NativeId(VarHandle(i))' = i
      <4> SUFFICES ASSUME NEW i \in 1..n
                   PROVE  VarHandle(i)' \in held' /\ NativeId(VarHandle(i))' = i
        BY <2>1, <2>3
      <4>1. VarHandle(i)' = handle_ids_map[i] /\ handle_ids_map[i] = VarHandle(i)
        BY <1>2, <2>1, <2>4 DEF VarHandle
      <4>2. NativeId(VarHandle(i))' = native_ids_map[handle_ids_map[i]]
        BY <1>2, <2>1, <2>4 DEF VarHandle, NativeId
      <4> QED BY <1>2, <2>1, <3>3, <4>1, <4>2 DEF NativeId
    <3> QED BY <3>5, <3>6 DEF MapsInverse
  <2>8. NoHandleLost'
    BY <2>1 DEF IInv, NoHandleLost
  <2> QED BY <2>5, <2>6, <2>7, <2>8 DEF IInv
<1> QED BY <1>1, <1>2

\* Sense and right-hand side survive the translation to row bounds and back.
LEMMA RowRoundTrip ==
    ASSUME NEW s \in Senses, NEW b \in Rhs
    PROVE  /\ BoundsToSense(RowOf(s, b)) = s /\ BoundsToRhs(RowOf(s, b)) = b
           /\ RowOf(s, b) \in RowType
<1>1. /\ b \in Int /\ Infinity \in Int /\ -Infinity # b /\ b # Infinity /\ -Infinity # Infinity
  BY DataAssumption, InfinityAssumption
<1>2. RowOf(s, b) \in RowType
  BY DEF RowType
<1>3. s = "less_equal" \/ s = "equal" \/ s = "greater_equal"
  BY DEF Senses
<1>4. CASE s = "less_equal"
  BY <1>1, <1>2, <1>4 DEF RowOf, BoundsToSense, BoundsToRhs
<1>5. CASE s = "equal"
  BY <1>1, <1>2, <1>5 DEF RowOf, BoundsToSense, BoundsToRhs
<1>6. CASE s = "greater_equal"
  BY <1>1, <1>2, <1>6 DEF RowOf, BoundsToSense, BoundsToRhs
<1> QED BY <1>3, <1>4, <1>5, <1>6

\* Writing one attribute of a column gives a column.
LEMMA ColumnUpdate ==
    ASSUME NEW c \in ColumnType
    PROVE  /\ \A x \in Coefs : [c EXCEPT !.obj = x] \in ColumnType
           /\ \A x \in Bounds : [c EXCEPT !.lb = x] \in ColumnType
           /\ \A x \in Bounds : [c EXCEPT !.ub = x] \in ColumnType
BY DEF ColumnType

\* The steps that write one column, found through a handle the client holds.
LEMMA SetterIInv ==
    ASSUME IInv, NEW h \in held, NEW x,
           \/ x \in Coefs /\ SetObjectiveCoefficient(h, x)
           \/ x \in Bounds /\ SetVariableLowerBound(h, x)
           \/ x \in Bounds /\ SetVariableUpperBound(h, x)
    PROVE  /\ IInv' /\ UNCHANGED <<remapping, held, rows>>
           /\ \A i \in DOMAIN cols : i # NativeId(h) => cols'[i] = cols[i]
           /\ SetObjectiveCoefficient(h, x)
                 => cols'[NativeId(h)] = [cols[NativeId(h)] EXCEPT !.obj = x]
           /\ SetVariableLowerBound(h, x)
                 => cols'[NativeId(h)] = [cols[NativeId(h)] EXCEPT !.lb = x]
           /\ SetVariableUpperBound(h, x)
                 => cols'[NativeId(h)] = [cols[NativeId(h)] EXCEPT !.ub = x]
<1> DEFINE i == NativeId(h)
<1>1. i \in DOMAIN cols /\ cols \in Seq(ColumnType) /\ DOMAIN cols = 1..Len(cols) /\ rows \in Seq(RowType)
  BY LenProperties DEF IInv, TypeOK, MapsInverse
<1>2. cols[i] \in ColumnType
  BY <1>1, ElementOfSeq
<1>3. UNCHANGED <<remapping, held, rows>> /\ rows' \in Seq(RowType) /\ ColumnType' = ColumnType
  BY <1>1 DEF SetObjectiveCoefficient, SetVariableLowerBound, SetVariableUpperBound, ColumnType
<1> HIDE DEF i
<1>4. ASSUME NEW c \in ColumnType, cols' = [cols EXCEPT ![i] = c]
      PROVE  IInv' /\ cols'[i] = c /\ \A j \in DOMAIN cols : j # i => cols'[j] = cols[j]
  <2>1. cols' \in Seq(ColumnType) /\ Len(cols') = Len(cols)
    BY <1>1, <1>4, ExceptSeq
  <2>2. IInv'
    BY <1>3, <2>1, DataStepIInv
  <2> QED BY <1>1, <1>4, <2>2
<1>5. ASSUME x \in Coefs, SetObjectiveCoefficient(h, x)
      PROVE  cols' = [cols EXCEPT ![i] = [cols[i] EXCEPT !.obj = x]]
  BY <1>5 DEF SetObjectiveCoefficient, i
<1>6. ASSUME x \in Bounds, SetVariableLowerBound(h, x)
      PROVE  cols' = [cols EXCEPT ![i] = [cols[i] EXCEPT !.lb = x]]
  BY <1>6 DEF SetVariableLowerBound, i
<1>7. ASSUME x \in Bounds, SetVariableUpperBound(h, x)
      PROVE  cols' = [cols EXCEPT ![i] = [cols[i] EXCEPT !.ub = x]]
  BY <1>7 DEF SetVariableUpperBound, i
<1>8. /\ ~(SetObjectiveCoefficient(h, x) /\ SetVariableLowerBound(h, x))
      /\ ~(SetObjectiveCoefficient(h, x) /\ SetVariableUpperBound(h, x))
      /\ ~(SetVariableLowerBound(h, x) /\ SetVariableUpperBound(h, x))
  BY DEF SetObjectiveCoefficient, SetVariableLowerBound, SetVariableUpperBound
<1>9. CASE x \in Coefs /\ SetObjectiveCoefficient(h, x)
  <2>1. [cols[i] EXCEPT !.obj = x] \in ColumnType
    BY <1>2, <1>9, ColumnUpdate
  <2> QED BY <1>3, <1>4, <1>5, <1>8, <1>9, <2>1 DEF i
<1>10. CASE x \in Bounds /\ SetVariableLowerBound(h, x)
  <2>1. [cols[i] EXCEPT !.lb = x] \in ColumnType
    BY <1>2, <1>10, ColumnUpdate
  <2> QED BY <1>3, <1>4, <1>6, <1>8, <1>10, <2>1 DEF i
<1>11. CASE x \in Bounds /\ SetVariableUpperBound(h, x)
  <2>1. [cols[i] EXCEPT !.ub = x] \in ColumnType
    BY <1>2, <1>11, ColumnUpdate
  <2> QED BY <1>3, <1>4, <1>7, <1>8, <1>11, <2>1 DEF i
<1> QED BY <1>9, <1>10, <1>11

\* set_objective and add_objective write costs and nothing else.
LEMMA SetObjectiveIInv ==
    ASSUME IInv, NEW terms, SetObjective(terms) \/ AddObjective(terms) PROVE IInv'
<1>1. cols \in [1..Len(cols) -> ColumnType] /\ Len(cols) \in Nat /\ DOMAIN cols = 1..Len(cols)
  BY LenProperties DEF IInv, TypeOK
<1>2. UNCHANGED <<remapping, held>> /\ rows' = rows /\ rows \in Seq(RowType)
  BY DEF SetObjective, AddObjective, IInv, TypeOK
<1>3. ColumnType' = ColumnType
  BY <1>2 DEF ColumnType
<1>4. cols' \in [1..Len(cols) -> ColumnType]
  <2>1. CASE SetObjective(terms)
    <3>1. \A i \in 1..Len(cols) : [cols[i] EXCEPT !.obj = NativeCoefficient(terms, i)] \in ColumnType
      BY <1>1, <2>1, ColumnUpdate DEF SetObjective
    <3> QED BY <1>1, <2>1, <3>1 DEF SetObjective
  <2>2. CASE AddObjective(terms)
    <3>1. \A i \in 1..Len(cols) :
            [cols[i] EXCEPT !.obj = @ + NativeCoefficient(terms, i)] \in ColumnType
      BY <1>1, <2>2, ColumnUpdate DEF AddObjective
    <3> QED BY <1>1, <2>2, <3>1 DEF AddObjective
  <2> QED BY <2>1, <2>2
<1>5. cols' \in Seq(ColumnType) /\ Len(cols') = Len(cols)
  BY <1>1, <1>4, SeqIntro
<1> QED BY <1>2, <1>3, <1>5, DataStepIInv

\* The row bounds that a change of right-hand side or sense leaves.
LEMMA SetRow ==
    ASSUME IInv, NEW r \in DOMAIN rows, NEW x,
           \/ x \in Rhs /\ SetConstraintRhs(r, x)
           \/ x \in Senses /\ SetConstraintSense(r, x)
    PROVE  /\ IInv' /\ UNCHANGED <<remapping, held, cols>>
           /\ rows' \in Seq(RowType) /\ Len(rows') = Len(rows)
           /\ \A q \in DOMAIN rows : q # r => rows'[q] = rows[q]
           /\ SetConstraintRhs(r, x) => rows'[r] = RowOf(BoundsToSense(rows[r]), x)
           /\ SetConstraintSense(r, x) => rows'[r] = RowOf(x, BoundsToRhs(rows[r]))
<1>1. rows \in Seq(RowType) /\ rows \in [1..Len(rows) -> RowType] /\ Len(rows) \in Nat
      /\ DOMAIN rows = 1..Len(rows)
  BY LenProperties DEF IInv, TypeOK
<1>2. PICK s \in Senses, b \in Rhs : rows[r] = RowOf(s, b)
  BY <1>1 DEF RowType
<1>3. BoundsToSense(rows[r]) = s /\ BoundsToRhs(rows[r]) = b
  BY <1>2, RowRoundTrip
<1>4. ~(SetConstraintRhs(r, x) /\ SetConstraintSense(r, x))
  BY DEF SetConstraintRhs, SetConstraintSense
<1>5. UNCHANGED <<remapping, held, cols>>
  BY DEF SetConstraintRhs, SetConstraintSense
<1>6. ASSUME NEW row \in RowType, rows' = [rows EXCEPT ![r] = row]
      PROVE  /\ IInv' /\ rows' \in Seq(RowType) /\ Len(rows') = Len(rows) /\ rows'[r] = row
             /\ \A q \in DOMAIN rows : q # r => rows'[q] = rows[q]
  <2>1. rows' \in Seq(RowType) /\ Len(rows') = Len(rows)
    BY <1>1, <1>6, ExceptSeq
  <2>2. ColumnType' = ColumnType
    BY <2>1 DEF ColumnType
  <2>3. IInv'
    BY <1>5, <2>1, <2>2, DataStepIInv DEF IInv, TypeOK
  <2> QED BY <1>1, <1>6, <2>1, <2>3
<1>7. CASE x \in Rhs /\ SetConstraintRhs(r, x)
  <2>1. rows' = [rows EXCEPT ![r] = RowOf(s, x)]
    <3>1. s = "less_equal" \/ s = "equal" \/ s = "greater_equal"
      BY DEF Senses
    <3> DEFINE row == rows[r]
    <3>2. rows' = [rows EXCEPT ![r] =
                      CASE s = "equal" -> [lower |-> x, upper |-> x]
                        [] s = "less_equal" -> [lower |-> row.lower, upper |-> x]
                        [] s = "greater_equal" -> [lower |-> x, upper |-> row.upper]]
      BY <1>3, <1>7 DEF SetConstraintRhs
    <3>3. CASE s = "equal"
      BY <3>2, <3>3 DEF RowOf
    <3>4. CASE s = "less_equal"
      BY <1>2, <3>2, <3>4 DEF RowOf
    <3>5. CASE s = "greater_equal"
      BY <1>2, <3>2, <3>5 DEF RowOf
    <3> QED BY <3>1, <3>3, <3>4, <3>5
  <2>2. RowOf(s, x) \in RowType
    BY <1>7, RowRoundTrip
  <2> QED BY <1>3, <1>4, <1>5, <1>6, <1>7, <2>1, <2>2
<1>8. CASE x \in Senses /\ SetConstraintSense(r, x)
  <2>1. rows' = [rows EXCEPT ![r] = RowOf(x, b)]
    <3>1. CASE s = x
      BY <1>1, <1>2, <1>3, <1>8, <3>1 DEF SetConstraintSense
    <3>2. CASE s # x
      BY <1>3, <1>8, <3>2 DEF SetConstraintSense
    <3> QED BY <3>1, <3>2
  <2>2. RowOf(x, b) \in RowType
    BY <1>8, RowRoundTrip
  <2> QED BY <1>3, <1>4, <1>5, <1>6, <1>8, <2>1, <2>2
<1> QED BY <1>7, <1>8

\* add_constraints gives every column a coefficient for every new row.
LEMMA AddConstraintsIInv ==
    ASSUME IInv, NEW m \in Nat, NEW lcs \in [1..m -> Constraints], AddConstraints(lcs)
    PROVE  /\ IInv' /\ Len(rows') = Len(rows) + m
           /\ \A r \in DOMAIN rows : rows'[r] = rows[r]
           /\ \A r \in 1..m : rows'[Len(rows) + r] = RowOf(lcs[r].sense, lcs[r].rhs)
<1> DEFINE n == Len(rows)
           more == [r \in DOMAIN lcs |-> RowOf(lcs[r].sense, lcs[r].rhs)]
           coefs(i) == [r \in DOMAIN lcs |-> NativeCoefficient(lcs[r].terms, i)]
<1>1. /\ cols \in [1..Len(cols) -> ColumnType] /\ Len(cols) \in Nat /\ DOMAIN cols = 1..Len(cols)
      /\ rows \in Seq(RowType) /\ n \in Nat /\ DOMAIN rows = 1..n
  BY LenProperties DEF IInv, TypeOK
<1>2. DOMAIN lcs = 1..m /\ Len(lcs) = m
  BY SeqIntro
<1>3. /\ UNCHANGED <<remapping, held>> /\ rows' = rows \o more
      /\ cols' = [i \in DOMAIN cols |-> [cols[i] EXCEPT
                   !.coefs = WithRows(@, n, coefs(i), m)]]
      /\ \A r \in 1..m, i \in DOMAIN cols : NativeCoefficient(lcs[r].terms, i) \in Coefs
  BY <1>2 DEF AddConstraints
<1>4. more \in Seq(RowType) /\ Len(more) = m /\ DOMAIN more = 1..m
  <2>1. \A r \in 1..m : RowOf(lcs[r].sense, lcs[r].rhs) \in RowType
    <3> SUFFICES ASSUME NEW r \in 1..m PROVE RowOf(lcs[r].sense, lcs[r].rhs) \in RowType
      OBVIOUS
    <3>1. lcs[r].sense \in Senses /\ lcs[r].rhs \in Rhs
      BY DEF Constraints
    <3> QED BY <3>1, RowRoundTrip
  <2>2. more \in [1..m -> RowType]
    BY <1>2, <2>1
  <2> HIDE DEF more
  <2> QED BY <2>2, SeqIntro
<1>5. \A r \in 1..m : more[r] = RowOf(lcs[r].sense, lcs[r].rhs)
  BY <1>2
<1> HIDE DEF more
<1>6. rows' \in Seq(RowType) /\ Len(rows') = n + m
  BY <1>1, <1>3, <1>4, ConcatProperties
<1>7. /\ \A r \in 1..n : rows'[r] = rows[r]
      /\ \A r \in 1..m : rows'[n + r] = more[r]
  <2>1. /\ \A r \in 1..n : rows'[r] = rows[r]
        /\ \A r \in (n + 1)..(n + m) : rows'[r] = more[r - n]
    BY <1>1, <1>3, <1>4, ConcatProperties
  <2>2. \A r \in 1..m : n + r \in (n + 1)..(n + m) /\ (n + r) - n = r
    BY <1>1
  <2> QED BY <2>1, <2>2
<1> HIDE DEF n
<1>8. ASSUME NEW i \in 1..Len(cols)
      PROVE  [cols[i] EXCEPT !.coefs = WithRows(@, n, coefs(i), m)] \in ColumnType'
  <2>1. cols[i].coefs \in [1..n -> Coefs] /\ cols[i] \in ColumnType
    BY <1>1 DEF ColumnType, n
  <2>2. coefs(i) \in [1..m -> Coefs]
    BY <1>1, <1>2, <1>3
  <2>3. WithRows(cols[i].coefs, n, coefs(i), m) \in [1..(n + m) -> Coefs]
    <3> HIDE DEF coefs
    <3> QED BY <1>1, <2>1, <2>2 DEF WithRows
  <2> QED BY <1>6, <2>1, <2>3 DEF ColumnType
<1>9. cols' \in [1..Len(cols) -> ColumnType']
  BY <1>1, <1>3, <1>8
<1>10. cols' \in Seq(ColumnType') /\ Len(cols') = Len(cols)
  BY <1>1, <1>9, SeqIntro
<1>11. IInv'
  BY <1>3, <1>6, <1>10, DataStepIInv
<1> QED BY <1>1, <1>5, <1>6, <1>7, <1>11 DEF n
----------------------------------------------------------------------------
\* Every operation keeps the invariant.
LEMMA NextIInv == IInv /\ [Next]_vars => IInv'
<1> SUFFICES ASSUME IInv, [Next]_vars PROVE IInv'
  OBVIOUS
<1>0. Len(rows) \in Nat
  BY LenProperties DEF IInv, TypeOK
<1>1. ASSUME NEW p \in Params, AddVariable(p) PROVE IInv'
  <2>1. Column(p, Zeros) \in ColumnType
    BY DataAssumption DEF Column, ColumnType, Zeros
  <2> QED BY <1>1, <2>1, AddOneIInv DEF AddVariable
<1>2. ASSUME NEW p \in Params, NEW e \in [1..Len(rows) -> Coefs], AddColumn(p, e) PROVE IInv'
  <2>1. Column(p, e) \in ColumnType
    BY DataAssumption DEF Column, ColumnType
  <2> QED BY <1>2, <2>1, AddOneIInv DEF AddColumn
<1>3. ASSUME AddVariableFails PROVE IInv'
  BY <1>3, AddVariableFailsIInv
<1>4. ASSUME NEW p \in Params, NEW n \in 1..MaxColumns, AddVariables(n, p) PROVE IInv'
  BY <1>4, AddVariablesIInv, BoundsAssumption
<1>5. ASSUME NEW doomed \in Removals, RemoveVariables(doomed) PROVE IInv'
  BY <1>5, RemoveVariablesIInv
<1>6. ASSUME NEW h \in held, NEW b \in Bounds,
             SetVariableLowerBound(h, b) \/ SetVariableUpperBound(h, b)
      PROVE  IInv'
  BY <1>6, SetterIInv
<1>7. ASSUME NEW terms \in Exprs, SetObjective(terms) \/ AddObjective(terms) PROVE IInv'
  BY <1>7, SetObjectiveIInv
<1>8. ASSUME NEW h \in held, NEW c \in Coefs, SetObjectiveCoefficient(h, c) PROVE IInv'
  BY <1>8, SetterIInv
<1>9. ASSUME NEW m \in 0..MaxRows, NEW lcs \in [1..m -> Constraints], AddConstraints(lcs)
      PROVE  IInv'
  BY <1>9, AddConstraintsIInv
<1>10. ASSUME NEW r \in DOMAIN rows, NEW b \in Rhs, SetConstraintRhs(r, b) PROVE IInv'
  BY <1>10, SetRow
<1>11. ASSUME NEW r \in DOMAIN rows, NEW s \in Senses, SetConstraintSense(r, s) PROVE IInv'
  BY <1>11, SetRow
<1>12. CASE UNCHANGED vars
  BY <1>12 DEF vars, remapping, IInv, TypeOK, LookupsInBounds, MapsInverse, NoHandleLost,
               NativeId, VarHandle, ColumnType, RowType
<1> QED BY <1>1, <1>2, <1>3, <1>4, <1>5, <1>6, <1>7, <1>8, <1>9, <1>10, <1>11, <1>12 DEF Next

\* The maps, the free list and the columns fit together in every state of the
\* HiGHS model, however many columns, handles and rows it may have.
THEOREM MapsStayInverse == Spec => [](TypeOK /\ LookupsInBounds /\ MapsInverse /\ NoHandleLost)
<1>1. Spec => []IInv
  BY InitIInv, NextIInv, PTL DEF Spec
<1>2. IInv => TypeOK /\ LookupsInBounds /\ MapsInverse /\ NoHandleLost
  BY DEF IInv
<1> QED BY <1>1, <1>2, PTL
----------------------------------------------------------------------------
(* The model keeps the promise of LinearModel.  The refinement mapping     *)
(* reads a handle's column through _native_id; under the invariant every   *)
(* step of highs_base maps to the step of the interface that the client    *)
(* called.                                                                 *)

\* The refinement mapping, named.
VariablesMap == [h \in held |-> cols[NativeId(h)]]
ConstraintOf(row) == [sense |-> BoundsToSense(row), rhs |-> BoundsToRhs(row)]
ConstraintsMap == [r \in DOMAIN rows |-> ConstraintOf(rows[r])]

\* An operation that leaves the rows alone leaves the constraints alone.
LEMMA RowsUnchanged == rows' = rows => ConstraintsMap' = ConstraintsMap
BY DEF ConstraintsMap, ConstraintOf, BoundsToSense, BoundsToRhs

\* As many constraints as rows.
LEMMA ConstraintsLen == 
    ASSUME IInv
    PROVE  /\ Len(ConstraintsMap) = Len(rows) /\ DOMAIN ConstraintsMap = DOMAIN rows
           /\ DOMAIN rows = 1..Len(rows) /\ Len(rows) \in Nat
<1>1. Len(rows) \in Nat /\ DOMAIN rows = 1..Len(rows)
  BY LenProperties DEF IInv, TypeOK
<1> QED BY <1>1 DEF ConstraintsMap

\* add_variable and add_column: the new column appears under a handle that the
\* client does not hold, and every handle it holds keeps its column.
LEMMA AddOneVariables ==
    ASSUME IInv, NEW p, NEW coefs, Column(p, coefs) \in ColumnType, NEW h, AddOne(p, coefs, h)
    PROVE  /\ h \in 1..MaxHandles /\ {h} \cap held = {}
           /\ VariablesMap' = [g \in held \cup {h} |->
                 IF g \in {h} THEN Column(p, coefs) ELSE VariablesMap[g]]
<1>1. /\ h \in (1..MaxHandles) \ held
      /\ NativeId(h)' = Len(cols) + 1
      /\ \A g \in held : NativeId(g)' = NativeId(g)
  BY AddOneIInv
<1>2. /\ held' = held \cup {h} /\ cols' = Append(cols, Column(p, coefs))
      /\ cols \in Seq(ColumnType)
  BY DEF AddOne, IInv, TypeOK
<1>3. \A g \in held : NativeId(g) \in 1..Len(cols)
  BY <1>2, LenProperties DEF IInv, MapsInverse
<1>4. cols'[Len(cols) + 1] = Column(p, coefs) /\ \A i \in 1..Len(cols) : cols'[i] = cols[i]
  BY <1>2, AppendProperties
<1>5. \A g \in held : cols'[NativeId(g)'] = cols[NativeId(g)]
  BY <1>1, <1>3, <1>4
<1>6. VariablesMap' = [g \in held' |-> cols'[NativeId(g)']]
  BY DEF VariablesMap
<1> QED BY <1>1, <1>2, <1>4, <1>5, <1>6 DEF VariablesMap

\* add_variable is the AddVariable of the interface, under the handle it returns.
LEMMA AddVariableStep ==
    ASSUME IInv, NEW p \in Params, AddVariable(p) PROVE Promise!Next
<1> DEFINE h == NewHandleId(Len(cols) + 1)
<1>1. Column(p, Zeros) \in ColumnType
  BY ConstraintsLen, DataAssumption DEF Column, ColumnType, Zeros
<1>2. AddOne(p, Zeros, h) /\ rows' = rows /\ call' = <<"add_variable", h, p>>
  BY DEF AddVariable, AddOne
<1> HIDE DEF h
<1>3. /\ h \in 1..MaxHandles /\ {h} \cap held = {}
      /\ VariablesMap' = [g \in held \cup {h} |->
            IF g \in {h} THEN Column(p, Zeros) ELSE VariablesMap[g]]
  BY <1>1, <1>2, AddOneVariables
<1>4. ConstraintsMap' = ConstraintsMap
  BY <1>2, RowsUnchanged
<1>5. Promise!Zeros = Zeros
  BY ConstraintsLen DEF Promise!Zeros, Zeros, ConstraintsMap, ConstraintOf
<1>6. Promise!AddVariable(h, p)
  BY <1>2, <1>3, <1>4, <1>5 DEF Promise!AddVariable, Promise!Add, Promise!Held,
     Promise!NewVariable, Column, VariablesMap, ConstraintsMap, ConstraintOf
<1> QED BY <1>3, <1>6 DEF Promise!Next

\* add_column is the AddColumn of the interface, under the handle it returns.
LEMMA AddColumnStep ==
    ASSUME IInv, NEW p \in Params, NEW e \in [1..Len(rows) -> Coefs], AddColumn(p, e)
    PROVE  Promise!Next
<1> DEFINE h == NewHandleId(Len(cols) + 1)
<1>1. Column(p, e) \in ColumnType
  BY DataAssumption DEF Column, ColumnType
<1>2. AddOne(p, e, h) /\ rows' = rows /\ call' = <<"add_column", h, p, e>>
  BY DEF AddColumn, AddOne
<1> HIDE DEF h
<1>3. /\ h \in 1..MaxHandles /\ {h} \cap held = {}
      /\ VariablesMap' = [g \in held \cup {h} |->
            IF g \in {h} THEN Column(p, e) ELSE VariablesMap[g]]
  BY <1>1, <1>2, AddOneVariables
<1>4. ConstraintsMap' = ConstraintsMap /\ e \in [1..Len(ConstraintsMap) -> Coefs]
  BY <1>2, RowsUnchanged, ConstraintsLen
<1>5. Promise!AddColumn(h, p, e)
  BY <1>2, <1>3, <1>4 DEF Promise!AddColumn, Promise!Add, Promise!Held,
     Promise!NewVariable, Column, VariablesMap, ConstraintsMap, ConstraintOf
<1> QED BY <1>3, <1>4, <1>5 DEF Promise!Next, ConstraintsMap, ConstraintOf

\* A refused column changes nothing that the client can see.
LEMMA AddVariableFailsStep ==
    ASSUME IInv, AddVariableFails PROVE Promise!Next
<1>1. /\ UNCHANGED <<remap_ids, native_ids_map, cols, rows, held>>
      /\ call' = <<"rejected">>
  BY DEF AddVariableFails
<1>2. VariablesMap' = VariablesMap
  BY <1>1 DEF VariablesMap, NativeId
<1>3. ConstraintsMap' = ConstraintsMap
  BY <1>1, RowsUnchanged
<1>4. Promise!Rejected
  BY <1>1, <1>2, <1>3 DEF Promise!Rejected, VariablesMap, ConstraintsMap, ConstraintOf
<1> QED BY <1>4 DEF Promise!Next

\* add_variables: a range of new handles, each with a column of its own.
LEMMA AddVariablesStep ==
    ASSUME IInv, NEW p \in Params, NEW n \in 1..MaxColumns, AddVariables(n, p)
    PROVE  Promise!Next
<1> DEFINE first == FirstOfHandleRange(Len(cols))
           H == first..(first + n - 1)
           added == [k \in 1..n |-> Column(p, Zeros)]
<1>0. n \in Nat \ {0}
  BY BoundsAssumption
<1>1. /\ cols' = cols \o added /\ held' = held \cup H /\ rows' = rows
      /\ call' = <<"add_variables", first, n, p>> /\ first + n - 1 <= MaxHandles
  BY DEF AddVariables
<1>2. first = FirstOfHandleRange(Len(cols))
  OBVIOUS
<1> HIDE DEF first
<1>3. /\ first \in 1..MaxHandles
      /\ \A g \in H : g \notin held /\ NativeId(g)' = Len(cols) + 1 + (g - first)
      /\ \A g \in held : NativeId(g)' = NativeId(g)
  BY <1>0, <1>2, AddVariablesIInv
<1>4. cols \in Seq(ColumnType) /\ Len(cols) \in Nat /\ DOMAIN cols = 1..Len(cols)
  BY LenProperties DEF IInv, TypeOK
<1>5. added \in Seq(ColumnType) /\ Len(added) = n
  <2>1. Column(p, Zeros) \in ColumnType
    BY ConstraintsLen, DataAssumption DEF Column, ColumnType, Zeros
  <2> QED BY <1>0, <2>1, SeqIntro
<1>6. \A k \in 1..n : added[k] = Column(p, Zeros)
  OBVIOUS
<1> HIDE DEF added
<1>7. /\ \A i \in 1..Len(cols) : cols'[i] = cols[i]
      /\ \A i \in (Len(cols) + 1)..(Len(cols) + n) : cols'[i] = Column(p, Zeros)
  <2>1. /\ \A i \in 1..Len(cols) : cols'[i] = cols[i]
        /\ \A i \in (Len(cols) + 1)..(Len(cols) + n) : cols'[i] = added[i - Len(cols)]
    BY <1>1, <1>4, <1>5, ConcatProperties
  <2>2. \A i \in (Len(cols) + 1)..(Len(cols) + n) : i - Len(cols) \in 1..n
    BY <1>0, <1>4
  <2> QED BY <1>6, <2>1, <2>2
<1>8. \A g \in held : cols'[NativeId(g)'] = cols[NativeId(g)]
  BY <1>3, <1>4, <1>7 DEF IInv, MapsInverse
<1>9. ASSUME NEW g \in H PROVE cols'[NativeId(g)'] = Column(p, Zeros)
  <2>1. Len(cols) + 1 + (g - first) \in (Len(cols) + 1)..(Len(cols) + n)
    BY <1>0, <1>3, <1>4
  <2> QED BY <1>3, <1>7, <2>1
<1> HIDE DEF H
<1>10. VariablesMap' = [g \in held \cup H |->
          IF g \in H THEN Column(p, Zeros) ELSE VariablesMap[g]]
  <2>1. VariablesMap' = [g \in held' |-> cols'[NativeId(g)']]
    BY DEF VariablesMap
  <2> QED BY <1>1, <1>8, <1>9, <2>1 DEF VariablesMap
<1>11. ConstraintsMap' = ConstraintsMap
  BY <1>1, RowsUnchanged
<1>12. Promise!Zeros = Zeros
  BY ConstraintsLen DEF Promise!Zeros, Zeros, ConstraintsMap, ConstraintOf
<1>13. H \cap held = {}
  BY <1>3
<1>14. Promise!AddVariables(first, n, p)
  <2>1. Promise!Add(H, Column(p, Zeros))
    BY <1>10, <1>11, <1>13 DEF Promise!Add, Promise!Held, VariablesMap, ConstraintsMap, ConstraintOf
  <2>2. Promise!NewVariable(p, Promise!Zeros) = Column(p, Zeros)
    BY <1>12 DEF Promise!NewVariable, Column
  <2> QED BY <1>1, <2>1, <2>2 DEF Promise!AddVariables, H
<1>15. /\ first + n - 1 \in 1..MaxHandles /\ first <= first + n - 1
       /\ (first + n - 1) - first + 1 = n
  BY <1>0, <1>1, <1>3, BoundsAssumption
<1> QED BY <1>3, <1>14, <1>15 DEF Promise!Next

\* remove_variables: the survivors keep their columns, wherever those went.
LEMMA RemoveVariablesStep ==
    ASSUME IInv, NEW doomed \in Removals, RemoveVariables(doomed) PROVE Promise!Next
<1> DEFINE H == {doomed[k] : k \in DOMAIN doomed}
<1>1. held' = held \ H /\ rows' = rows /\ call' = <<"remove_variables", H>>
  BY DEF RemoveVariables
<1>2. \A h \in held' : cols'[NativeId(h)'] = cols[NativeId(h)]
  BY RemoveVariablesIInv
<1>3. H \subseteq held
  BY DEF Removals
<1> HIDE DEF H
<1>4. VariablesMap' = [h \in held \ H |-> VariablesMap[h]]
  <2>1. VariablesMap' = [h \in held' |-> cols'[NativeId(h)']]
    BY DEF VariablesMap
  <2> QED BY <1>1, <1>2, <2>1 DEF VariablesMap
<1>5. ConstraintsMap' = ConstraintsMap
  BY <1>1, RowsUnchanged
<1>6. Promise!RemoveVariables(H)
  BY <1>1, <1>4, <1>5 DEF Promise!RemoveVariables, Promise!Held, VariablesMap,
     ConstraintsMap, ConstraintOf
<1> QED BY <1>3, <1>6 DEF Promise!Next, Promise!Held

\* A setter changes the column of the handle it was given; the columns of the
\* other held handles are other columns.
LEMMA OtherColumns ==
    ASSUME IInv, UNCHANGED <<remapping, held>>, NEW h \in held,
           \A i \in DOMAIN cols : i # NativeId(h) => cols'[i] = cols[i]
    PROVE  VariablesMap' = [VariablesMap EXCEPT ![h] = cols'[NativeId(h)]]
<1>1. \A g \in held : NativeId(g)' = NativeId(g)
  BY DEF NativeId, remapping
<1>2. \A g \in held : g # h => NativeId(g) # NativeId(h) /\ NativeId(g) \in DOMAIN cols
  BY DEF IInv, MapsInverse
<1>3. VariablesMap' = [g \in held |-> cols'[NativeId(g)]]
  BY <1>1 DEF VariablesMap
<1> QED BY <1>2, <1>3 DEF VariablesMap

\* Each setter of a bound or a cost is the setter of the interface for its handle.
LEMMA SetterStep ==
    ASSUME IInv, NEW h \in held, NEW x,
           \/ x \in Coefs /\ SetObjectiveCoefficient(h, x)
           \/ x \in Bounds /\ SetVariableLowerBound(h, x)
           \/ x \in Bounds /\ SetVariableUpperBound(h, x)
    PROVE  Promise!Next
<1>1. UNCHANGED <<remapping, held, rows>> /\ \A i \in DOMAIN cols : i # NativeId(h) => cols'[i] = cols[i]
  BY SetterIInv
<1>2. VariablesMap' = [VariablesMap EXCEPT ![h] = cols'[NativeId(h)]]
  BY <1>1, OtherColumns
<1>3. ConstraintsMap' = ConstraintsMap
  BY <1>1, RowsUnchanged
<1>4. VariablesMap[h] = cols[NativeId(h)] /\ Promise!Held = held
  BY DEF VariablesMap, Promise!Held
<1>5. CASE x \in Coefs /\ SetObjectiveCoefficient(h, x)
  <2>0. cols'[NativeId(h)] = [cols[NativeId(h)] EXCEPT !.obj = x]
    BY <1>5, SetterIInv
  <2>1. VariablesMap' = [VariablesMap EXCEPT ![h].obj = x]
    BY <1>2, <1>4, <2>0
  <2>2. Promise!SetObjectiveCoefficient(h, x)
    BY <1>3, <1>5, <2>1 DEF Promise!SetObjectiveCoefficient, SetObjectiveCoefficient,
       VariablesMap, ConstraintsMap, ConstraintOf
  <2> QED BY <1>4, <1>5, <2>2 DEF Promise!Next
<1>6. CASE x \in Bounds /\ SetVariableLowerBound(h, x)
  <2>0. cols'[NativeId(h)] = [cols[NativeId(h)] EXCEPT !.lb = x]
    BY <1>6, SetterIInv
  <2>1. VariablesMap' = [VariablesMap EXCEPT ![h].lb = x]
    BY <1>2, <1>4, <2>0
  <2>2. Promise!SetVariableLowerBound(h, x)
    BY <1>3, <1>6, <2>1 DEF Promise!SetVariableLowerBound, SetVariableLowerBound,
       VariablesMap, ConstraintsMap, ConstraintOf
  <2> QED BY <1>4, <1>6, <2>2 DEF Promise!Next
<1>7. CASE x \in Bounds /\ SetVariableUpperBound(h, x)
  <2>0. cols'[NativeId(h)] = [cols[NativeId(h)] EXCEPT !.ub = x]
    BY <1>7, SetterIInv
  <2>1. VariablesMap' = [VariablesMap EXCEPT ![h].ub = x]
    BY <1>2, <1>4, <2>0
  <2>2. Promise!SetVariableUpperBound(h, x)
    BY <1>3, <1>7, <2>1 DEF Promise!SetVariableUpperBound, SetVariableUpperBound,
       VariablesMap, ConstraintsMap, ConstraintOf
  <2> QED BY <1>4, <1>7, <2>2 DEF Promise!Next
<1> QED BY <1>5, <1>6, <1>7

\* What an expression gives to the column of a held handle is what it gives to
\* the handle: no other handle of the expression translates to that column.
LEMMA NativeCoefficientOf ==
    ASSUME IInv, NEW terms \in Exprs, NEW h \in held
    PROVE  NativeCoefficient(terms, NativeId(h)) = CoefficientOf(terms, h)
<1>1. \A k \in DOMAIN terms : terms[k].var \in held
  BY DEF Exprs, ExpressionsOver, Expressions
<1>2. \A g \in held : NativeId(g) = NativeId(h) => g = h
  BY DEF IInv, MapsInverse
<1>3. {k \in DOMAIN terms : NativeId(terms[k].var) = NativeId(h)}
        = {k \in DOMAIN terms : terms[k].var = h}
  BY <1>1, <1>2
<1> QED BY <1>3 DEF NativeCoefficient, CoefficientOf

\* set_objective and add_objective give each held handle what its terms add up to.
LEMMA ObjectiveStep ==
    ASSUME IInv, NEW terms \in Exprs, SetObjective(terms) \/ AddObjective(terms)
    PROVE  Promise!Next
<1>1. UNCHANGED <<remapping, held, rows>>
  BY DEF SetObjective, AddObjective
<1>2. \A h \in held : NativeId(h)' = NativeId(h) /\ NativeId(h) \in DOMAIN cols
  BY <1>1 DEF NativeId, remapping, IInv, MapsInverse
<1>3. VariablesMap' = [h \in held |-> cols'[NativeId(h)]]
  BY <1>1, <1>2 DEF VariablesMap
<1>4. ConstraintsMap' = ConstraintsMap
  BY <1>1, RowsUnchanged
<1>5. Promise!Held = held /\ terms \in ExpressionsOver(Promise!Held)
  BY DEF Promise!Held, Exprs
<1>6. CASE SetObjective(terms)
  <2>1. \A h \in held : cols'[NativeId(h)] =
           [VariablesMap[h] EXCEPT !.obj = CoefficientOf(terms, h)]
    BY <1>2, <1>6, NativeCoefficientOf DEF SetObjective, VariablesMap
  <2>2. VariablesMap' = [h \in held |-> [VariablesMap[h] EXCEPT !.obj = CoefficientOf(terms, h)]]
    BY <1>3, <2>1
  <2>3. Promise!SetObjective(terms)
    BY <1>4, <1>5, <1>6, <2>2 DEF Promise!SetObjective, SetObjective,
       VariablesMap, ConstraintsMap, ConstraintOf
  <2> QED BY <1>5, <2>3 DEF Promise!Next
<1>7. CASE AddObjective(terms)
  <2>1. \A h \in held : cols'[NativeId(h)] =
           [VariablesMap[h] EXCEPT !.obj = @ + CoefficientOf(terms, h)]
    BY <1>2, <1>7, NativeCoefficientOf DEF AddObjective, VariablesMap
  <2>2. VariablesMap' = [h \in held |-> [VariablesMap[h] EXCEPT !.obj = @ + CoefficientOf(terms, h)]]
    BY <1>3, <2>1
  <2>3. Promise!AddObjective(terms)
    BY <1>4, <1>5, <1>7, <2>2 DEF Promise!AddObjective, AddObjective,
       VariablesMap, ConstraintsMap, ConstraintOf
  <2> QED BY <1>5, <2>3 DEF Promise!Next
<1> QED BY <1>6, <1>7

\* add_constraints: the rows are appended in order, and each held handle gets in
\* each of them what the client's expression gives it.
LEMMA AddConstraintsStep ==
    ASSUME IInv, NEW m \in 0..MaxRows, NEW lcs \in [1..m -> Constraints], AddConstraints(lcs)
    PROVE  Promise!Next
<1> DEFINE n == Len(rows)
           more(h) == [r \in DOMAIN lcs |-> CoefficientOf(lcs[r].terms, h)]
           added == [r \in DOMAIN lcs |-> [sense |-> lcs[r].sense, rhs |-> lcs[r].rhs]]
<1>0. m \in Nat /\ DOMAIN lcs = 1..m /\ Len(lcs) = m
  BY SeqIntro, BoundsAssumption
<1>1. /\ IInv' /\ Len(rows') = n + m
      /\ \A r \in DOMAIN rows : rows'[r] = rows[r]
      /\ \A r \in 1..m : rows'[n + r] = RowOf(lcs[r].sense, lcs[r].rhs)
  BY <1>0, AddConstraintsIInv
<1>2. /\ UNCHANGED <<remapping, held>> /\ call' = <<"add_constraints", lcs>>
      /\ cols' = [i \in DOMAIN cols |-> [cols[i] EXCEPT
            !.coefs = WithRows(@, n, [r \in DOMAIN lcs |-> NativeCoefficient(lcs[r].terms, i)],
                               Len(lcs))]]
  BY DEF AddConstraints
<1>3. \A h \in held : NativeId(h)' = NativeId(h) /\ NativeId(h) \in DOMAIN cols
  BY <1>2 DEF NativeId, remapping, IInv, MapsInverse
<1>4. ASSUME NEW h \in held
      PROVE  [r \in DOMAIN lcs |-> NativeCoefficient(lcs[r].terms, NativeId(h))] = more(h)
  <2>1. \A r \in DOMAIN lcs : lcs[r].terms \in Exprs
    BY <1>0 DEF Constraints
  <2> QED BY <2>1, NativeCoefficientOf
<1>5. \A h \in held : cols'[NativeId(h)] =
         [VariablesMap[h] EXCEPT !.coefs = WithRows(@, n, more(h), Len(lcs))]
  BY <1>2, <1>3, <1>4 DEF VariablesMap
<1>6. VariablesMap' = [h \in held |->
         [VariablesMap[h] EXCEPT !.coefs = WithRows(@, n, more(h), Len(lcs))]]
  <2>1. VariablesMap' = [h \in held |-> cols'[NativeId(h)]]
    BY <1>2, <1>3 DEF VariablesMap
  <2> QED BY <1>5, <2>1
<1>7. ConstraintsMap' = ConstraintsMap \o added
  <2>1. /\ DOMAIN rows = 1..n /\ n \in Nat /\ DOMAIN rows' = 1..(n + m)
        /\ Len(ConstraintsMap) = n
    BY <1>0, <1>1, LenProperties, ConstraintsLen DEF IInv, TypeOK
  <2>2. \A r \in 1..n : ConstraintOf(rows'[r]) = ConstraintOf(rows[r])
    BY <1>1, <2>1
  <2>3. ASSUME NEW r \in 1..m PROVE ConstraintOf(rows'[n + r]) = added[r]
    <3>1. lcs[r].sense \in Senses /\ lcs[r].rhs \in Rhs
      BY DEF Constraints
    <3>2. rows'[n + r] = RowOf(lcs[r].sense, lcs[r].rhs)
      BY <1>1
    <3>3. ConstraintOf(RowOf(lcs[r].sense, lcs[r].rhs)) = [sense |-> lcs[r].sense, rhs |-> lcs[r].rhs]
      BY <3>1, RowRoundTrip DEF ConstraintOf
    <3> QED BY <1>0, <3>2, <3>3
  <2>4. Len(added) = m
    BY <1>0
  <2>5. ConstraintsMap' = [r \in 1..(n + m) |-> ConstraintOf(rows'[r])]
    BY <2>1 DEF ConstraintsMap
  <2>6. ConstraintsMap \o added =
           [r \in 1..(n + m) |-> IF r <= n THEN ConstraintsMap[r] ELSE added[r - n]]
    <3> DEFINE S == [sense : Senses, rhs : Rhs]
    <3>1. ConstraintsMap \in [1..n -> S]
      <4>1. \A r \in DOMAIN rows : rows[r] \in RowType
        BY LenProperties DEF IInv, TypeOK
      <4>2. \A r \in DOMAIN rows : ConstraintOf(rows[r]) \in S
        BY <4>1, RowRoundTrip DEF RowType, ConstraintOf
      <4> QED BY <2>1, <4>2 DEF ConstraintsMap
    <3>2. added \in [1..m -> S]
      <4>1. \A r \in 1..m : lcs[r].sense \in Senses /\ lcs[r].rhs \in Rhs
        BY DEF Constraints
      <4> QED BY <1>0, <4>1
    <3> HIDE DEF added, S
    <3>3. ConstraintsMap \in Seq(S) /\ added \in Seq(S)
      BY <1>0, <2>1, <3>1, <3>2, SeqIntro
    <3>4. ConstraintsMap \o added \in Seq(S) /\ Len(ConstraintsMap \o added) = n + m
      BY <2>1, <2>4, <3>3, ConcatProperties
    <3> DEFINE joined == ConstraintsMap \o added
    <3>5. /\ \A r \in 1..n : joined[r] = ConstraintsMap[r]
          /\ \A r \in (n + 1)..(n + m) : joined[r] = added[r - n]
      BY <2>1, <2>4, <3>3, ConcatProperties
    <3>6. joined \in [1..(n + m) -> S]
      BY <3>4, LenProperties
    <3> HIDE DEF joined, n
    <3>7. ASSUME NEW r \in 1..(n + m)
          PROVE  joined[r] = IF r <= n THEN ConstraintsMap[r] ELSE added[r - n]
      <4>1. n \in Nat /\ m \in Nat
        BY <1>0, <2>1
      <4> QED BY <3>5, <4>1
    <3>8. joined = [r \in 1..(n + m) |-> IF r <= n THEN ConstraintsMap[r] ELSE added[r - n]]
      BY <3>6, <3>7
    <3> QED BY <3>8 DEF joined
  <2>7. ASSUME NEW r \in 1..(n + m)
        PROVE  ConstraintOf(rows'[r]) = IF r <= n THEN ConstraintsMap[r] ELSE added[r - n]
    <3>1. CASE r <= n
      BY <2>1, <2>2, <3>1 DEF ConstraintsMap
    <3>2. CASE r > n
      <4>1. r - n \in 1..m /\ n + (r - n) = r
        BY <1>0, <2>1, <3>2
      <4> HIDE DEF added
      <4> QED BY <2>1, <2>3, <3>2, <4>1
    <3> QED BY <2>1, <3>1, <3>2
  <2> QED BY <2>5, <2>6, <2>7
<1>8. Promise!AddConstraints(lcs)
  <2>1. Len(ConstraintsMap) = n
    BY ConstraintsLen
  <2>2. VariablesMap' = [h \in held |-> [VariablesMap[h] EXCEPT
           !.coefs = Promise!WithRows(@, Len(ConstraintsMap), more(h), Len(lcs))]]
    BY <1>6, <2>1 DEF Promise!WithRows, WithRows
  <2> QED BY <1>2, <1>7, <2>2 DEF Promise!AddConstraints, Promise!Held,
        VariablesMap, ConstraintsMap, ConstraintOf
<1>9. lcs \in [1..m -> Promise!Rows]
  BY DEF Constraints, Promise!Rows, Promise!Held, Promise!Senses, Senses, Exprs
<1> QED BY <1>8, <1>9 DEF Promise!Next

\* set_constraint_rhs and set_constraint_sense: read back through the bounds of
\* the row, the one is what the client wrote and the other is what it was.
LEMMA SetConstraintStep ==
    ASSUME IInv, NEW r \in DOMAIN rows, NEW x,
           \/ x \in Rhs /\ SetConstraintRhs(r, x)
           \/ x \in Senses /\ SetConstraintSense(r, x)
    PROVE  Promise!Next
<1>1. /\ UNCHANGED <<remapping, held, cols>> /\ Len(rows') = Len(rows)
      /\ rows' \in Seq(RowType) /\ rows \in Seq(RowType)
      /\ \A q \in DOMAIN rows : q # r => rows'[q] = rows[q]
  BY SetRow DEF IInv, TypeOK
<1>2. VariablesMap' = VariablesMap
  BY <1>1 DEF VariablesMap, NativeId, remapping
<1>3. DOMAIN rows' = DOMAIN rows /\ DOMAIN ConstraintsMap = DOMAIN rows
  BY <1>1, LenProperties, ConstraintsLen
<1>4. PICK s \in Senses, b \in Rhs : rows[r] = RowOf(s, b)
  BY <1>1 DEF RowType
<1>5. ConstraintsMap[r] = [sense |-> s, rhs |-> b]
  BY <1>4, RowRoundTrip DEF ConstraintsMap, ConstraintOf
<1>a. ConstraintsMap[r].sense # "range"
  BY <1>5 DEF Senses
<1>6. ConstraintsMap' = [ConstraintsMap EXCEPT ![r] = ConstraintOf(rows'[r])]
  <2>1. ConstraintsMap' = [q \in DOMAIN rows' |-> ConstraintOf(rows'[q])]
    BY DEF ConstraintsMap
  <2> QED BY <1>1, <1>3, <2>1 DEF ConstraintsMap
<1>7. CASE x \in Rhs /\ SetConstraintRhs(r, x)
  <2>1. rows'[r] = RowOf(s, x)
    <3>1. rows'[r] = RowOf(BoundsToSense(rows[r]), x)
      BY <1>7, SetRow
    <3> QED BY <1>4, <3>1, RowRoundTrip
  <2>2. ConstraintOf(rows'[r]) = [sense |-> s, rhs |-> x]
    BY <1>7, <2>1, RowRoundTrip DEF ConstraintOf
  <2>3. ConstraintsMap' = [ConstraintsMap EXCEPT ![r].rhs = x]
    <3>1. [ConstraintsMap[r] EXCEPT !.rhs = x] = [sense |-> s, rhs |-> x]
      BY <1>5
    <3> QED BY <1>3, <1>6, <2>2, <3>1
  <2>4. Promise!SetConstraintRhs(r, x)
    BY <1>a, <1>2, <1>7, <2>3 DEF Promise!SetConstraintRhs, SetConstraintRhs,
       VariablesMap, ConstraintsMap, ConstraintOf
  <2> QED BY <1>3, <1>7, <2>4 DEF Promise!Next, ConstraintsMap, ConstraintOf
<1>8. CASE x \in Senses /\ SetConstraintSense(r, x)
  <2>1. rows'[r] = RowOf(x, b)
    <3>1. rows'[r] = RowOf(x, BoundsToRhs(rows[r]))
      BY <1>8, SetRow
    <3> QED BY <1>4, <3>1, RowRoundTrip
  <2>2. ConstraintOf(rows'[r]) = [sense |-> x, rhs |-> b]
    BY <1>8, <2>1, RowRoundTrip DEF ConstraintOf
  <2>3. ConstraintsMap' = [ConstraintsMap EXCEPT ![r].sense = x]
    <3>1. [ConstraintsMap[r] EXCEPT !.sense = x] = [sense |-> x, rhs |-> b]
      BY <1>5
    <3> QED BY <1>3, <1>6, <2>2, <3>1
  <2>4. Promise!SetConstraintSense(r, x)
    BY <1>a, <1>2, <1>8, <2>3 DEF Promise!SetConstraintSense, SetConstraintSense,
       VariablesMap, ConstraintsMap, ConstraintOf
  <2> QED BY <1>3, <1>8, <2>4 DEF Promise!Next, ConstraintsMap, ConstraintOf, Senses, Promise!Senses
<1> QED BY <1>7, <1>8
----------------------------------------------------------------------------
\* The empty model is the empty promise.
LEMMA PromiseInit == Init => Promise!Init
BY DEF Init, Promise!Init, InitRemapping

\* Every step of the model is a step of the interface.
LEMMA PromiseNext == IInv /\ [Next]_vars => [Promise!Next]_(Promise!vars)
<1> SUFFICES ASSUME IInv, [Next]_vars PROVE [Promise!Next]_(Promise!vars)
  OBVIOUS
<1>1. CASE UNCHANGED vars
  <2>1. VariablesMap' = VariablesMap
    BY <1>1 DEF vars, remapping, VariablesMap, NativeId
  <2>2. ConstraintsMap' = ConstraintsMap
    BY <1>1, RowsUnchanged DEF vars
  <2>3. call' = call
    BY <1>1 DEF vars
  <2> QED BY <2>1, <2>2, <2>3 DEF Promise!vars, VariablesMap, ConstraintsMap, ConstraintOf
<1>2. CASE Next
  <2>1. ASSUME NEW p \in Params, AddVariable(p) PROVE Promise!Next
    BY <2>1, AddVariableStep
  <2>2. ASSUME NEW p \in Params, NEW e \in [1..Len(rows) -> Coefs], AddColumn(p, e)
        PROVE  Promise!Next
    BY <2>2, AddColumnStep
  <2>3. ASSUME AddVariableFails PROVE Promise!Next
    BY <2>3, AddVariableFailsStep
  <2>4. ASSUME NEW p \in Params, NEW n \in 1..MaxColumns, AddVariables(n, p)
        PROVE  Promise!Next
    BY <2>4, AddVariablesStep
  <2>5. ASSUME NEW doomed \in Removals, RemoveVariables(doomed) PROVE Promise!Next
    BY <2>5, RemoveVariablesStep
  <2>6. ASSUME NEW h \in held, NEW b \in Bounds,
               SetVariableLowerBound(h, b) \/ SetVariableUpperBound(h, b)
        PROVE  Promise!Next
    BY <2>6, SetterStep
  <2>7. ASSUME NEW h \in held, NEW c \in Coefs, SetObjectiveCoefficient(h, c)
        PROVE  Promise!Next
    BY <2>7, SetterStep
  <2>8. ASSUME NEW terms \in Exprs, SetObjective(terms) \/ AddObjective(terms)
        PROVE  Promise!Next
    BY <2>8, ObjectiveStep
  <2>9. ASSUME NEW m \in 0..MaxRows, NEW lcs \in [1..m -> Constraints], AddConstraints(lcs)
        PROVE  Promise!Next
    BY <2>9, AddConstraintsStep
  <2>10. ASSUME NEW r \in DOMAIN rows, NEW b \in Rhs, SetConstraintRhs(r, b)
         PROVE  Promise!Next
    BY <2>10, SetConstraintStep
  <2>11. ASSUME NEW r \in DOMAIN rows, NEW s \in Senses, SetConstraintSense(r, s)
         PROVE  Promise!Next
    BY <2>11, SetConstraintStep
  <2>12. Promise!Next
    BY <1>2, <2>1, <2>2, <2>3, <2>4, <2>5, <2>6, <2>7, <2>8, <2>9, <2>10, <2>11 DEF Next
  <2> QED BY <2>12
<1> QED BY <1>1, <1>2

\* highs_base implements the interface: whatever the numbers of columns, handles,
\* rows and terms and whatever the coefficients, no sequence of additions,
\* refused additions, removals and updates shows a client anything that a model
\* which knows only handles would not show it.
THEOREM HighsKeepsPromise == Spec => KeepsPromise
<1>1. Spec => []IInv
  BY InitIInv, NextIInv, PTL DEF Spec
<1>2. Spec => Promise!Init /\ [][Promise!Next]_(Promise!vars)
  BY <1>1, PromiseInit, PromiseNext, PTL DEF Spec
<1> QED BY <1>2 DEF KeepsPromise, Promise!Spec
=============================================================================
