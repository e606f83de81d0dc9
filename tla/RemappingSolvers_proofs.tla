----------------------- MODULE RemappingSolvers_proofs -----------------------
(***************************************************************************)
(* What holds of the Gurobi model and of the CPLEX model, for every value  *)
(* of the constants: with clients that are not careless a handle leads to  *)
(* its column and the column back to it, and the columns are counted.      *)
(***************************************************************************)
EXTENDS MCRemappingSolvers, RemappingModel_proofs

----------------------------------------------------------------------------
(* The models with handle maps: the facts about the maps are those of the  *)
(* proofs about RemappingModel.                                            *)

\* The columns are a sequence, of whatever.
IsSequence(s) == \E S : s \in Seq(S)

\* Sequences stay sequences.
LEMMA SequencesJoined ==
    ASSUME NEW s, IsSequence(s), NEW n \in Nat, NEW e
    PROVE  /\ Len(s) \in Nat /\ DOMAIN s = 1..Len(s)
           /\ IsSequence(s \o [k \in 1..n |-> e]) /\ Len(s \o [k \in 1..n |-> e]) = Len(s) + n
           /\ IsSequence(s \o <<e>>) /\ Len(s \o <<e>>) = Len(s) + 1
           /\ IsSequence(Append(s, e)) /\ Len(Append(s, e)) = Len(s) + 1
<1>1. PICK S : s \in Seq(S)
  BY DEF IsSequence
<1> DEFINE T == S \cup {e}
           more == [k \in 1..n |-> e]
<1>2. Len(s) \in Nat /\ s \in [1..Len(s) -> S]
  BY <1>1, LenProperties
<1>3. s \in Seq(T)
  <2>1. s \in [1..Len(s) -> T]
    BY <1>2
  <2> HIDE DEF T
  <2> QED BY <1>2, <2>1, SeqDef
<1>4. more \in Seq(T) /\ Len(more) = n
  BY SeqIntro
<1>5. <<e>> \in Seq(T) /\ Len(<<e>>) = 1 /\ e \in T
  OBVIOUS
<1> HIDE DEF T, more
<1>6. s \o more \in Seq(T) /\ Len(s \o more) = Len(s) + n
  BY <1>3, <1>4, ConcatProperties
<1>7. s \o <<e>> \in Seq(T) /\ Len(s \o <<e>>) = Len(s) + 1
  BY <1>3, <1>5, ConcatProperties
<1>8. Append(s, e) \in Seq(T) /\ Len(Append(s, e)) = Len(s) + 1
  BY <1>3, <1>5, AppendProperties
<1> QED BY <1>2, <1>6, <1>7, <1>8 DEF IsSequence, more

LEMMA SequenceEdited ==
    ASSUME NEW s, IsSequence(s), NEW t, DOMAIN t = DOMAIN s, t = [i \in DOMAIN t |-> t[i]]
    PROVE  IsSequence(t) /\ Len(t) = Len(s)
<1>1. PICK S : s \in Seq(S)
  BY DEF IsSequence
<1>2. Len(s) \in Nat /\ DOMAIN s = 1..Len(s)
  BY <1>1, LenProperties
<1> DEFINE T == {t[i] : i \in DOMAIN t}
<1>3. t \in [1..Len(s) -> T]
  BY <1>2
<1> HIDE DEF T
<1>4. t \in Seq(T) /\ Len(t) = Len(s)
  BY <1>2, <1>3, SeqIntro
<1> QED BY <1>4 DEF IsSequence

LEMMA SequenceCompacted ==
    ASSUME NEW s, IsSequence(s), NEW D, \A d \in D : d \in 1..Len(s)
    PROVE  IsSequence(Compacted(s, D)) /\ Len(Compacted(s, D)) = Len(s) - Cardinality(D)
<1>1. PICK S : s \in Seq(S)
  BY DEF IsSequence
<1> QED BY <1>1, CompactedColumns DEF IsSequence
\* What is kept of a Gurobi or CPLEX model: handles and columns lead to each other.
RemappedInv ==
    /\ IsSequence(cols)
    /\ Agree(remap_ids, native_ids_map, handle_ids_map, free_var_handles, Len(cols), held)

\* A call that changes no map and no number of columns.
LEMMA RemappedKept ==
    ASSUME RemappedInv, UNCHANGED remapping, held' = held,
           DOMAIN cols' = DOMAIN cols, cols' = [i \in DOMAIN cols' |-> cols'[i]]
    PROVE  RemappedInv' /\ Len(cols') = Len(cols)
<1>1. IsSequence(cols') /\ Len(cols') = Len(cols)
  BY SequenceEdited DEF RemappedInv
<1> QED BY <1>1 DEF RemappedInv, remapping

\* A call that edits columns in place.
ColumnsEdited == DOMAIN cols' = DOMAIN cols /\ cols' = [i \in DOMAIN cols' |-> cols'[i]]

LEMMA ColumnsUnchanged ==
    ASSUME RemappedInv, UNCHANGED cols PROVE ColumnsEdited
<1>1. PICK S : cols \in Seq(S)
  BY DEF RemappedInv, IsSequence
<1>2. cols \in [1..Len(cols) -> S]
  BY <1>1, LenProperties
<1> QED BY <1>2 DEF ColumnsEdited

\* A column is added, and the client may be given its handle or not.
LEMMA RemappedAddOne ==
    ASSUME RemappedInv, NEW n, n = Len(cols), NEW h, h = NewHandleId(n + 1),
           NewVarHandle(n + 1, ExtendedHandleIdsMap(1)),
           IsSequence(cols'), Len(cols') = n + 1, held' = held \/ held' = held \cup {h}
    PROVE  RemappedInv'
<1>1. SUFFICES ASSUME NEW H, H = held PROVE RemappedInv'
  OBVIOUS
<1>2. Agree(remap_ids, native_ids_map, handle_ids_map, free_var_handles, n, H)
  BY <1>1 DEF RemappedInv
<1>3. /\ Agree(remap_ids', native_ids_map', handle_ids_map', free_var_handles', n + 1, H)
      /\ Agree(remap_ids', native_ids_map', handle_ids_map', free_var_handles', n + 1, H \cup {h})
  BY <1>2, NewVarHandleAgrees
<1> QED BY <1>1, <1>3 DEF RemappedInv

\* Columns are added, with handles that follow each other.
LEMMA RemappedAddMany ==
    ASSUME RemappedInv, NEW n, n = Len(cols), NEW first, first = FirstOfHandleRange(n),
           NEW count \in Nat, NEW extended, remap_ids => extended = ExtendedHandleIdsMap(count),
           NewVarHandleRange(n, count, extended),
           IsSequence(cols'), Len(cols') = n + count,
           held' = held \cup first..(first + count - 1)
    PROVE  RemappedInv'
<1>1. SUFFICES ASSUME NEW H, H = held PROVE RemappedInv'
  OBVIOUS
<1>2. Agree(remap_ids, native_ids_map, handle_ids_map, free_var_handles, n, H)
  BY <1>1 DEF RemappedInv
<1>3. Agree(remap_ids', native_ids_map', handle_ids_map', free_var_handles', n + count,
            H \cup first..(first + count - 1))
  BY <1>2, NewVarHandleRangeAgrees
<1> QED BY <1>1, <1>3 DEF RemappedInv

\* Columns are removed, by their handles.
LEMMA RemappedRemove ==
    ASSUME RemappedInv, NEW n, n = Len(cols), NEW m, NEW doomed, Doomed(doomed, m, held),
           NEW D, D = {NativeId(doomed[k]) : k \in DOMAIN doomed},
           RemoveHandles(doomed, n, D) \/ TailRemoved(n, m, D),
           cols' = Compacted(cols, D), held' = held \ {doomed[k] : k \in DOMAIN doomed}
    PROVE  RemappedInv' /\ Len(cols') = n - m /\ m = Len(doomed)
<1>1. SUFFICES ASSUME NEW H, H = held, NEW X, X = {doomed[k] : k \in DOMAIN doomed}
               PROVE  RemappedInv' /\ Len(cols') = n - m /\ m = Len(doomed)
  OBVIOUS
<1>2. Agree(remap_ids, native_ids_map, handle_ids_map, free_var_handles, n, H)
      /\ Doomed(doomed, m, H)
  BY <1>1 DEF RemappedInv
<1>3. (\A d \in D : d \in 1..n) /\ Cardinality(D) = m /\ Len(doomed) = m
  BY <1>2, RemovedAgree
<1>4. IsSequence(cols') /\ Len(cols') = n - m
  BY <1>3, SequenceCompacted DEF RemappedInv
<1>5. Agree(remap_ids', native_ids_map', handle_ids_map', free_var_handles', n - m, H \ X)
  <2>1. CASE RemoveHandles(doomed, n, D)
    BY <1>1, <1>2, <2>1, RemoveHandlesAgree
  <2>2. CASE TailRemoved(n, m, D)
    BY <1>1, <1>2, <2>2, TailRemovalAgree
  <2> QED BY <2>1, <2>2
<1> QED BY <1>1, <1>3, <1>4, <1>5 DEF RemappedInv

----------------------------------------------------------------------------
(* Gurobi *)

\* The handle maps of Gurobi's model are those of remapping_model_base.
LEMMA GurobiMaps ==
    ASSUME NEW n, NEW k, NEW e, NEW s, NEW D, NEW doomed
    PROVE  /\ Gurobi!NewHandleId(n) = NewHandleId(n)
           /\ Gurobi!ExtendedHandleIdsMap(n) = ExtendedHandleIdsMap(n)
           /\ Gurobi!NewVarHandle(n, e) = NewVarHandle(n, e)
           /\ Gurobi!FirstOfHandleRange(n) = FirstOfHandleRange(n)
           /\ Gurobi!NewVarHandleRange(n, k, e) = NewVarHandleRange(n, k, e)
           /\ Gurobi!NativeId(n) = NativeId(n)
           /\ Gurobi!Compacted(s, D) = Compacted(s, D)
           /\ Gurobi!RemoveHandles(doomed, n, D) = RemoveHandles(doomed, n, D)
           /\ Gurobi!remapping = remapping
           /\ Gurobi!Cardinality(s) = Cardinality(s)
<1>0. ASSUME NEW S PROVE Gurobi!Cardinality(S) = Cardinality(S)
  BY DEF Gurobi!Cardinality, Cardinality
<1>1. /\ Gurobi!NewHandleId(n) = NewHandleId(n)
      /\ Gurobi!ExtendedHandleIdsMap(n) = ExtendedHandleIdsMap(n)
      /\ Gurobi!FirstOfHandleRange(n) = FirstOfHandleRange(n)
      /\ Gurobi!NativeId(n) = NativeId(n)
      /\ Gurobi!remapping = remapping
  BY DEF Gurobi!NewHandleId, NewHandleId, Gurobi!ExtendedHandleIdsMap, ExtendedHandleIdsMap,
     Gurobi!FirstOfHandleRange, FirstOfHandleRange, Gurobi!NativeId, NativeId,
     Gurobi!remapping, remapping
<1>2. Gurobi!NewVarHandle(n, e) = NewVarHandle(n, e)
  BY <1>1 DEF Gurobi!NewVarHandle, NewVarHandle, Gurobi!NewHandleId, NewHandleId, Gurobi!remapping, remapping
<1>3. Gurobi!NewVarHandleRange(n, k, e) = NewVarHandleRange(n, k, e)
  BY <1>1 DEF Gurobi!NewVarHandleRange, NewVarHandleRange, Gurobi!FirstOfHandleRange, FirstOfHandleRange, Gurobi!remapping, remapping
<1>4. ASSUME NEW i, NEW E, NEW m PROVE Gurobi!OldId(i, m, E) = OldId(i, m, E)
  BY <1>0, Zenon DEF Gurobi!OldId, OldId, Gurobi!NewId, NewId, Gurobi!Below, Below
<1>5. Gurobi!Compacted(s, D) = Compacted(s, D)
  BY <1>0, <1>4 DEF Gurobi!Compacted, Compacted
<1>6. ASSUME NEW h PROVE Gurobi!ColumnsOf(h, n, D) = ColumnsOf(h, n, D)
  BY DEF Gurobi!ColumnsOf, ColumnsOf, Gurobi!HandleIds, HandleIds
<1>7. ASSUME NEW i PROVE Gurobi!NewId(i, D) = NewId(i, D)
  BY <1>0 DEF Gurobi!NewId, NewId, Gurobi!Below, Below
<1>8. Gurobi!CompactedNativeIds(n, D) = CompactedNativeIds(n, D)
  BY <1>0, <1>1, Zenon DEF Gurobi!CompactedNativeIds, CompactedNativeIds, Gurobi!NativeIds, NativeIds,
     Gurobi!ColumnsOf, ColumnsOf, Gurobi!HandleIds, HandleIds, Gurobi!NewId, NewId,
     Gurobi!Below, Below, Gurobi!Cardinality, Cardinality
<1>9. Gurobi!CompactedHandleIds(n, D) = CompactedHandleIds(n, D)
  <2>1. Gurobi!HandleIds(n) = HandleIds(n)
    BY DEF Gurobi!HandleIds, HandleIds
  <2> QED BY <1>0, <1>4, <2>1, Zenon DEF Gurobi!CompactedHandleIds, CompactedHandleIds
<1>10. Gurobi!RemoveHandles(doomed, n, D) = RemoveHandles(doomed, n, D)
  BY <1>8, <1>9, Zenon DEF Gurobi!RemoveHandles, RemoveHandles
<1> QED BY <1>0, <1>1, <1>2, <1>3, <1>5, <1>10

\* The model counts the columns itself, the slacks of ranges included.
GurobiInv == RemappedInv /\ num_var_native_ids = Len(cols)

LEMMA GurobiAddOne ==
    ASSUME GurobiInv, NEW p, NEW type, NEW coefs, NEW h, Gurobi!AddOne(p, type, coefs, h)
    PROVE  GurobiInv'
<1>1. SUFFICES ASSUME NEW n, n = Len(cols) PROVE GurobiInv'
  OBVIOUS
<1>2. num_var_native_ids = n /\ RemappedInv /\ n \in Nat
  BY <1>1, SequencesJoined DEF GurobiInv, RemappedInv
<1>3. /\ h = NewHandleId(n + 1) /\ NewVarHandle(n + 1, ExtendedHandleIdsMap(1))
      /\ num_var_native_ids' = n + 1 /\ held' = held \cup {h}
      /\ cols' = cols \o <<Gurobi!NewCol(p, type, coefs)>>
  <2>1. Gurobi!NewVarHandle(n + 1, Gurobi!ExtendedHandleIdsMap(1))
    BY <1>2 DEF Gurobi!AddOne
  <2>2. NewVarHandle(n + 1, ExtendedHandleIdsMap(1))
    BY <2>1, GurobiMaps
  <2>3. /\ h = Gurobi!NewHandleId(n + 1)
        /\ num_var_native_ids' = n + 1 /\ held' = held \cup {h}
        /\ cols' = cols \o <<Gurobi!NewCol(p, type, coefs)>>
    BY <1>2 DEF Gurobi!AddOne, Gurobi!AppendCols
  <2> QED BY <2>2, <2>3, GurobiMaps
<1>4. IsSequence(cols') /\ Len(cols') = n + 1
  BY <1>1, <1>2, <1>3, SequencesJoined DEF RemappedInv
<1>5. RemappedInv'
  BY <1>1, <1>2, <1>3, <1>4, RemappedAddOne
<1> QED BY <1>3, <1>4, <1>5 DEF GurobiInv

LEMMA GurobiAddMany ==
    ASSUME GurobiInv, NEW count \in Nat, NEW p, NEW type, NEW extended,
           remap_ids => extended = ExtendedHandleIdsMap(count),
           Gurobi!AddMany(count, p, type, extended)
    PROVE  GurobiInv'
<1>1. SUFFICES ASSUME NEW n, n = Len(cols), NEW first, first = FirstOfHandleRange(n)
               PROVE  GurobiInv'
  OBVIOUS
<1>2. num_var_native_ids = n /\ RemappedInv
  BY <1>1 DEF GurobiInv
<1>3. /\ NewVarHandleRange(n, count, extended)
      /\ num_var_native_ids' = n + count /\ held' = held \cup first..(first + count - 1)
      /\ cols' = cols \o [k \in 1..count |-> Gurobi!NewCol(p, type, Gurobi!Zeros)]
  BY <1>1, <1>2, GurobiMaps DEF Gurobi!AddMany, Gurobi!AppendCols
<1>4. IsSequence(cols') /\ Len(cols') = n + count
  BY <1>1, <1>2, <1>3, SequencesJoined DEF RemappedInv
<1>5. RemappedInv'
  BY <1>1, <1>2, <1>3, <1>4, RemappedAddMany
<1> QED BY <1>3, <1>4, <1>5 DEF GurobiInv

LEMMA GurobiRemove ==
    ASSUME GurobiInv, NEW doomed \in Gurobi!Removals, Gurobi!RemoveVariables(doomed)
    PROVE  GurobiInv'
<1>1. SUFFICES ASSUME NEW n, n = Len(cols), NEW m, m = Len(doomed),
                      NEW D, D = {NativeId(doomed[k]) : k \in DOMAIN doomed}
               PROVE  GurobiInv'
  OBVIOUS
<1>2. num_var_native_ids = n /\ RemappedInv
  BY <1>1 DEF GurobiInv
<1>3. Doomed(doomed, m, held)
  <2>1. PICK k \in 1..Cardinality(held) :
           doomed \in [1..k -> held] /\ \A i, j \in 1..k : doomed[i] = doomed[j] => i = j
    BY GurobiMaps DEF Gurobi!Removals
  <2>2. k \in Nat
    BY HeldFinite DEF GurobiInv, RemappedInv
  <2>3. m = k
    BY <1>1, <2>1, <2>2, SeqIntro
  <2> QED BY <2>1, <2>2, <2>3 DEF Doomed
<1>4. D = {Gurobi!NativeId(doomed[k]) : k \in DOMAIN doomed}
  BY <1>1, GurobiMaps
<1>5. /\ cols' = Compacted(cols, D)
      /\ num_var_native_ids' = n - m /\ held' = held \ {doomed[k] : k \in DOMAIN doomed}
      /\ RemoveHandles(doomed, n, D) \/ TailRemoved(n, m, D)
  <2>1. /\ cols' = Gurobi!Compacted(cols, D)
        /\ num_var_native_ids' = n - m /\ held' = held \ {doomed[k] : k \in DOMAIN doomed}
        /\ IF remap_ids \/ \E d \in D : d <= n - m THEN Gurobi!RemoveHandles(doomed, n, D)
           ELSE UNCHANGED Gurobi!remapping
    BY <1>1, <1>2, <1>4 DEF Gurobi!RemoveVariables
  <2>2. cols' = Compacted(cols, D)
    BY <2>1, GurobiMaps
  <2>3. RemoveHandles(doomed, n, D) \/ TailRemoved(n, m, D)
    BY <2>1, GurobiMaps DEF TailRemoved, Gurobi!remapping, remapping
  <2> QED BY <2>1, <2>2, <2>3
<1>6. RemappedInv' /\ Len(cols') = n - m
  BY <1>1, <1>2, <1>3, <1>5, RemappedRemove
<1> QED BY <1>5, <1>6 DEF GurobiInv

LEMMA GurobiAddRange ==
    ASSUME GurobiInv, NEW e, NEW lb, NEW ub, Gurobi!AddRangedConstraint(e, lb, ub)
    PROVE  GurobiInv'
<1>1. SUFFICES ASSUME NEW n, n = Len(cols), NEW h, h = NewHandleId(n + 1) PROVE GurobiInv'
  OBVIOUS
<1>2. num_var_native_ids = n /\ RemappedInv
  BY <1>1 DEF GurobiInv
<1> DEFINE widened == [i \in DOMAIN cols |-> [cols[i] EXCEPT
                         !.coefs = Append(@, Gurobi!NativeCoefficient(e.terms, i))]]
           slack == Gurobi!Slack(lb, ub)
<1>3. /\ NewVarHandle(n + 1, ExtendedHandleIdsMap(1))
      /\ num_var_native_ids' = n + 1 /\ held' = held /\ cols' = Append(widened, slack)
  <2>1. /\ Gurobi!NewVarHandle(n + 1, Gurobi!ExtendedHandleIdsMap(1))
        /\ num_var_native_ids' = n + 1 /\ held' = held
    BY <1>2 DEF Gurobi!AddRangedConstraint
  <2>2. cols' = Append(widened, slack)
    BY <1>2 DEF Gurobi!AddRangedConstraint
  <2>3. NewVarHandle(n + 1, ExtendedHandleIdsMap(1))
    BY <2>1, GurobiMaps
  <2> QED BY <2>1, <2>2, <2>3
<1>4. IsSequence(widened) /\ Len(widened) = n
  <2>1. DOMAIN widened = DOMAIN cols /\ widened = [i \in DOMAIN widened |-> widened[i]]
    OBVIOUS
  <2> HIDE DEF widened
  <2> QED BY <1>1, <1>2, <2>1, SequenceEdited DEF RemappedInv
<1> HIDE DEF widened, slack
<1>5. IsSequence(cols') /\ Len(cols') = n + 1
  BY <1>3, <1>4, SequencesJoined
<1>6. RemappedInv'
  BY <1>1, <1>2, <1>3, <1>5, RemappedAddOne
<1> QED BY <1>3, <1>5, <1>6 DEF GurobiInv

LEMMA GurobiKept ==
    ASSUME GurobiInv, UNCHANGED remapping, held' = held,
           num_var_native_ids' = num_var_native_ids, ColumnsEdited
    PROVE  GurobiInv'
<1>1. RemappedInv' /\ Len(cols') = Len(cols)
  BY RemappedKept DEF GurobiInv, ColumnsEdited
<1> QED BY <1>1 DEF GurobiInv

LEMMA GurobiNextInv ==
    ASSUME GurobiInv, ~Careless, [Gurobi!Next]_(Gurobi!gurobiVars)
    PROVE  GurobiInv'
<1> USE DEF Gurobi!handles, Gurobi!counters, Gurobi!instance, Gurobi!vars, Gurobi!remapping, remapping
<1>0. RemappedInv
  BY DEF GurobiInv
<1>1. CASE Gurobi!Query
  BY <1>0, <1>1, GurobiKept, ColumnsUnchanged DEF Gurobi!Query
<1>2. ASSUME NEW k, Gurobi!SetOffset(k) PROVE GurobiInv'
  BY <1>0, <1>2, GurobiKept, ColumnsUnchanged DEF Gurobi!SetOffset, Gurobi!SetObjectiveOffset
<1>3. ASSUME NEW m, Gurobi!SetDirection(m), UNCHANGED <<Gurobi!handles, Gurobi!counters, seen>>
      PROVE  GurobiInv'
  BY <1>0, <1>3, GurobiKept, ColumnsUnchanged DEF Gurobi!SetDirection
<1>4. ASSUME NEW e, Gurobi!SetObjective(e) \/ Gurobi!AddObjective(e) PROVE GurobiInv'
  <2>1. ColumnsEdited
    BY <1>4 DEF ColumnsEdited, Gurobi!SetObjective, Gurobi!AddObjective, Gurobi!PutObjective
  <2> QED BY <1>4, <2>1, GurobiKept DEF Gurobi!SetObjective, Gurobi!AddObjective
<1>5. ASSUME NEW h, NEW c, Gurobi!SetObjectiveCoef(h, c) PROVE GurobiInv'
  <2>1. ColumnsEdited
    BY <1>5 DEF ColumnsEdited, Gurobi!SetObjectiveCoef, Gurobi!ChangeNative
  <2> QED BY <1>5, <2>1, GurobiKept DEF Gurobi!SetObjectiveCoef
<1>6. ASSUME NEW t, NEW p, Gurobi!AddVariable(p, t) PROVE GurobiInv'
  BY <1>6, GurobiAddOne DEF Gurobi!AddVariable
<1>7. ASSUME NEW p, NEW entries, Gurobi!AddColumn(p, entries) PROVE GurobiInv'
  BY <1>7, GurobiAddOne DEF Gurobi!AddColumn
<1>8. ASSUME NEW n \in 1..MaxColumns, NEW t, NEW p, Gurobi!AddVariables(n, p, t) PROVE GurobiInv'
  <2>1. n \in Nat /\ Gurobi!ExtendedHandleIdsMap(n) = ExtendedHandleIdsMap(n)
    BY GurobiMaps, InstanceBoundsAssumption
  <2>2. Gurobi!AddMany(n, p, t, Gurobi!ExtendedHandleIdsMap(n))
    BY <1>8 DEF Gurobi!AddVariables
  <2> QED BY <2>1, <2>2, GurobiAddMany
<1>9. ASSUME NEW n \in 1..MaxColumns, Gurobi!AddBinaryVariables(n) PROVE GurobiInv'
  <2>1. n \in Nat /\ ~remap_ids
    BY <1>9, InstanceBoundsAssumption DEF Gurobi!AddBinaryVariables
  <2>2. Gurobi!AddMany(n, Gurobi!BinaryParams, "B", handle_ids_map)
    BY <1>9 DEF Gurobi!AddBinaryVariables
  <2> QED BY <2>1, <2>2, GurobiAddMany
<1>10. ASSUME NEW doomed \in Gurobi!Removals, Gurobi!RemoveVariables(doomed) PROVE GurobiInv'
  BY <1>10, GurobiRemove
<1>11. ASSUME NEW h, NEW side, NEW b, Gurobi!SetVariableBound(h, side, b) PROVE GurobiInv'
  <2>1. ColumnsEdited
    BY <1>11 DEF ColumnsEdited, Gurobi!SetVariableBound, Gurobi!ChangeNative
  <2> QED BY <1>11, <2>1, GurobiKept DEF Gurobi!SetVariableBound
<1>12. ASSUME NEW h, NEW t, Gurobi!SetType(h, t) PROVE GurobiInv'
  <2>1. ColumnsEdited
    BY <1>12 DEF ColumnsEdited, Gurobi!SetType
  <2> QED BY <1>12, <2>1, GurobiKept DEF Gurobi!SetType
<1>13. ASSUME NEW lcs, Gurobi!AddConstraints(lcs) PROVE GurobiInv'
  <2>1. ColumnsEdited
    BY <1>13 DEF ColumnsEdited, Gurobi!AddConstraints, Gurobi!AppendRows
  <2> QED BY <1>13, <2>1, GurobiKept DEF Gurobi!AddConstraints
<1>14. CASE Gurobi!AddConstraintRefused
  BY <1>0, <1>14, GurobiKept, ColumnsUnchanged DEF Gurobi!AddConstraintRefused
<1>15. ASSUME NEW e, NEW lb, NEW ub, Gurobi!AddRangedConstraint(e, lb, ub) PROVE GurobiInv'
  BY <1>15, GurobiAddRange
<1>16. ASSUME NEW k, NEW b, Gurobi!SetConstraintRhs(k, b) \/ Gurobi!SetConstraintSense(k, b)
       PROVE  GurobiInv'
  BY <1>0, <1>16, GurobiKept, ColumnsUnchanged DEF Gurobi!SetConstraintRhs, Gurobi!SetConstraintSense
<1>17. ASSUME NEW k, Gurobi!UnknownConstraint(k) PROVE GurobiInv'
  BY <1>0, <1>17, GurobiKept, ColumnsUnchanged DEF Gurobi!UnknownConstraint
<1>18. CASE UNCHANGED Gurobi!gurobiVars
  BY <1>0, <1>18, GurobiKept, ColumnsUnchanged DEF Gurobi!gurobiVars
<1> QED BY <1>1, <1>2, <1>3, <1>4, <1>5, <1>6, <1>7, <1>8, <1>9, <1>10, <1>11, <1>12, <1>13,
           <1>14, <1>15, <1>16, <1>17, <1>18 DEF Gurobi!Next

----------------------------------------------------------------------------
(* CPLEX *)

\* The greatest of a few numbers.
LEMMA GreatestOfFew ==
    ASSUME NEW a \in Int, NEW b \in Int, NEW c \in Int
    PROVE  /\ Max({a, b, c}) \in {a, b, c} /\ Max({a, b}) \in {a, b}
           /\ a <= Max({a, b, c}) /\ b <= Max({a, b, c}) /\ c <= Max({a, b, c})
           /\ a <= Max({a, b}) /\ b <= Max({a, b})
<1>1. ASSUME NEW x \in Int, NEW y \in Int, NEW z \in Int, NEW S, S = {x, y, z}
      PROVE  Max(S) \in S /\ \A w \in S : Max(S) >= w
  <2>1. \E m \in S : \A w \in S : m >= w
    <3>1. CASE x >= y /\ x >= z
      BY <1>1, <3>1
    <3>2. CASE y >= x /\ y >= z
      BY <1>1, <3>2
    <3>3. CASE z >= x /\ z >= y
      BY <1>1, <3>3
    <3> QED BY <3>1, <3>2, <3>3
  <2> QED BY <2>1 DEF Max
<1>2. {a, b} = {a, b, b}
  OBVIOUS
<1>3. /\ Max({a, b}) \in {a, b} /\ \A w \in {a, b} : Max({a, b}) >= w
  BY <1>1, <1>2
<1>4. /\ Max({a, b, c}) \in {a, b, c} /\ \A w \in {a, b, c} : Max({a, b, c}) >= w
  BY <1>1
<1>5. Max({a, b}) \in Int /\ Max({a, b, c}) \in Int
  BY <1>3, <1>4
<1> QED BY <1>3, <1>4, <1>5

\* Two handles are taken from the free list, or made, for one column: what is left of
\* the list is its first l entries.
TwoTaken(nat, free, first, second, l) ==
    LET m == Len(free) IN
    /\ m = 0 => first = Len(nat) + 1 /\ second = Len(nat) + 2 /\ l = 0
    /\ m = 1 => first = free[1] /\ second = Len(nat) + 1 /\ l = 0
    /\ m >= 2 => first = free[m] /\ second = free[m - 1] /\ l = m - 2

\* Nobody holds them, no column leads to them and they are not on the list any more.
LEMMA TwoHandlesTaken ==
    ASSUME NEW nat, NEW hs, NEW free, NEW n, NEW H, AgreeMaps(nat, hs, free, n, H),
           NEW first, NEW second, NEW l, TwoTaken(nat, free, first, second, l)
    PROVE  /\ l \in Nat /\ l <= Len(free) /\ Len(free) \in Nat /\ DOMAIN free = 1..Len(free)
           /\ first \in Ids /\ second \in Ids /\ first >= 1 /\ second >= 1
           /\ \A g \in {first, second} :
                 /\ g \notin H /\ \A i \in 1..n : hs[i] # g
                 /\ \A k \in 1..l : free[k] # g
           /\ \A t \in {Len(nat), first, second} :
                 \A g \in 1..t : g \notin {first, second} => g \in 1..Len(nat)
<1> DEFINE m == Len(free)
           Taken(g) == /\ g \in Ids /\ g >= 1 /\ g \notin H /\ \A i \in 1..n : hs[i] # g
                       /\ \A k \in 1..l : free[k] # g
<1>1. /\ nat \in Seq(Ids) /\ free \in Seq(Ids)
      /\ \A g \in H : g \in DOMAIN nat
      /\ \A i \in 1..n : hs[i] \in DOMAIN nat /\ \A k \in DOMAIN free : free[k] # hs[i]
      /\ \A k \in DOMAIN free : free[k] \in DOMAIN nat /\ free[k] \notin H
      /\ \A j, k \in DOMAIN free : free[j] = free[k] => j = k
  BY DEF AgreeMaps
<1>2. /\ m \in Nat /\ DOMAIN free = 1..m /\ Len(nat) \in Nat /\ DOMAIN nat = 1..Len(nat)
      /\ \A k \in 1..m : free[k] \in Ids
  BY <1>1, LenProperties
<1> HIDE DEF m
<1>3. l \in Nat /\ l <= m
  <2>1. (m = 0 => l = 0) /\ (m = 1 => l = 0) /\ (m >= 2 => l = m - 2)
    BY DEF TwoTaken, m
  <2> QED BY <1>2, <2>1
<1>4. ASSUME NEW g \in Nat, g > Len(nat) PROVE Taken(g)
  <2>1. g \in Ids /\ g >= 1
    BY <1>2, <1>4 DEF Ids
  <2>2. g \notin DOMAIN nat
    BY <1>2, <1>4
  <2>3. \A k \in 1..l : k \in DOMAIN free
    BY <1>2, <1>3
  <2> QED BY <1>1, <2>1, <2>2, <2>3
<1>5. ASSUME NEW j \in 1..m, j > l PROVE Taken(free[j])
  <2>1. \A k \in 1..l : k \in DOMAIN free /\ k # j
    BY <1>2, <1>3, <1>5
  <2>2. free[j] \in Ids /\ free[j] >= 1
    BY <1>1, <1>2
  <2> QED BY <1>1, <1>2, <2>1, <2>2
<1>6. ASSUME NEW k \in 1..m PROVE free[k] \in 1..Len(nat)
  BY <1>1, <1>2
<1> HIDE DEF Taken
<1>7. SUFFICES /\ Taken(first) /\ Taken(second)
               /\ \A t \in {Len(nat), first, second} :
                     \A g \in 1..t : g \notin {first, second} => g \in 1..Len(nat)
  BY <1>2, <1>3 DEF Taken, m
<1>8. CASE m = 0
  <2>1. first = Len(nat) + 1 /\ second = Len(nat) + 2
    BY <1>8 DEF TwoTaken, m
  <2>2. Taken(Len(nat) + 1) /\ Taken(Len(nat) + 2)
    BY <1>2, <1>4
  <2> QED BY <1>2, <2>1, <2>2
<1>9. CASE m = 1
  <2>1. first = free[1] /\ second = Len(nat) + 1 /\ l = 0
    BY <1>9 DEF TwoTaken, m
  <2>2. Taken(free[1]) /\ Taken(Len(nat) + 1) /\ free[1] \in 1..Len(nat)
    BY <1>2, <1>4, <1>5, <1>6, <1>9, <2>1
  <2> QED BY <1>2, <2>1, <2>2
<1>10. CASE m >= 2
  <2>1. first = free[m] /\ second = free[m - 1] /\ l = m - 2
    BY <1>10 DEF TwoTaken, m
  <2>2. m \in 1..m /\ m - 1 \in 1..m /\ m > l /\ m - 1 > l
    BY <1>2, <1>10, <2>1
  <2>3. Taken(free[m]) /\ Taken(free[m - 1]) /\ free[m] \in 1..Len(nat) /\ free[m - 1] \in 1..Len(nat)
    BY <1>5, <1>6, <2>2
  <2> QED BY <1>2, <2>1, <2>3
<1> QED BY <1>2, <1>8, <1>9, <1>10

\* What taking them does to the maps.
TwoMade(nat, hs, free, n, nat2, hs2, free2, first, second, l) ==
    /\ TwoTaken(nat, free, first, second, l)
    /\ nat2 = [h \in 1..Max({Len(nat), first, second}) |->
                  IF h \in {first, second} THEN n + 1 ELSE nat[h]]
    /\ hs2 = [hs \o [k \in 1..2 |-> 1] EXCEPT ![n + 1] = second]
    /\ free2 = SubSeq(free, 1, l)

LEMMA TwoHandlesAgree ==
    ASSUME NEW nat, NEW hs, NEW free, NEW n, NEW H, AgreeMaps(nat, hs, free, n, H),
           NEW first, NEW second, NEW nat2, NEW hs2, NEW free2, NEW l,
           TwoMade(nat, hs, free, n, nat2, hs2, free2, first, second, l)
    PROVE  OneMore(nat, hs, free, n, H, nat2, hs2, free2, {first, second}, second)
<1> DEFINE top == Max({Len(nat), first, second})
           more == [k \in 1..2 |-> 1]
           ext == hs \o more
           T == {first, second}
<1>1. /\ n \in Nat /\ nat \in Seq(Ids) /\ hs \in Seq(Ids) /\ free \in Seq(Ids) /\ n <= Len(hs)
      /\ Len(nat) \in Nat /\ DOMAIN nat = 1..Len(nat) /\ Len(hs) \in Nat
      /\ \A g \in DOMAIN nat : nat[g] \in Ids
      /\ \A k \in DOMAIN free : free[k] \in Ids
  BY LenProperties DEF AgreeMaps
<1>2. /\ l \in Nat /\ l <= Len(free) /\ Len(free) \in Nat /\ DOMAIN free = 1..Len(free)
      /\ first \in Ids /\ second \in Ids /\ first >= 1 /\ second >= 1
      /\ \A g \in T : /\ g \notin H /\ \A i \in 1..n : hs[i] # g
                      /\ \A k \in 1..l : free[k] # g
      /\ \A t \in {Len(nat), first, second} :
            \A g \in 1..t : g \notin T => g \in 1..Len(nat)
  BY TwoHandlesTaken DEF TwoMade
<1>3. /\ top \in Nat /\ Len(nat) <= top /\ first <= top /\ second <= top
      /\ top \in {Len(nat), first, second}
  <2>1. Len(nat) \in Int /\ first \in Int /\ second \in Int
    BY <1>1, <1>2 DEF Ids
  <2>2. /\ top \in {Len(nat), first, second}
        /\ Len(nat) <= top /\ first <= top /\ second <= top
    BY <2>1, GreatestOfFew, Zenon
  <2> HIDE DEF top
  <2> QED BY <1>1, <1>2, <2>1, <2>2 DEF Ids
<1>4. \A g \in 1..top : g \notin T => g \in 1..Len(nat)
  BY <1>2, <1>3
<1> HIDE DEF top, more, T
<1>5. nat2 \in Seq(Ids) /\ DOMAIN nat2 = 1..top
      /\ \A g \in 1..top : nat2[g] = IF g \in T THEN n + 1 ELSE nat[g]
  <2>1. nat2 = [g \in 1..top |-> IF g \in T THEN n + 1 ELSE nat[g]]
    BY DEF TwoMade, top, T
  <2>2. n + 1 \in Ids
    BY <1>1 DEF Ids
  <2>3. \A g \in 1..top : (IF g \in T THEN n + 1 ELSE nat[g]) \in Ids
    BY <1>1, <1>4, <2>2
  <2>4. nat2 \in [1..top -> Ids]
    BY <2>1, <2>3
  <2> QED BY <1>3, <2>1, <2>4, SeqIntro
<1>6. /\ ext \in Seq(Ids) /\ Len(ext) = Len(hs) + 2
      /\ \A i \in 1..n : ext[i] = hs[i]
  <2>1. more \in Seq(Ids) /\ Len(more) = 2
    BY SeqIntro DEF Ids, more
  <2>2. /\ ext \in Seq(Ids) /\ Len(ext) = Len(hs) + Len(more)
        /\ \A i \in 1..(Len(hs) + Len(more)) :
              ext[i] = IF i <= Len(hs) THEN hs[i] ELSE more[i - Len(hs)]
    BY <1>1, <2>1, ConcatProperties
  <2> HIDE DEF ext
  <2> QED BY <1>1, <2>1, <2>2
<1> HIDE DEF ext
<1>7. /\ hs2 \in Seq(Ids) /\ Len(hs2) = Len(ext) /\ hs2[n + 1] = second
      /\ \A i \in 1..n : hs2[i] = hs[i]
  <2>1. hs2 = [ext EXCEPT ![n + 1] = second]
    BY DEF ext, more, TwoMade
  <2>2. n + 1 \in 1..Len(ext) /\ DOMAIN ext = 1..Len(ext)
    BY <1>1, <1>6, LenProperties
  <2>3. [ext EXCEPT ![n + 1] = second] \in Seq(Ids)
        /\ Len([ext EXCEPT ![n + 1] = second]) = Len(ext)
    BY <1>2, <1>6, <2>2, ExceptSeq
  <2> QED BY <1>1, <1>6, <2>1, <2>2, <2>3
<1>8. free2 \in Seq(Ids) /\ Len(free2) = l /\ \A k \in 1..l : free2[k] = free[k]
  <2>1. free2 = SubSeq(free, 1, l)
    BY DEF TwoMade
  <2>2. \A k \in 1..l : free[k] \in Ids
    BY <1>1, <1>2
  <2>3. /\ SubSeq(free, 1, l) \in Seq(Ids) /\ Len(SubSeq(free, 1, l)) = l
        /\ \A k \in 1..l : SubSeq(free, 1, l)[k] = free[k]
    BY <1>1, <1>2, <2>2, SubSeqProperties
  <2> QED BY <2>1, <2>3
<1>9. /\ \A g \in T : g \notin H /\ g \in DOMAIN nat2 /\ nat2[g] = n + 1
      /\ \A g \in T : \A i \in 1..n : hs[i] # g
  <2>1. \A g \in T : g \in 1..top
    BY <1>2, <1>3 DEF T, Ids
  <2> QED BY <1>2, <1>5, <2>1
<1>10. \A g \in DOMAIN nat : g \in DOMAIN nat2 /\ (g \notin T => nat2[g] = nat[g])
  <2>1. /\ DOMAIN nat = 1..Len(nat) /\ Len(nat) \in Nat
        /\ top \in Nat /\ Len(nat) <= top
    BY <1>1, <1>3
  <2>2. \A g \in 1..Len(nat) : g \in 1..top
    BY <2>1
  <2> QED BY <1>5, <2>1, <2>2
<1>11. n + 1 <= Len(hs2)
  BY <1>1, <1>6, <1>7
<1>12. /\ Len(free2) <= Len(free)
       /\ \A k \in 1..Len(free2) : free2[k] = free[k] /\ free[k] \notin T
  BY <1>2, <1>8
<1> QED BY <1>5, <1>7, <1>8, <1>9, <1>10, <1>11, <1>12 DEF OneMore, T

\* The handle maps of CPLEX's model are those of remapping_model_base.
LEMMA CplexMaps ==
    ASSUME NEW n, NEW k, NEW e, NEW s, NEW D, NEW doomed
    PROVE  /\ Cplex!NewHandleId(n) = NewHandleId(n)
           /\ Cplex!ExtendedHandleIdsMap(n) = ExtendedHandleIdsMap(n)
           /\ Cplex!NewVarHandle(n, e) = NewVarHandle(n, e)
           /\ Cplex!FirstOfHandleRange(n) = FirstOfHandleRange(n)
           /\ Cplex!NewVarHandleRange(n, k, e) = NewVarHandleRange(n, k, e)
           /\ Cplex!NativeId(n) = NativeId(n)
           /\ Cplex!Compacted(s, D) = Compacted(s, D)
           /\ Cplex!RemoveHandles(doomed, n, D) = RemoveHandles(doomed, n, D)
           /\ Cplex!remapping = remapping
           /\ Cplex!Cardinality(s) = Cardinality(s)
<1>0. ASSUME NEW S PROVE Cplex!Cardinality(S) = Cardinality(S)
  BY DEF Cplex!Cardinality, Cardinality
<1>1. /\ Cplex!NewHandleId(n) = NewHandleId(n)
      /\ Cplex!ExtendedHandleIdsMap(n) = ExtendedHandleIdsMap(n)
      /\ Cplex!FirstOfHandleRange(n) = FirstOfHandleRange(n)
      /\ Cplex!NativeId(n) = NativeId(n)
      /\ Cplex!remapping = remapping
  BY DEF Cplex!NewHandleId, NewHandleId, Cplex!ExtendedHandleIdsMap, ExtendedHandleIdsMap,
     Cplex!FirstOfHandleRange, FirstOfHandleRange, Cplex!NativeId, NativeId,
     Cplex!remapping, remapping
<1>2. Cplex!NewVarHandle(n, e) = NewVarHandle(n, e)
  BY <1>1 DEF Cplex!NewVarHandle, NewVarHandle, Cplex!NewHandleId, NewHandleId, Cplex!remapping, remapping
<1>3. Cplex!NewVarHandleRange(n, k, e) = NewVarHandleRange(n, k, e)
  BY <1>1 DEF Cplex!NewVarHandleRange, NewVarHandleRange, Cplex!FirstOfHandleRange, FirstOfHandleRange, Cplex!remapping, remapping
<1>4. ASSUME NEW i, NEW E, NEW m PROVE Cplex!OldId(i, m, E) = OldId(i, m, E)
  BY <1>0, Zenon DEF Cplex!OldId, OldId, Cplex!NewId, NewId, Cplex!Below, Below
<1>5. Cplex!Compacted(s, D) = Compacted(s, D)
  BY <1>0, <1>4 DEF Cplex!Compacted, Compacted
<1>6. ASSUME NEW h PROVE Cplex!ColumnsOf(h, n, D) = ColumnsOf(h, n, D)
  BY DEF Cplex!ColumnsOf, ColumnsOf, Cplex!HandleIds, HandleIds
<1>7. ASSUME NEW i PROVE Cplex!NewId(i, D) = NewId(i, D)
  BY <1>0 DEF Cplex!NewId, NewId, Cplex!Below, Below
<1>8. Cplex!CompactedNativeIds(n, D) = CompactedNativeIds(n, D)
  BY <1>0, <1>1, Zenon DEF Cplex!CompactedNativeIds, CompactedNativeIds, Cplex!NativeIds, NativeIds,
     Cplex!ColumnsOf, ColumnsOf, Cplex!HandleIds, HandleIds, Cplex!NewId, NewId,
     Cplex!Below, Below, Cplex!Cardinality, Cardinality
<1>9. Cplex!CompactedHandleIds(n, D) = CompactedHandleIds(n, D)
  <2>1. Cplex!HandleIds(n) = HandleIds(n)
    BY DEF Cplex!HandleIds, HandleIds
  <2> QED BY <1>0, <1>4, <2>1, Zenon DEF Cplex!CompactedHandleIds, CompactedHandleIds
<1>10. Cplex!RemoveHandles(doomed, n, D) = RemoveHandles(doomed, n, D)
  BY <1>8, <1>9, Zenon DEF Cplex!RemoveHandles, RemoveHandles
<1> QED BY <1>0, <1>1, <1>2, <1>3, <1>5, <1>10


\* The two handles that a typed variable takes while the maps are in use.
LEMMA CplexTwoHandlesAgree ==
    ASSUME NEW n, NEW H,
           Agree(remap_ids, native_ids_map, handle_ids_map, free_var_handles, n, H), remap_ids,
           NEW first, first = Cplex!NewHandleId(n + 1),
           NEW second, second = Cplex!SecondHandle,
           Cplex!TwoHandles(n + 1, first, second)
    PROVE  /\ second \notin H
           /\ Agree(remap_ids', native_ids_map', handle_ids_map', free_var_handles', n + 1,
                    H \cup {second})
           /\ remap_ids' = remap_ids
           /\ NativeId(second)' = n + 1 /\ \A g \in H : NativeId(g)' = NativeId(g)
           /\ VarHandle(n + 1)' = second /\ \A i \in 1..n : VarHandle(i)' = VarHandle(i)
<1> DEFINE l == Max({0, Len(free_var_handles) - 2})
           nat2 == native_ids_map'
           hs2 == handle_ids_map'
           free2 == free_var_handles'
<1>1. AgreeMaps(native_ids_map, handle_ids_map, free_var_handles, n, H)
  BY DEF Agree
<1>2. /\ native_ids_map \in Seq(Ids) /\ free_var_handles \in Seq(Ids)
      /\ Len(free_var_handles) \in Nat
      /\ (free_var_handles = <<>>) <=> (Len(free_var_handles) = 0)
  BY <1>1, LenProperties, EmptySeq DEF AgreeMaps
<1>3. TwoTaken(native_ids_map, free_var_handles, first, second, l)
  <2>1. /\ first = (IF free_var_handles = <<>> THEN Len(native_ids_map) + 1
                    ELSE free_var_handles[Len(free_var_handles)])
        /\ second = (IF Len(free_var_handles) >= 2 THEN free_var_handles[Len(free_var_handles) - 1]
                     ELSE Len(native_ids_map) + (IF Len(free_var_handles) = 1 THEN 1 ELSE 2))
    BY DEF Cplex!NewHandleId, Cplex!SecondHandle
  <2>2. /\ l \in {0, Len(free_var_handles) - 2} /\ 0 <= l /\ Len(free_var_handles) - 2 <= l
    <3>1. ASSUME NEW k \in Int PROVE Max({0, k}) \in {0, k} /\ 0 <= Max({0, k}) /\ k <= Max({0, k})
      <4>1. 0 \in Int
        OBVIOUS
      <4> QED BY <4>1, GreatestOfFew
    <3>2. Len(free_var_handles) - 2 \in Int
      BY <1>2
    <3> QED BY <3>1, <3>2
  <2> HIDE DEF l
  <2> QED BY <1>2, <2>1, <2>2 DEF TwoTaken
<1>4. TwoMade(native_ids_map, handle_ids_map, free_var_handles, n, nat2, hs2, free2,
              first, second, l)
  <2>1. /\ nat2 = [h \in 1..Cplex!Max({Len(native_ids_map), first, second}) |->
                      IF h \in {first, second} THEN n + 1 ELSE native_ids_map[h]]
        /\ hs2 = [handle_ids_map \o [k \in 1..2 |-> 1] EXCEPT ![n + 1] = second]
        /\ free2 = SubSeq(free_var_handles, 1, Cplex!Max({0, Len(free_var_handles) - 2}))
    BY DEF Cplex!TwoHandles, Cplex!ExtendedHandleIdsMap
  <2>2. ASSUME NEW S PROVE Cplex!Max(S) = Max(S)
    BY DEF Cplex!Max, Max
  <2> QED BY <1>3, <2>1, <2>2 DEF TwoMade
<1> HIDE DEF l, nat2, hs2, free2
<1>5. OneMore(native_ids_map, handle_ids_map, free_var_handles, n, H, nat2, hs2, free2,
              {first, second}, second)
  BY <1>1, <1>4, TwoHandlesAgree
<1>6. AgreeMaps(nat2, hs2, free2, n + 1, H \cup {second})
  BY <1>1, <1>5, AgreeOneMore
<1>7. remap_ids' = remap_ids
  BY DEF Cplex!TwoHandles
<1>8. n \in Nat /\ \A g \in H : g \in DOMAIN native_ids_map
  BY <1>1 DEF AgreeMaps
<1> QED BY <1>5, <1>6, <1>7, <1>8 DEF OneMore, Agree, NativeId, VarHandle, nat2, hs2, free2

LEMMA CplexAddOne ==
    ASSUME RemappedInv, NEW p, NEW type, NEW coefs, NEW h, Cplex!AddOne(p, type, coefs, h)
    PROVE  RemappedInv'
<1>1. SUFFICES ASSUME NEW n, n = Len(cols) PROVE RemappedInv'
  OBVIOUS
<1>2. n \in Nat
  BY <1>1, SequencesJoined DEF RemappedInv
<1>3. NewVarHandle(n + 1, ExtendedHandleIdsMap(1))
  <2>1. Cplex!NewVarHandle(n + 1, Cplex!ExtendedHandleIdsMap(1))
    BY <1>1 DEF Cplex!AddOne
  <2> QED BY <2>1, CplexMaps
<1>4. h = NewHandleId(n + 1) /\ held' = held \cup {h}
      /\ cols' = cols \o <<Cplex!NewCol(p, type, coefs)>>
  <2>1. h = Cplex!NewHandleId(n + 1) /\ held' = held \cup {h}
        /\ cols' = cols \o <<Cplex!NewCol(p, type, coefs)>>
    BY <1>1 DEF Cplex!AddOne, Cplex!AppendCols
  <2> QED BY <2>1, CplexMaps
<1>5. IsSequence(cols') /\ Len(cols') = n + 1
  BY <1>1, <1>2, <1>4, SequencesJoined DEF RemappedInv
<1> QED BY <1>1, <1>3, <1>4, <1>5, RemappedAddOne

LEMMA CplexAddTyped ==
    ASSUME RemappedInv, NEW p, NEW type, Cplex!AddTypedVariable(p, type)
    PROVE  RemappedInv'
<1>1. SUFFICES ASSUME NEW n, n = Len(cols), NEW H, H = held,
                      NEW first, first = Cplex!NewHandleId(n + 1),
                      NEW second, second = Cplex!SecondHandle
               PROVE  RemappedInv'
  OBVIOUS
<1>2. n \in Nat /\ Agree(remap_ids, native_ids_map, handle_ids_map, free_var_handles, n, H)
  BY <1>1, SequencesJoined DEF RemappedInv
<1>3. cols' = cols \o <<Cplex!NewCol(p, type, Cplex!Zeros)>>
  BY DEF Cplex!AddTypedVariable, Cplex!AppendCols
<1>4. IsSequence(cols') /\ Len(cols') = n + 1
  BY <1>1, <1>2, <1>3, SequencesJoined DEF RemappedInv
<1>5. CASE remap_ids
  <2>1. Cplex!TwoHandles(n + 1, first, second) /\ held' = H \cup {second}
    BY <1>1, <1>5 DEF Cplex!AddTypedVariable
  <2>2. Agree(remap_ids', native_ids_map', handle_ids_map', free_var_handles', n + 1,
              H \cup {second})
    BY <1>1, <1>2, <1>5, <2>1, CplexTwoHandlesAgree
  <2> QED BY <1>4, <2>1, <2>2 DEF RemappedInv
<1>6. CASE ~remap_ids
  <2>1. UNCHANGED remapping /\ held' = H \cup {n + 1}
    BY <1>1, <1>6 DEF Cplex!AddTypedVariable, Cplex!remapping, remapping
  <2> QED BY <1>2, <1>4, <1>6, <2>1 DEF RemappedInv, Agree, remapping
<1> QED BY <1>5, <1>6

LEMMA CplexRefused ==
    ASSUME RemappedInv, Cplex!AddVariableRefused
    PROVE  RemappedInv'
<1>1. SUFFICES ASSUME NEW n, n = Len(cols), NEW H, H = held PROVE RemappedInv'
  OBVIOUS
<1>2. Agree(remap_ids, native_ids_map, handle_ids_map, free_var_handles, n, H)
  BY <1>1 DEF RemappedInv
<1>3. /\ handle_ids_map' = Cplex!ExtendedHandleIdsMap(1)
      /\ UNCHANGED <<cols, held, remap_ids, native_ids_map, free_var_handles>>
  BY DEF Cplex!AddVariableRefused, Cplex!instance
<1>4. LeftOver
  BY <1>3, CplexMaps DEF LeftOver
<1>5. Agree(remap_ids', native_ids_map', handle_ids_map', free_var_handles', n, H)
  BY <1>2, <1>4, LeftOverAgrees
<1> QED BY <1>1, <1>3, <1>5 DEF RemappedInv

LEMMA CplexAddMany ==
    ASSUME RemappedInv, NEW count \in Nat, NEW p, NEW type, NEW extended,
           remap_ids => extended = ExtendedHandleIdsMap(count),
           Cplex!AddMany(count, p, type, extended)
    PROVE  RemappedInv'
<1>1. SUFFICES ASSUME NEW n, n = Len(cols), NEW first, first = FirstOfHandleRange(n)
               PROVE  RemappedInv'
  OBVIOUS
<1>2. /\ NewVarHandleRange(n, count, extended) /\ held' = held \cup first..(first + count - 1)
      /\ cols' = cols \o [k \in 1..count |-> Cplex!NewCol(p, type, Cplex!Zeros)]
  BY <1>1, CplexMaps DEF Cplex!AddMany, Cplex!AppendCols
<1>3. IsSequence(cols') /\ Len(cols') = n + count
  BY <1>1, <1>2, SequencesJoined DEF RemappedInv
<1> QED BY <1>1, <1>2, <1>3, RemappedAddMany

LEMMA CplexRemove ==
    ASSUME RemappedInv, NEW doomed \in Cplex!Removals, Cplex!RemoveVariables(doomed)
    PROVE  RemappedInv'
<1>1. SUFFICES ASSUME NEW n, n = Len(cols), NEW m, m = Len(doomed),
                      NEW D, D = {NativeId(doomed[k]) : k \in DOMAIN doomed}
               PROVE  RemappedInv'
  OBVIOUS
<1>2. Doomed(doomed, m, held)
  <2>1. PICK k \in 1..Cardinality(held) :
           doomed \in [1..k -> held] /\ \A i, j \in 1..k : doomed[i] = doomed[j] => i = j
    BY CplexMaps DEF Cplex!Removals
  <2>2. k \in Nat
    BY HeldFinite DEF RemappedInv
  <2>3. m = k
    BY <1>1, <2>1, <2>2, SeqIntro
  <2> QED BY <2>1, <2>2, <2>3 DEF Doomed
<1>3. D = {Cplex!NativeId(doomed[k]) : k \in DOMAIN doomed}
  BY <1>1, CplexMaps
<1>4. /\ cols' = Compacted(cols, D) /\ RemoveHandles(doomed, n, D)
      /\ held' = held \ {doomed[k] : k \in DOMAIN doomed}
  <2>1. /\ cols' = Cplex!Compacted(cols, D) /\ Cplex!RemoveHandles(doomed, n, D)
        /\ held' = held \ {doomed[k] : k \in DOMAIN doomed}
    BY <1>1, <1>3 DEF Cplex!RemoveVariables
  <2> QED BY <2>1, CplexMaps
<1> QED BY <1>1, <1>2, <1>4, RemappedRemove

LEMMA CplexNextInv ==
    ASSUME RemappedInv, ~Careless, [Cplex!Next]_(Cplex!cplexVars)
    PROVE  RemappedInv'
<1> USE DEF Cplex!handles, Cplex!instance, Cplex!vars, Cplex!remapping, remapping
<1>1. ASSUME NEW k, Cplex!SetOffset(k) PROVE RemappedInv'
  BY <1>1, RemappedKept, ColumnsUnchanged DEF ColumnsEdited, Cplex!SetOffset, Cplex!SetObjectiveOffset
<1>2. ASSUME NEW m, Cplex!SetDirection(m), UNCHANGED Cplex!handles PROVE RemappedInv'
  BY <1>2, RemappedKept, ColumnsUnchanged DEF ColumnsEdited, Cplex!SetDirection
<1>3. ASSUME NEW e, Cplex!SetObjective(e) \/ Cplex!AddObjective(e) PROVE RemappedInv'
  <2>1. ColumnsEdited
    BY <1>3 DEF ColumnsEdited, Cplex!SetObjective, Cplex!AddObjective, Cplex!PutObjective
  <2> QED BY <1>3, <2>1, RemappedKept DEF ColumnsEdited, Cplex!SetObjective, Cplex!AddObjective
<1>4. ASSUME NEW h, NEW c, Cplex!SetObjectiveCoef(h, c) PROVE RemappedInv'
  <2>1. ColumnsEdited
    BY <1>4 DEF ColumnsEdited, Cplex!SetObjectiveCoef, Cplex!ChangeNative
  <2> QED BY <1>4, <2>1, RemappedKept DEF ColumnsEdited, Cplex!SetObjectiveCoef
<1>5. ASSUME NEW p, Cplex!AddVariable(p) PROVE RemappedInv'
  BY <1>5, CplexAddOne DEF Cplex!AddVariable
<1>6. ASSUME NEW p, NEW t, Cplex!AddTypedVariable(p, t) PROVE RemappedInv'
  BY <1>6, CplexAddTyped
<1>7. CASE Cplex!AddVariableRefused
  BY <1>7, CplexRefused
<1>8. ASSUME NEW p, NEW entries, Cplex!AddColumn(p, entries) PROVE RemappedInv'
  BY <1>8, CplexAddOne DEF Cplex!AddColumn
<1>9. ASSUME NEW n \in 1..MaxColumns, NEW t, NEW p, Cplex!AddVariables(n, p, t) PROVE RemappedInv'
  <2>1. n \in Nat /\ Cplex!ExtendedHandleIdsMap(n) = ExtendedHandleIdsMap(n)
    BY CplexMaps, InstanceBoundsAssumption
  <2>2. Cplex!AddMany(n, p, t, Cplex!ExtendedHandleIdsMap(n))
    BY <1>9 DEF Cplex!AddVariables
  <2> QED BY <2>1, <2>2, CplexAddMany
<1>10. ASSUME NEW n \in 1..MaxColumns, Cplex!AddBinaryVariables(n) PROVE RemappedInv'
  <2>1. n \in Nat /\ ~remap_ids
    BY <1>10, InstanceBoundsAssumption DEF Cplex!AddBinaryVariables
  <2>2. Cplex!AddMany(n, Cplex!BinaryParams, "B", handle_ids_map)
    BY <1>10 DEF Cplex!AddBinaryVariables
  <2> QED BY <2>1, <2>2, CplexAddMany
<1>11. ASSUME NEW doomed \in Cplex!Removals, Cplex!RemoveVariables(doomed) PROVE RemappedInv'
  BY <1>11, CplexRemove
<1>12. ASSUME NEW h, NEW side, NEW b, Cplex!SetVariableBound(h, side, b) PROVE RemappedInv'
  <2>1. ColumnsEdited
    BY <1>12 DEF ColumnsEdited, Cplex!SetVariableBound, Cplex!ChangeNative
  <2> QED BY <1>12, <2>1, RemappedKept DEF ColumnsEdited, Cplex!SetVariableBound
<1>13. ASSUME NEW h, NEW t, Cplex!SetType(h, t) \/ Cplex!SetBinary(h) PROVE RemappedInv'
  <2>1. ColumnsEdited
    BY <1>13 DEF ColumnsEdited, Cplex!SetType, Cplex!SetBinary, Cplex!ChangeNative
  <2> QED BY <1>13, <2>1, RemappedKept DEF ColumnsEdited, Cplex!SetType, Cplex!SetBinary
<1>14. ASSUME NEW lcs, Cplex!AddConstraints(lcs) PROVE RemappedInv'
  <2>1. ColumnsEdited
    BY <1>14 DEF ColumnsEdited, Cplex!AddConstraints, Cplex!AppendRows
  <2> QED BY <1>14, <2>1, RemappedKept DEF ColumnsEdited, Cplex!AddConstraints
<1>15. ASSUME NEW k, NEW b, Cplex!SetConstraintRhs(k, b) \/ Cplex!SetConstraintSense(k, b)
       PROVE  RemappedInv'
  BY <1>15, RemappedKept, ColumnsUnchanged DEF ColumnsEdited, Cplex!SetConstraintRhs, Cplex!SetConstraintSense
<1>16. CASE UNCHANGED Cplex!cplexVars
  BY <1>16, RemappedKept, ColumnsUnchanged DEF ColumnsEdited, Cplex!cplexVars
<1> QED BY <1>1, <1>2, <1>3, <1>4, <1>5, <1>6, <1>7, <1>8, <1>9, <1>10, <1>11, <1>12, <1>13,
           <1>14, <1>15, <1>16 DEF Cplex!Next
----------------------------------------------------------------------------
(* Both *)

RemappedSolversInv ==
    /\ solver = "gurobi" => GurobiInv
    /\ solver = "cplex" => RemappedInv

LEMMA RemappedSolversInductive ==
    ASSUME ~Careless PROVE Spec => []RemappedSolversInv
<1>1. Init => RemappedSolversInv
  <2> SUFFICES ASSUME Init, solver \in {"gurobi", "cplex"} PROVE GurobiInv
    BY DEF RemappedSolversInv, GurobiInv
  <2>1. /\ cols = <<>> /\ held = {} /\ num_var_native_ids = 0
        /\ remap_ids = FALSE /\ native_ids_map = <<>> /\ handle_ids_map = <<>>
        /\ free_var_handles = <<>>
    BY DEF Init, Gurobi!Init, Gurobi!InstanceInit, Gurobi!InitRemapping,
           Cplex!Init, Cplex!InstanceInit, Cplex!InitRemapping, NoNative
  <2>2. cols \in Seq({}) /\ Len(cols) = 0
    BY <2>1
  <2> QED BY <2>1, <2>2 DEF GurobiInv, RemappedInv, IsSequence, Agree
<1>2. RemappedSolversInv /\ [Next]_all => RemappedSolversInv'
  <2> SUFFICES ASSUME RemappedSolversInv, [Next]_all PROVE RemappedSolversInv'
    OBVIOUS
  <2>1. solver' = solver
    BY DEF Next, all
  <2>2. CASE solver = "gurobi"
    <3>1. [Gurobi!Next]_(Gurobi!gurobiVars)
      BY <2>2 DEF Next, all, vars, instance, handles, native, remapping, Gurobi!gurobiVars,
         Gurobi!vars, Gurobi!instance, Gurobi!handles, Gurobi!remapping, Gurobi!counters
    <3> QED BY <2>1, <2>2, <3>1, GurobiNextInv DEF RemappedSolversInv
  <2>3. CASE solver = "cplex"
    <3>1. [Cplex!Next]_(Cplex!cplexVars)
      BY <2>3 DEF Next, all, vars, instance, handles, remapping, Cplex!cplexVars,
         Cplex!vars, Cplex!instance, Cplex!handles, Cplex!remapping
    <3> QED BY <2>1, <2>3, <3>1, CplexNextInv DEF RemappedSolversInv
  <2> QED BY <2>1, <2>2, <2>3 DEF RemappedSolversInv
<1> QED BY <1>1, <1>2, PTL DEF Spec

\* Every handle of Gurobi's and of CPLEX's model leads to its column and the column back
\* to it, however variables were added one at a time, typed, many at once, refused, and
\* removed, and with the slack columns of ranges among them.
THEOREM RemappedHandlesAlwaysReturn ==
    ASSUME ~Careless PROVE Spec => []RemappedHandlesReturn
<1>1. RemappedSolversInv => RemappedHandlesReturn
  <2> SUFFICES ASSUME RemappedInv PROVE HeldHandlesReturn
    BY DEF RemappedSolversInv, RemappedHandlesReturn, GurobiInv
  <2>1. SUFFICES ASSUME NEW n, n = Len(cols), NEW H, H = held PROVE HeldHandlesReturn
    OBVIOUS
  <2>2. Agree(remap_ids, native_ids_map, handle_ids_map, free_var_handles, n, H)
    BY <2>1 DEF RemappedInv
  <2>3. DOMAIN cols = 1..n
    BY <2>1, SequencesJoined DEF RemappedInv
  <2> QED BY <2>1, <2>2, <2>3, AgreeStarting DEF HeldHandlesReturn
<1> QED BY <1>1, RemappedSolversInductive, PTL

\* The columns that a Gurobi model counts are those that Gurobi has: num_variables()
\* finds them to be as many.
THEOREM GurobiColumnsAlwaysCounted ==
    ASSUME ~Careless PROVE Spec => []GurobiColumnsCounted
<1>1. RemappedSolversInv => GurobiColumnsCounted
  BY DEF RemappedSolversInv, GurobiInv, GurobiColumnsCounted, Gurobi!ColumnsCounted
<1> QED BY <1>1, RemappedSolversInductive, PTL
=============================================================================
