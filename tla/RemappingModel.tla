-------------------------- MODULE RemappingModel --------------------------
(***************************************************************************)
(* The handle maps of remapping_model_base, the base class of the HiGHS,   *)
(* Gurobi and CPLEX models.  A native id is the position of a column in    *)
(* the solver, which the solver renumbers when columns are deleted; a      *)
(* handle id is what the client keeps.  Until a removal perforates the     *)
(* numbering the two are the same number and the maps stay empty.          *)
(*                                                                         *)
(* Ids count from 1 here and from 0 in the code; nothing else is shifted.  *)
(* _var_handles_to_delete is filled and emptied within one removal, so it  *)
(* is an argument of the removal and not a variable.                       *)
(***************************************************************************)
EXTENDS Integers, Sequences, FiniteSets

VARIABLES remap_ids,         \* whether the maps are in use
          native_ids_map,    \* handle id -> native id
          handle_ids_map,    \* native id -> handle id
          free_var_handles   \* handle ids to give out again, the last one first

remapping == <<remap_ids, native_ids_map, handle_ids_map, free_var_handles>>

InitRemapping == /\ remap_ids = FALSE
                 /\ native_ids_map = <<>>
                 /\ handle_ids_map = <<>>
                 /\ free_var_handles = <<>>

NativeId(h) == IF remap_ids THEN native_ids_map[h] ELSE h
VarHandle(i) == IF remap_ids THEN handle_ids_map[i] ELSE i

\* Mutant: the handle map is not extended before a column is added.
ForgottenExtension(count) == handle_ids_map

\* vector::resize gives the new entries the id 0, here 1.
ExtendedHandleIdsMap(count) ==
    IF remap_ids THEN handle_ids_map \o [k \in 1..count |-> 1] ELSE handle_ids_map

\* The handle that _new_var_handle returns for a new column.
NewHandleId(native) ==
    IF ~remap_ids THEN native
    ELSE IF free_var_handles = <<>> THEN Len(native_ids_map) + 1
    ELSE free_var_handles[Len(free_var_handles)]

\* Mutant: a recycled handle is read from the free list and stays on it.
NewVarHandleWithoutPop(native, extended) ==
    IF ~remap_ids THEN UNCHANGED remapping
    ELSE LET h == NewHandleId(native) IN
         /\ native_ids_map' = IF free_var_handles = <<>> THEN Append(native_ids_map, native)
                              ELSE [native_ids_map EXCEPT ![h] = native]
         /\ handle_ids_map' = [extended EXCEPT ![native] = h]
         /\ UNCHANGED <<remap_ids, free_var_handles>>

\* _new_var_handle, called when handle_ids_map has been extended to `extended'.
NewVarHandle(native, extended) ==
    IF ~remap_ids THEN UNCHANGED remapping
    ELSE LET h == NewHandleId(native) IN
         /\ IF free_var_handles = <<>>
            THEN /\ native_ids_map' = Append(native_ids_map, native)
                 /\ UNCHANGED free_var_handles
            ELSE /\ native_ids_map' = [native_ids_map EXCEPT ![h] = native]
                 /\ free_var_handles' =
                        SubSeq(free_var_handles, 1, Len(free_var_handles) - 1)
         /\ handle_ids_map' = [extended EXCEPT ![native] = h]
         /\ UNCHANGED remap_ids

\* The first handle that _new_var_handle_range returns for columns n + 1, ...
FirstOfHandleRange(n) == IF remap_ids THEN Len(native_ids_map) + 1 ELSE n + 1

\* _new_var_handle_range: a range takes fresh ids, even when some are free.
NewVarHandleRange(n, count, extended) ==
    IF ~remap_ids THEN UNCHANGED remapping
    ELSE LET first == FirstOfHandleRange(n) IN
         /\ native_ids_map' = native_ids_map \o [k \in 1..count |-> n + k]
         /\ handle_ids_map' =
                [i \in 1..Len(extended) |->
                    IF i \in (n + 1)..(n + count) THEN first + (i - n - 1) ELSE extended[i]]
         /\ UNCHANGED <<remap_ids, free_var_handles>>
----------------------------------------------------------------------------
(* Deleting the columns D out of 1..n moves every other one down past the  *)
(* deleted columns that were before it.                                    *)

Below(i, D) == {d \in D : d < i}
NewId(i, D) == i - Cardinality(Below(i, D))
OldId(k, n, D) == CHOOSE i \in (1..n) \ D : NewId(i, D) = k

\* What the deletion makes of a sequence indexed by column.
Compacted(s, D) == [k \in 1..(Len(s) - Cardinality(D)) |-> s[OldId(k, Len(s), D)]]

\* The maps at the start of the compaction loop, for n columns.
NativeIds(n) == IF remap_ids THEN native_ids_map ELSE [h \in 1..n |-> h]
HandleIds(n) == IF remap_ids THEN handle_ids_map ELSE [i \in 1..n |-> i]

\* The columns that survive the deletion of D and carry handle h.
ColumnsOf(h, n, D) == {i \in (1..n) \ D : HandleIds(n)[i] = h}

\* Mutant: the compaction loop moves the handles and not the native ids.
StaleNativeIds(n, D) == NativeIds(n)

\* The loop goes up the columns, so the last column of h is what it leaves.
CompactedNativeIds(n, D) ==
    [h \in DOMAIN NativeIds(n) |->
        IF ColumnsOf(h, n, D) = {} THEN NativeIds(n)[h]
        ELSE NewId(CHOOSE i \in ColumnsOf(h, n, D) : \A j \in ColumnsOf(h, n, D) : j <= i, D)]

\* The loop, and then _shrink_handle_ids_map.
CompactedHandleIds(n, D) ==
    LET kept == n - Cardinality(D) IN
    [k \in 1..(Len(HandleIds(n)) - Cardinality(D)) |->
        HandleIds(n)[IF k <= kept THEN OldId(k, n, D) ELSE k]]

\* What removing the handles `doomed', which have the columns D out of n, does
\* to the maps once the solver has deleted the columns.
RemoveHandles(doomed, n, D) ==
    /\ remap_ids' = TRUE
    /\ native_ids_map' = CompactedNativeIds(n, D)
    /\ handle_ids_map' = CompactedHandleIds(n, D)
    /\ free_var_handles' = free_var_handles \o doomed
----------------------------------------------------------------------------
(* The compaction loop, turn by turn.  It writes handle_ids_map while it    *)
(* reads it; CompactedNativeIds and CompactedHandleIds say in one step what *)
(* it leaves.                                                              *)

\* tmp_indices, sorted.
Sorted(D) == [k \in 1..Cardinality(D) |-> CHOOSE d \in D : Cardinality(Below(d, D)) = k - 1]

\* What the loop changes: how many of tmp_indices are behind it, and the maps.
BeforeLoop(n) == [offset |-> 0, handle_ids_map |-> HandleIds(n), native_ids_map |-> NativeIds(n)]

\* The turn of column i, where tmp_indices are the columns that were deleted.
Turn(loop, i, tmp_indices) ==
    IF loop.offset < Len(tmp_indices) /\ tmp_indices[loop.offset + 1] = i
    THEN [loop EXCEPT !.offset = @ + 1]
    ELSE LET handle_id == loop.handle_ids_map[i]
             new_native_id == i - loop.offset
         IN  [loop EXCEPT !.handle_ids_map[new_native_id] = handle_id,
                          !.native_ids_map[handle_id] = new_native_id]

\* Mutant: tmp_indices are not sorted, and come with the last column first.
AfterLoopUnsorted(n, D) ==
    LET tmp_indices == [k \in 1..Cardinality(D) |-> Sorted(D)[Cardinality(D) + 1 - k]]
        after[i \in 0..n] == IF i = 0 THEN BeforeLoop(n) ELSE Turn(after[i - 1], i, tmp_indices)
    IN  after[n]

\* The loop goes up all n columns, beside the deleted ones in increasing order.
AfterLoop(n, D) ==
    LET tmp_indices == Sorted(D)
        after[i \in 0..n] == IF i = 0 THEN BeforeLoop(n) ELSE Turn(after[i - 1], i, tmp_indices)
    IN  after[n]

\* Whatever columns are removed next, of n: each turn reads an entry that no turn before
\* it has written, so the loop leaves each surviving handle with its new column, and what
\* _shrink_handle_ids_map then cuts off is what nobody needs.
Compacts(n) ==
    \A D \in SUBSET (1..n) \ {{}} :
        LET loop == AfterLoop(n, D) IN
        /\ loop.native_ids_map = CompactedNativeIds(n, D)
        /\ SubSeq(loop.handle_ids_map, 1, Len(HandleIds(n)) - Cardinality(D))
              = CompactedHandleIds(n, D)
=============================================================================
