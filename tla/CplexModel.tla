----------------------------- MODULE CplexModel -----------------------------
(***************************************************************************)
(* The CPLEX models (cplex_base and what cplex_milp adds that writes the   *)
(* problem).  The columns are counted by CPLEX, every removal switches the *)
(* maps on, and a new column's map entry is made before CPLEX is asked.    *)
(*                                                                         *)
(* add_binary_variables forgets the maps: clients call it only before the  *)
(* first removal, unless they are Careless.                                *)
(***************************************************************************)
EXTENDS RemappedInstance

cplexVars == <<vars, handles>>

Init == /\ InstanceInit /\ InitRemapping
        /\ held = {} /\ heldRows = <<>>
----------------------------------------------------------------------------
(* Objective: one place for each column, where the terms are added up. *)

SetOffset(k) == SetObjectiveOffset(k) /\ UNCHANGED handles

SetObjective(e) ==
    /\ call' = <<"set_objective", e>>
    /\ PutObjective([i \in DOMAIN cols |-> NativeCoefficient(e.terms, i)])
    /\ offset' = e.constant
    /\ UNCHANGED <<rows, maximize, handles>>

AddObjective(e) ==
    /\ offset + e.constant \in Constants
    /\ call' = <<"add_objective", e>>
    /\ PutObjective([i \in DOMAIN cols |-> cols[i].obj + NativeCoefficient(e.terms, i)])
    /\ offset' = offset + e.constant
    /\ UNCHANGED <<rows, maximize, handles>>

SetObjectiveCoef(h, c) ==
    /\ call' = <<"set_objective_coefficient", h, c>>
    /\ ChangeNative(h, [obj |-> c])
    /\ UNCHANGED <<rows, offset, maximize, handles>>
----------------------------------------------------------------------------
(* Variables *)

\* The map may become longer than there are columns by one entry more.
MayLeaveEntry == remap_ids => Len(handle_ids_map) < Len(cols) + MaxLeftOver

AddOne(p, type, coefs, h) ==
    LET native == Len(cols) + 1 IN
    /\ h = NewHandleId(native) /\ h <= MaxHandles
    /\ AppendCols(<<NewCol(p, type, coefs)>>)
    /\ NewVarHandle(native, ExtendedHandleIdsMap(1))
    /\ held' = held \cup {h}
    /\ UNCHANGED <<rows, offset, maximize, heldRows>>

\* add_variable and add_named_variable.
AddVariable(p) ==
    LET h == NewHandleId(Len(cols) + 1) IN
    /\ call' = <<"add_variable", h, AsAdded(p, "C")>>
    /\ AddOne(p, "C", Zeros, h)

AddColumn(p, entries) ==
    LET h == NewHandleId(Len(cols) + 1) IN
    /\ call' = <<"add_column", h, AsAdded(p, "C"), [k \in DOMAIN heldRows |-> entries[heldRows[k]]]>>
    /\ AddOne(p, "C", entries, h)

\* The second handle that a call takes from the free list, or else makes.
SecondHandle ==
    LET free == Len(free_var_handles) IN
    IF free >= 2 THEN free_var_handles[free - 1]
    ELSE Len(native_ids_map) + (IF free = 1 THEN 1 ELSE 2)

\* What the handles `first' and `second' of one column do to the maps.
TwoHandles(native, first, second) ==
    /\ MayLeaveEntry /\ first <= MaxHandles /\ second <= MaxHandles
    /\ native_ids_map' = [h \in 1..Max({Len(native_ids_map), first, second}) |->
                             IF h \in {first, second} THEN native ELSE native_ids_map[h]]
    /\ handle_ids_map' = [ExtendedHandleIdsMap(2) EXCEPT ![native] = second]
    /\ free_var_handles' = SubSeq(free_var_handles, 1, Max({0, Len(free_var_handles) - 2}))
    /\ UNCHANGED remap_ids

\* Mutant: the first handle is returned, to which the column does not lead back.
AddTypedVariableFirstHandle(p, type) ==
    LET native == Len(cols) + 1
        returned == NewHandleId(native)
    IN
    /\ call' = <<"add_variable", returned, AsAdded(p, type)>>
    /\ AppendCols(<<NewCol(p, type, Zeros)>>)
    /\ IF remap_ids THEN TwoHandles(native, NewHandleId(native), SecondHandle)
       ELSE UNCHANGED remapping
    /\ held' = held \cup {returned}
    /\ UNCHANGED <<rows, offset, maximize, heldRows>>

\* add_integer_variable and add_binary_variable make an entry of the map and a handle,
\* and so does _add_variable, which they call: the column has two handles, the second
\* is returned and the first is lost.
AddTypedVariable(p, type) ==
    LET native == Len(cols) + 1
        returned == IF remap_ids THEN SecondHandle ELSE native
    IN
    /\ call' = <<"add_variable", returned, AsAdded(p, type)>>
    /\ AppendCols(<<NewCol(p, type, Zeros)>>)
    /\ IF remap_ids THEN TwoHandles(native, NewHandleId(native), SecondHandle)
       ELSE UNCHANGED remapping
    /\ held' = held \cup {returned}
    /\ UNCHANGED <<rows, offset, maximize, heldRows>>

\* CPLEX refuses the column and check() throws.
AddVariableRefused ==
    /\ MayLeaveEntry
    /\ call' = <<"rejected">>
    /\ handle_ids_map' = ExtendedHandleIdsMap(1)
    /\ UNCHANGED <<instance, held, heldRows, remap_ids, native_ids_map, free_var_handles>>

AddMany(count, p, type, extended) ==
    LET n == Len(cols)
        first == FirstOfHandleRange(n)
    IN  /\ first + count - 1 <= MaxHandles
        /\ call' = <<"add_variables", first, count, AsAdded(p, type)>>
        /\ AppendCols([k \in 1..count |-> NewCol(p, type, Zeros)])
        /\ NewVarHandleRange(n, count, extended)
        /\ held' = held \cup first..(first + count - 1)
        /\ UNCHANGED <<rows, offset, maximize, heldRows>>

AddVariables(count, p, type) == AddMany(count, p, type, ExtendedHandleIdsMap(count))

\* The handle map is not extended: its entry is written behind the end.
AddBinaryVariables(count) ==
    /\ remap_ids => Careless
    /\ AddMany(count, BinaryParams, "B", handle_ids_map)

\* delsetcols numbers the columns that are left.
RemoveVariables(doomed) ==
    LET D == {NativeId(doomed[k]) : k \in DOMAIN doomed} IN
    /\ call' = <<"remove_variables", {doomed[k] : k \in DOMAIN doomed}>>
    /\ cols' = Compacted(cols, D)
    /\ RemoveHandles(doomed, Len(cols), D)
    /\ held' = held \ {doomed[k] : k \in DOMAIN doomed}
    /\ UNCHANGED <<rows, offset, maximize, heldRows>>

\* A binary variable is not given bounds outside 0..1.
SetVariableBound(h, side, b) ==
    /\ cols[NativeId(h)].type = "B" => b \in 0..1
    /\ call' = <<IF side = "lb" THEN "set_variable_lower_bound" ELSE "set_variable_upper_bound", h, b>>
    /\ ChangeNative(h, [f \in {side} |-> b])
    /\ UNCHANGED <<rows, offset, maximize, handles>>

\* set_continuous and set_integer.
SetType(h, type) ==
    /\ call' = <<"set_type", h, IF type = "C" THEN "continuous" ELSE "integer">>
    /\ ChangeNative(h, [type |-> type])
    /\ UNCHANGED <<rows, offset, maximize, handles>>

SetBinary(h) ==
    /\ call' = <<"set_binary", h>>
    /\ ChangeNative(h, [type |-> "B", lb |-> 0, ub |-> 1])
    /\ UNCHANGED <<rows, offset, maximize, handles>>
----------------------------------------------------------------------------
(* Constraints *)

CplexSense(s) == CASE s = "less_equal" -> "L" [] s = "equal" -> "E" [] s = "greater_equal" -> "G"
SenseOf(c) == CASE c = "L" -> "less_equal" [] c = "E" -> "equal" [] c = "G" -> "greater_equal"

\* add_constraint is the case of one row.
AddConstraints(lcs) ==
    /\ call' = <<"add_constraints", lcs>>
    /\ AppendRows([r \in DOMAIN lcs |-> [sense |-> CplexSense(lcs[r].sense), rhs |-> lcs[r].rhs]],
                  [i \in DOMAIN cols |-> [r \in DOMAIN lcs |-> NativeCoefficient(lcs[r].terms.terms, i)]])
    /\ heldRows' = heldRows \o [r \in DOMAIN lcs |-> Len(rows) + r]
    /\ UNCHANGED <<offset, maximize, remapping, held>>

SetConstraintRhs(k, b) ==
    /\ call' = <<"set_constraint_rhs", k, b>>
    /\ rows' = [rows EXCEPT ![heldRows[k]].rhs = b]
    /\ UNCHANGED <<cols, offset, maximize, handles>>

SetConstraintSense(k, s) ==
    /\ call' = <<"set_constraint_sense", k, s>>
    /\ rows' = [rows EXCEPT ![heldRows[k]].sense = CplexSense(s)]
    /\ UNCHANGED <<cols, offset, maximize, handles>>

ConstraintOf(r) == [rows[r] EXCEPT !.sense = SenseOf(@)]
----------------------------------------------------------------------------
Next ==
    \/ \E k \in Constants : SetOffset(k)
    \/ \E m \in BOOLEAN : SetDirection(m) /\ UNCHANGED handles
    \/ \E e \in HeldExprs : SetObjective(e) \/ AddObjective(e)
    \/ \E h \in held, c \in Coefs : SetObjectiveCoef(h, c)
    \/ \E p \in Params : AddVariable(p)
    \/ \E t \in {"I", "B"} : \E p \in ParamsFor(t) : AddTypedVariable(p, t)
    \/ AddVariableRefused
    \/ \E p \in Params, entries \in [1..Len(rows) -> Coefs] : AddColumn(p, entries)
    \/ \E n \in 1..MaxColumns, t \in {"C", "I"}, p \in Params : AddVariables(n, p, t)
    \/ \E n \in 1..MaxColumns : AddBinaryVariables(n)
    \/ \E doomed \in Removals : RemoveVariables(doomed)
    \/ \E h \in held, side \in {"lb", "ub"}, b \in Bounds : SetVariableBound(h, side, b)
    \/ \E h \in held, t \in {"C", "I"} : SetType(h, t)
    \/ \E h \in held : SetBinary(h)
    \/ \E lcs \in Batches : AddConstraints(lcs)
    \/ \E k \in DOMAIN heldRows, b \in Rhs : SetConstraintRhs(k, b)
    \/ \E k \in DOMAIN heldRows, s \in Senses : SetConstraintSense(k, s)

Spec == Init /\ [][Next]_cplexVars
----------------------------------------------------------------------------
(* Properties *)

Promise == INSTANCE MilpModel WITH
    Handles <- 1..MaxHandles,
    Params <- {AsAdded(p, t) : p \in Params \cup {BinaryParams}, t \in Types},
    Expressions <- ExpressionsOver,
    CoefficientOf <- Coefficient,
    variables <- [h \in Readable |-> VariableOf(h)],
    constraints <- [k \in DOMAIN heldRows |-> ConstraintOf(heldRows[k])]

\* Every call does what it says by handle, also when a column was given two handles or
\* was refused after its entry in the map had been made.
KeepsPromise == Promise!Spec
=============================================================================
