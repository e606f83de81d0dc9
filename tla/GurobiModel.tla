---------------------------- MODULE GurobiModel ----------------------------
(***************************************************************************)
(* The Gurobi models (gurobi_base and what gurobi_milp adds that writes    *)
(* the problem).  Gurobi queues what it is asked to change and applies it  *)
(* in updatemodel: `cols' and the rest of the problem are what it will be  *)
(* then, and `seen' is the objective that a call finds which does not      *)
(* update first.  The wrapper counts columns and rows itself.              *)
(*                                                                         *)
(* Clients make the calls of gurobi_milp that mistake a handle for a       *)
(* column, or forget the maps, only while the two are the same, and write  *)
(* ranges without a constant, which add_ranged_constraint ignores.  With   *)
(* Careless they make the first kind of call whenever they like.           *)
(***************************************************************************)
EXTENDS RemappedInstance

VARIABLES num_var_native_ids, lazy_num_constraints,
          seen

counters == <<num_var_native_ids, lazy_num_constraints>>
gurobiVars == <<vars, handles, counters, seen>>

Init == /\ InstanceInit /\ InitRemapping
        /\ held = {} /\ heldRows = <<>>
        /\ num_var_native_ids = 0 /\ lazy_num_constraints = 0
        /\ seen = [obj |-> <<>>, offset |-> 0]

Objective(cs) == [i \in DOMAIN cs |-> cs[i].obj]

\* What a getter finds once it has called updatemodel.
Updated == [obj |-> Objective(cols), offset |-> offset]

\* Any getter, num_variables and num_constraints: they update first.
Query ==
    /\ seen' = Updated
    /\ UNCHANGED <<vars, handles, counters>>
----------------------------------------------------------------------------
(* Objective *)

SetOffset(k) ==
    /\ SetObjectiveOffset(k)
    /\ UNCHANGED <<handles, counters, seen>>

SetObjective(e) ==
    /\ call' = <<"set_objective", e>>
    /\ PutObjective([i \in DOMAIN cols |-> NativeCoefficient(e.terms, i)])
    /\ offset' = e.constant
    /\ UNCHANGED <<rows, maximize, handles, counters, seen>>

\* Mutant: what is added to is read without an update.
AddObjectiveToSeen(e) ==
    /\ seen.offset + e.constant \in Constants
    /\ call' = <<"add_objective", e>>
    /\ PutObjective([i \in DOMAIN cols |-> (IF NativeCoefficient(e.terms, i) = 0 THEN cols[i].obj
                                ELSE IF i \in DOMAIN seen.obj THEN seen.obj[i] ELSE 0)
                               + NativeCoefficient(e.terms, i)])
    /\ offset' = seen.offset + e.constant
    /\ UNCHANGED <<rows, maximize, handles, counters, seen>>

\* Each coefficient that is added to is read by its handle, after an update, and so
\* is the constant; the coefficients have been written when that is read.
AddObjective(e) ==
    /\ Updated.offset + e.constant \in Constants
    /\ call' = <<"add_objective", e>>
    /\ PutObjective([i \in DOMAIN cols |->
          IF NativeCoefficient(e.terms, i) = 0 THEN cols[i].obj
          ELSE Updated.obj[NativeId(VarHandle(i))] + NativeCoefficient(e.terms, i)])
    /\ offset' = Updated.offset + e.constant
    /\ seen' = [Updated EXCEPT !.obj = Objective(cols')]
    /\ UNCHANGED <<rows, maximize, handles, counters>>

SetObjectiveCoef(h, c) ==
    /\ call' = <<"set_objective_coefficient", h, c>>
    /\ ChangeNative(h, [obj |-> c])
    /\ UNCHANGED <<rows, offset, maximize, handles, counters, seen>>
----------------------------------------------------------------------------
(* Variables *)

\* _add_variable and _add_column: the handle is made once Gurobi has the column.
AddOne(p, type, coefs, h) ==
    LET native == num_var_native_ids + 1 IN
    /\ h = NewHandleId(native) /\ h <= MaxHandles
    /\ AppendCols(<<NewCol(p, type, coefs)>>)
    /\ NewVarHandle(native, ExtendedHandleIdsMap(1))
    /\ num_var_native_ids' = num_var_native_ids + 1
    /\ held' = held \cup {h}
    /\ UNCHANGED <<rows, offset, maximize, heldRows, lazy_num_constraints, seen>>

AddVariable(p, type) ==
    LET h == NewHandleId(num_var_native_ids + 1) IN
    /\ call' = <<"add_variable", h, AsAdded(p, type)>>
    /\ AddOne(p, type, Zeros, h)

\* The row that a constraint of the client names, if Gurobi has it.
IsRow(k) == heldRows[k] \in DOMAIN rows

\* The entries by row, of those that come by constraint.
ByRow(entries) ==
    [r \in DOMAIN rows |-> MapThenSumSet(LAMBDA k : entries[k],
                                        {k \in DOMAIN heldRows : heldRows[k] = r})]

AddColumn(p, entries) ==
    LET h == NewHandleId(num_var_native_ids + 1) IN
    /\ \A k \in DOMAIN heldRows : entries[k] # 0 => IsRow(k)
    /\ call' = <<"add_column", h, AsAdded(p, "C"), entries>>
    /\ AddOne(p, "C", ByRow(entries), h)

\* _add_variables: the attributes that are not Gurobi's defaults are set afterwards.
AddMany(count, p, type, extended) ==
    LET n == num_var_native_ids
        first == FirstOfHandleRange(n)
    IN  /\ first + count - 1 <= MaxHandles
        /\ call' = <<"add_variables", first, count, AsAdded(p, type)>>
        /\ AppendCols([k \in 1..count |-> NewCol(p, type, Zeros)])
        /\ NewVarHandleRange(n, count, extended)
        /\ num_var_native_ids' = n + count
        /\ held' = held \cup first..(first + count - 1)
        /\ UNCHANGED <<rows, offset, maximize, heldRows, lazy_num_constraints, seen>>

AddVariables(count, p, type) == AddMany(count, p, type, ExtendedHandleIdsMap(count))

\* The handle map is not extended: its entry is written behind the end.
AddBinaryVariables(count) ==
    /\ remap_ids => Careless
    /\ AddMany(count, BinaryParams, "B", handle_ids_map)

\* Mutant: the test for a deleted tail is off by one.
RemoveWithoutRemapping(doomed) ==
    LET n == num_var_native_ids
        D == {NativeId(doomed[k]) : k \in DOMAIN doomed}
    IN
    /\ call' = <<"remove_variables", {doomed[k] : k \in DOMAIN doomed}>>
    /\ cols' = Compacted(cols, D)
    /\ IF remap_ids \/ \E d \in D : d < n - Len(doomed)
       THEN RemoveHandles(doomed, n, D)
       ELSE UNCHANGED remapping
    /\ num_var_native_ids' = n - Len(doomed)
    /\ held' = held \ {doomed[k] : k \in DOMAIN doomed}
    /\ seen' = [obj |-> Objective(cols'), offset |-> offset]
    /\ UNCHANGED <<rows, offset, maximize, heldRows, lazy_num_constraints>>

\* Deleting the last columns of a model that does not remap changes no number.
RemoveVariables(doomed) ==
    LET n == num_var_native_ids
        D == {NativeId(doomed[k]) : k \in DOMAIN doomed}
    IN
    /\ call' = <<"remove_variables", {doomed[k] : k \in DOMAIN doomed}>>
    /\ cols' = Compacted(cols, D)
    /\ IF remap_ids \/ \E d \in D : d <= n - Len(doomed)
       THEN RemoveHandles(doomed, n, D)
       ELSE UNCHANGED remapping
    /\ num_var_native_ids' = n - Len(doomed)
    /\ held' = held \ {doomed[k] : k \in DOMAIN doomed}
    /\ seen' = [obj |-> Objective(cols'), offset |-> offset]
    /\ UNCHANGED <<rows, offset, maximize, heldRows, lazy_num_constraints>>

\* A binary variable is not given bounds outside 0..1.
SetVariableBound(h, side, b) ==
    /\ cols[NativeId(h)].type = "B" => b \in 0..1
    /\ call' = <<IF side = "lb" THEN "set_variable_lower_bound" ELSE "set_variable_upper_bound", h, b>>
    /\ ChangeNative(h, [f \in {side} |-> b])
    /\ UNCHANGED <<rows, offset, maximize, handles, counters, seen>>

\* set_continuous, set_integer and set_binary: v.id() is passed for the column.
SetType(h, type) ==
    /\ remap_ids => Careless
    /\ h \in DOMAIN cols
    /\ call' = CASE type = "C" -> <<"set_type", h, "continuous">>
                 [] type = "I" -> <<"set_type", h, "integer">>
                 [] type = "B" -> <<"set_binary", h>>
    /\ cols' = [cols EXCEPT ![h] =
          IF type = "B" THEN [@ EXCEPT !.type = type, !.lb = 0, !.ub = 1]
          ELSE [@ EXCEPT !.type = type]]
    /\ UNCHANGED <<rows, offset, maximize, handles, counters, seen>>
----------------------------------------------------------------------------
(* Constraints.  A range is an equality with a slack column, which has a   *)
(* handle of its own that nobody is given.                                 *)

RowsOf(lcs) == [r \in DOMAIN lcs |-> [sense |-> lcs[r].sense, rhs |-> lcs[r].rhs]]

\* add_constraint is the case of one row.
AddConstraints(lcs) ==
    /\ call' = <<"add_constraints", lcs>>
    /\ AppendRows(RowsOf(lcs), [i \in DOMAIN cols |-> [r \in DOMAIN lcs |-> NativeCoefficient(lcs[r].terms.terms, i)]])
    /\ lazy_num_constraints' = lazy_num_constraints + Len(lcs)
    /\ heldRows' = heldRows \o [r \in DOMAIN lcs |-> lazy_num_constraints + r]
    /\ UNCHANGED <<offset, maximize, remapping, held, num_var_native_ids, seen>>

\* add_constraint and add_ranged_constraint count the row before Gurobi refuses it.
AddConstraintRefused ==
    /\ call' = <<"rejected">>
    /\ lazy_num_constraints' = lazy_num_constraints + 1
    /\ UNCHANGED <<instance, handles, num_var_native_ids, seen>>

Slack(lb, ub) == NewCol([obj |-> 0, lb |-> 0, ub |-> ub - lb], "C", Append(Zeros, 1))

\* Mutant: the slack is not counted and gets no handle.
AddRangeWithoutSlack(e, lb, ub) ==
    /\ call' = <<"add_ranged_constraint", e, lb, ub>>
    /\ Len(rows) < MaxRows /\ Len(cols) < MaxColumns
    /\ \A i \in DOMAIN cols : NativeCoefficient(e.terms, i) \in Coefs
    /\ rows' = Append(rows, [sense |-> "equal", rhs |-> ub])
    /\ cols' = Append([i \in DOMAIN cols |-> [cols[i] EXCEPT
                          !.coefs = Append(@, NativeCoefficient(e.terms, i))]], Slack(lb, ub))
    /\ lazy_num_constraints' = lazy_num_constraints + 1
    /\ heldRows' = Append(heldRows, lazy_num_constraints + 1)
    /\ UNCHANGED <<offset, maximize, held, seen, num_var_native_ids, remapping>>

AddRangedConstraint(e, lb, ub) ==
    LET native == num_var_native_ids + 1 IN
    /\ call' = <<"add_ranged_constraint", e, lb, ub>>
    /\ Len(rows) < MaxRows /\ Len(cols) < MaxColumns /\ NewHandleId(native) <= MaxHandles
    /\ \A i \in DOMAIN cols : NativeCoefficient(e.terms, i) \in Coefs
    /\ rows' = Append(rows, [sense |-> "equal", rhs |-> ub])
    /\ cols' = Append([i \in DOMAIN cols |-> [cols[i] EXCEPT
                          !.coefs = Append(@, NativeCoefficient(e.terms, i))]], Slack(lb, ub))
    /\ NewVarHandle(native, ExtendedHandleIdsMap(1))
    /\ num_var_native_ids' = native
    /\ lazy_num_constraints' = lazy_num_constraints + 1
    /\ heldRows' = Append(heldRows, lazy_num_constraints + 1)
    /\ UNCHANGED <<offset, maximize, held, seen>>

\* The slacks of row r, of which there is one or none.
SlacksOf(r) == {i \in DOMAIN cols : VarHandle(i) \notin held /\ cols[i].coefs[r] # 0}

\* What a row is together with its slack.
ConstraintOf(r) ==
    LET width == MapThenSumSet(LAMBDA i : cols[i].ub, SlacksOf(r))
    IN  IF width = 0 THEN rows[r]
        ELSE [sense |-> "range", rhs |-> <<rows[r].rhs - width, rows[r].rhs>>]

\* Those of a range are left alone.
SetConstraintRhs(k, b) ==
    /\ IsRow(k)
    /\ SlacksOf(heldRows[k]) = {}
    /\ call' = <<"set_constraint_rhs", k, b>>
    /\ rows' = [rows EXCEPT ![heldRows[k]].rhs = b]
    /\ UNCHANGED <<cols, offset, maximize, handles, counters, seen>>

SetConstraintSense(k, s) ==
    /\ IsRow(k)
    /\ SlacksOf(heldRows[k]) = {}
    /\ call' = <<"set_constraint_sense", k, s>>
    /\ rows' = [rows EXCEPT ![heldRows[k]].sense = s]
    /\ UNCHANGED <<cols, offset, maximize, handles, counters, seen>>

\* set_constraint_rhs, set_constraint_sense and add_column throw for a constraint that
\* names no row of Gurobi's, before they change anything.
UnknownConstraint(k) ==
    /\ ~IsRow(k)
    /\ call' = <<"rejected">>
    /\ UNCHANGED <<instance, handles, counters, seen>>
----------------------------------------------------------------------------
Next ==
    \/ Query
    \/ \E k \in Constants : SetOffset(k)
    \/ \E m \in BOOLEAN : SetDirection(m) /\ UNCHANGED <<handles, counters, seen>>
    \/ \E e \in HeldExprs : SetObjective(e) \/ AddObjective(e)
    \/ \E h \in held, c \in Coefs : SetObjectiveCoef(h, c)
    \/ \E t \in Types : \E p \in ParamsFor(t) : AddVariable(p, t)
    \/ \E p \in Params, entries \in [DOMAIN heldRows -> Coefs] : AddColumn(p, entries)
    \/ \E n \in 1..MaxColumns, t \in {"C", "I"}, p \in Params : AddVariables(n, p, t)
    \/ \E n \in 1..MaxColumns : AddBinaryVariables(n)
    \/ \E doomed \in Removals : RemoveVariables(doomed)
    \/ \E h \in held, side \in {"lb", "ub"}, b \in Bounds : SetVariableBound(h, side, b)
    \/ \E h \in held, t \in Types : SetType(h, t)
    \/ \E lcs \in Batches : AddConstraints(lcs)
    \/ AddConstraintRefused
    \/ \E e \in HeldExprs, lb, ub \in Rhs :
          e.constant = 0 /\ lb <= ub /\ AddRangedConstraint(e, lb, ub)
    \/ \E k \in DOMAIN heldRows, b \in Rhs : SetConstraintRhs(k, b)
    \/ \E k \in DOMAIN heldRows, s \in Senses : SetConstraintSense(k, s)
    \/ \E k \in DOMAIN heldRows : UnknownConstraint(k)

Spec == Init /\ [][Next]_gurobiVars
----------------------------------------------------------------------------
(* Properties *)

Promise == INSTANCE MilpModel WITH
    Handles <- 1..MaxHandles,
    Params <- {AsAdded(p, t) : p \in Params \cup {BinaryParams}, t \in Types},
    Expressions <- ExpressionsOver,
    CoefficientOf <- Coefficient,
    variables <- [h \in Readable |-> VariableOf(h)],
    constraints <- [k \in DOMAIN heldRows |-> ConstraintOf(heldRows[k])]

\* num_constraints() does not throw: the rows that the model counts are those that
\* Gurobi has.  While that holds each constraint of the client names its own row.
RowsCounted == lazy_num_constraints = Len(rows)

\* Every call that starts with the rows counted does what it says by handle, whatever is
\* still queued, and with the slack columns of ranges between those of the client: a
\* removal leaves the other variables and the ranges as they were.
KeepsPromise == [][RowsCounted => [Promise!Next]_(Promise!vars)]_gurobiVars

\* num_variables() does not throw: the columns that the model counts are those that
\* Gurobi has, slacks included.
ColumnsCounted == num_var_native_ids = Len(cols)
=============================================================================
