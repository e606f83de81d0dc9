---------------------------- MODULE HighsModel ----------------------------
(***************************************************************************)
(* The HiGHS model (highs_base): the variables, objective and constraints  *)
(* of a client, kept in the columns and rows of a HiGHS instance.  HiGHS   *)
(* knows columns by position; RemappingModel relates positions to handles. *)
(*                                                                         *)
(* The client obeys the interface: it passes handles it holds, removes no  *)
(* handle twice, and passes distinct_variables only for distinct terms.    *)
(***************************************************************************)
EXTENDS RemappingModel, LinearTerms

CONSTANTS Coefs,        \* objective and matrix coefficients
          TermCoefs,    \* those that clients write in expressions
          Bounds,       \* variable bounds
          Types,        \* variable types
          Params,       \* parameters that clients create variables with
          Rhs,          \* right-hand sides of the constraints
          Infinity,     \* HiGHS's infinity
          MaxColumns,   \* bound on the number of columns
          MaxHandles,   \* bound on the handle ids given out
          MaxLeftOver,  \* bound on the map entries that refused columns leave over
          MaxRows,      \* bound on the number of constraints
          MaxTerms      \* bound on the number of terms of an expression

ASSUME DataAssumption == /\ Coefs \subseteq Int
                         /\ 0 \in Coefs
                         /\ TermCoefs \subseteq Coefs
                         /\ Params \subseteq [obj : Coefs, lb : Bounds, ub : Bounds, type : Types]
                         /\ Rhs \subseteq Int

ASSUME InfinityAssumption == /\ Infinity \in Int
                             /\ \A b \in Rhs : -Infinity < b /\ b < Infinity

ASSUME BoundsAssumption == /\ MaxColumns \in Nat
                           /\ MaxHandles \in Nat \ {0}
                           /\ MaxLeftOver \in Nat
                           /\ MaxRows \in Nat
                           /\ MaxTerms \in Nat

VARIABLES cols,   \* the columns of the HiGHS instance
          rows,   \* the rows of the HiGHS instance: their bounds
          held,   \* the handles the client holds
          call    \* the last call of the client

vars == <<remapping, cols, rows, held, call>>

Senses == {"less_equal", "equal", "greater_equal"}
ExpressionsOver(Vars) == Expressions(Vars, TermCoefs, MaxTerms)
Exprs == ExpressionsOver(held)
Constraints == [terms : Exprs, sense : Senses, rhs : Rhs]

Column(p, coefs) ==
    [obj |-> p.obj, lb |-> p.lb, ub |-> p.ub, type |-> p.type, coefs |-> coefs]
Zeros == [r \in 1..Len(rows) |-> 0]
WithRows(coefs, n, more, m) ==
    [r \in 1..(n + m) |-> IF r <= n THEN coefs[r] ELSE more[r - n]]

Init == /\ InitRemapping
        /\ cols = <<>>
        /\ rows = <<>>
        /\ held = {}
        /\ call = <<"init">>
----------------------------------------------------------------------------
(* Variables *)

\* _add_variable and _add_column.  The handle map grows before the column is
\* added, which is when HiGHS may refuse it.
AddOne(p, coefs, h) ==
    LET native == Len(cols) + 1 IN
    /\ native <= MaxColumns
    /\ h = NewHandleId(native)
    /\ h <= MaxHandles
    /\ cols' = Append(cols, Column(p, coefs))
    /\ NewVarHandle(native, ExtendedHandleIdsMap(1))
    /\ held' = held \cup {h}
    /\ UNCHANGED rows

AddVariable(p) ==
    LET h == NewHandleId(Len(cols) + 1) IN
    /\ call' = <<"add_variable", h, p>>
    /\ AddOne(p, Zeros, h)

AddColumn(p, entries) ==
    LET h == NewHandleId(Len(cols) + 1) IN
    /\ call' = <<"add_column", h, p, entries>>
    /\ AddOne(p, entries, h)

\* HiGHS refuses the column (an infinite cost, say) and check() throws.
AddVariableFails ==
    /\ Len(handle_ids_map) < Len(cols) + MaxLeftOver
    /\ call' = <<"rejected">>
    /\ handle_ids_map' = ExtendedHandleIdsMap(1)
    /\ UNCHANGED <<remap_ids, native_ids_map, free_var_handles, cols, rows, held>>

AddVariables(count, p) ==
    LET n == Len(cols)
        first == FirstOfHandleRange(n)
    IN
    /\ n + count <= MaxColumns
    /\ first + count - 1 <= MaxHandles
    /\ call' = <<"add_variables", first, count, p>>
    /\ NewVarHandleRange(n, count, ExtendedHandleIdsMap(count))
    /\ cols' = cols \o [k \in 1..count |-> Column(p, Zeros)]
    /\ held' = held \cup first..(first + count - 1)
    /\ UNCHANGED rows

\* remove_variable and remove_variables.  Deleting the last columns of a model
\* that does not remap leaves the numbering as it is.
RemoveVariables(doomed) ==
    LET n == Len(cols)
        D == {NativeId(doomed[k]) : k \in DOMAIN doomed}
    IN
    /\ doomed # <<>>
    /\ call' = <<"remove_variables", {doomed[k] : k \in DOMAIN doomed}>>
    /\ cols' = Compacted(cols, D)
    /\ IF remap_ids \/ \E d \in D : d <= n - Len(doomed)
       THEN RemoveHandles(doomed, n, D)
       ELSE UNCHANGED remapping
    /\ held' = held \ {doomed[k] : k \in DOMAIN doomed}
    /\ UNCHANGED rows

SetVariableLowerBound(h, b) ==
    /\ call' = <<"set_variable_lower_bound", h, b>>
    /\ cols' = [cols EXCEPT ![NativeId(h)].lb = b]
    /\ UNCHANGED <<remapping, rows, held>>

\* Mutant: the handle is passed where HiGHS wants the column.
SetVariableUpperBoundOfColumn(h, b) ==
    /\ call' = <<"set_variable_upper_bound", h, b>>
    /\ cols' = [i \in DOMAIN cols |-> IF i = h THEN [cols[i] EXCEPT !.ub = b] ELSE cols[i]]
    /\ UNCHANGED <<remapping, rows, held>>

SetVariableUpperBound(h, b) ==
    /\ call' = <<"set_variable_upper_bound", h, b>>
    /\ cols' = [cols EXCEPT ![NativeId(h)].ub = b]
    /\ UNCHANGED <<remapping, rows, held>>
----------------------------------------------------------------------------
(* Objective *)

\* What an expression gives to a column: the sum over the terms whose handle
\* translates to it (Coalescing shows the buffers that compute this sum).
NativeCoefficient(terms, i) ==
    SumAt(terms, {k \in DOMAIN terms : NativeId(terms[k].var) = i})

SetObjective(terms) ==
    /\ \A i \in DOMAIN cols : NativeCoefficient(terms, i) \in Coefs
    /\ call' = <<"set_objective", terms>>
    /\ cols' = [i \in DOMAIN cols |-> [cols[i] EXCEPT !.obj = NativeCoefficient(terms, i)]]
    /\ UNCHANGED <<remapping, rows, held>>

AddObjective(terms) ==
    /\ \A i \in DOMAIN cols : cols[i].obj + NativeCoefficient(terms, i) \in Coefs
    /\ call' = <<"add_objective", terms>>
    /\ cols' = [i \in DOMAIN cols |-> [cols[i] EXCEPT !.obj = @ + NativeCoefficient(terms, i)]]
    /\ UNCHANGED <<remapping, rows, held>>

SetObjectiveCoefficient(h, c) ==
    /\ call' = <<"set_objective_coefficient", h, c>>
    /\ cols' = [cols EXCEPT ![NativeId(h)].obj = c]
    /\ UNCHANGED <<remapping, rows, held>>
----------------------------------------------------------------------------
(* Constraints.  A row has two bounds; sense and right-hand side are read  *)
(* back from them.                                                         *)

RowOf(sense, b) ==
    [lower |-> IF sense = "less_equal" THEN -Infinity ELSE b,
     upper |-> IF sense = "greater_equal" THEN Infinity ELSE b]

BoundsToRhs(row) == IF row.lower = -Infinity THEN row.upper ELSE row.lower

BoundsToSense(row) ==
    CASE row.lower = row.upper -> "equal"
      [] row.lower # row.upper /\ row.lower = -Infinity -> "less_equal"
      [] row.lower # row.upper /\ row.lower # -Infinity -> "greater_equal"

AddConstraints(lcs) ==
    /\ Len(rows) + Len(lcs) <= MaxRows
    /\ \A r \in DOMAIN lcs, i \in DOMAIN cols : NativeCoefficient(lcs[r].terms, i) \in Coefs
    /\ call' = <<"add_constraints", lcs>>
    /\ cols' = [i \in DOMAIN cols |-> [cols[i] EXCEPT
          !.coefs = WithRows(@, Len(rows),
                             [r \in DOMAIN lcs |-> NativeCoefficient(lcs[r].terms, i)],
                             Len(lcs))]]
    /\ rows' = rows \o [r \in DOMAIN lcs |-> RowOf(lcs[r].sense, lcs[r].rhs)]
    /\ UNCHANGED <<remapping, held>>

\* Mutant: an equality keeps its other bound.
SetConstraintRhsOneBound(r, b) ==
    /\ call' = <<"set_constraint_rhs", r, b>>
    /\ rows' = [rows EXCEPT ![r] = IF BoundsToSense(@) = "less_equal"
                                   THEN [lower |-> @.lower, upper |-> b]
                                   ELSE [lower |-> b, upper |-> @.upper]]
    /\ UNCHANGED <<remapping, cols, held>>

\* The bound that is not the right-hand side is kept.
SetConstraintRhs(r, b) ==
    /\ call' = <<"set_constraint_rhs", r, b>>
    /\ rows' = [rows EXCEPT ![r] =
          CASE BoundsToSense(@) = "equal" -> [lower |-> b, upper |-> b]
            [] BoundsToSense(@) = "less_equal" -> [lower |-> @.lower, upper |-> b]
            [] BoundsToSense(@) = "greater_equal" -> [lower |-> b, upper |-> @.upper]]
    /\ UNCHANGED <<remapping, cols, held>>

SetConstraintSense(r, s) ==
    /\ call' = <<"set_constraint_sense", r, s>>
    /\ rows' = IF BoundsToSense(rows[r]) = s THEN rows
               ELSE [rows EXCEPT ![r] = RowOf(s, BoundsToRhs(@))]
    /\ UNCHANGED <<remapping, cols, held>>
----------------------------------------------------------------------------
\* Sequences of held handles without repetition, the arguments of a removal.
Removals ==
    UNION {{s \in [1..k -> held] : \A i, j \in 1..k : s[i] = s[j] => i = j} :
           k \in 1..Cardinality(held)}

Next ==
    \/ \E p \in Params : AddVariable(p)
    \/ \E p \in Params, e \in [1..Len(rows) -> Coefs] : AddColumn(p, e)
    \/ AddVariableFails
    \/ \E p \in Params, n \in 1..MaxColumns : AddVariables(n, p)
    \/ \E doomed \in Removals : RemoveVariables(doomed)
    \/ \E h \in held, b \in Bounds : SetVariableLowerBound(h, b)
    \/ \E h \in held, b \in Bounds : SetVariableUpperBound(h, b)
    \/ \E terms \in Exprs : SetObjective(terms)
    \/ \E terms \in Exprs : AddObjective(terms)
    \/ \E h \in held, c \in Coefs : SetObjectiveCoefficient(h, c)
    \/ \E m \in 0..MaxRows : \E lcs \in [1..m -> Constraints] : AddConstraints(lcs)
    \/ \E r \in DOMAIN rows, b \in Rhs : SetConstraintRhs(r, b)
    \/ \E r \in DOMAIN rows, s \in Senses : SetConstraintSense(r, s)

Spec == Init /\ [][Next]_vars
----------------------------------------------------------------------------
(* Properties *)

ColumnType == [obj : Coefs, lb : Bounds, ub : Bounds, type : Types,
               coefs : [1..Len(rows) -> Coefs]]
RowType == {RowOf(s, b) : s \in Senses, b \in Rhs}

\* Every vector holds what the code puts in it: ids below the bounds, columns
\* with one coefficient for each row, rows with one of the three shapes.
TypeOK ==
    /\ remap_ids \in BOOLEAN
    /\ native_ids_map \in Seq(1..MaxColumns)
    /\ handle_ids_map \in Seq(1..MaxHandles)
    /\ free_var_handles \in Seq(1..MaxHandles)
    /\ rows \in Seq(RowType)
    /\ cols \in Seq(ColumnType)
    /\ held \subseteq 1..MaxHandles

\* _native_id and _var_handle look up no entry that a map does not have: the maps
\* cover the held handles and the columns, and do not exist until they are needed.
LookupsInBounds ==
    /\ Len(cols) <= MaxColumns /\ Len(native_ids_map) <= MaxHandles
    /\ remap_ids => /\ held \subseteq DOMAIN native_ids_map
                    /\ Len(cols) <= Len(handle_ids_map)
    /\ ~remap_ids => native_ids_map = <<>> /\ handle_ids_map = <<>> /\ free_var_handles = <<>>

\* The held handles and the columns of the solver correspond one to one, and
\* each map is the inverse of the other there: after any sequence of additions,
\* refused additions and removals, _native_id leads every held handle to a
\* column of its own and _var_handle leads the column back.
MapsInverse ==
    /\ \A h \in held : NativeId(h) \in DOMAIN cols /\ VarHandle(NativeId(h)) = h
    /\ \A i \in DOMAIN cols : VarHandle(i) \in held /\ NativeId(VarHandle(i)) = i

\* Once the model remaps, every handle id ever given out is either held or on the
\* free list, and on it once: the list neither loses an id, which would make the
\* map grow with every removal, nor gives out an id the client still holds.
NoHandleLost ==
    remap_ids =>
        /\ \A j, k \in DOMAIN free_var_handles :
              free_var_handles[j] = free_var_handles[k] => j = k
        /\ {free_var_handles[k] : k \in DOMAIN free_var_handles} =
              DOMAIN native_ids_map \ held

\* The promise of the interface, through the maps: what a held handle stands
\* for is the column it translates to, and a constraint is its row's bounds.
Promise == INSTANCE LinearModel WITH
    Handles <- 1..MaxHandles,
    Expressions <- ExpressionsOver,
    variables <- [h \in held |-> cols[NativeId(h)]],
    constraints <- [r \in DOMAIN rows |->
                       [sense |-> BoundsToSense(rows[r]), rhs |-> BoundsToRhs(rows[r])]]

\* Every operation of highs_base changes exactly what the client asked for by
\* handle, in every mix of additions, removals and updates: a removal leaves the
\* surviving variables, their bounds, costs and coefficients as they were.
KeepsPromise == Promise!Spec
=============================================================================
